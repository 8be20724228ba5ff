------------------------- MODULE RadioMediumProofs -------------------------
(* The radio medium for every number of stations, every profile and every    *)
(* bound: types, FIFO ownership and packet descriptors; then what its         *)
(* stations are promised: who hears, in which order, what is counted, how     *)
(* fast the air is, which bytes share a packet, and that all of it is the     *)
(* broadcast of RadioBroadcast.                                               *)
EXTENDS RadioMedium, SequenceTheorems, FiniteSetTheorems, WellFoundedInduction, TLAPS

LEMMA ModStation == \A x \in Nat : x % MaxNodes \in Stations
  BY ProfileAssumption DEF Stations

LEMMA AirUsNat == \A n \in Nat : AirUs(n) \in Nat /\ AirBits(n) \in Nat
  <1> TAKE n \in Nat
  <1>1. AirBits(n) \in Nat BY ProfileAssumption DEF AirBits
  <1>2. (AirBits(n) * Second) \in Nat BY <1>1, ProfileAssumption
  <1>3. (AirBits(n) * Second + AirRate - 1) \in Nat BY <1>2, ProfileAssumption
  <1>4. \A x \in Nat : x \div AirRate \in Nat BY ProfileAssumption
  <1> QED BY <1>1, <1>3, <1>4 DEF AirUs

LEMMA UartByteUsNat == UartByteUs \in Nat
  <1>1. (10 * Second + UartBaud - 1) \in Nat BY ProfileAssumption
  <1>2. \A x \in Nat : x \div UartBaud \in Nat BY ProfileAssumption
  <1> QED BY <1>1, <1>2 DEF UartByteUs
-----------------------------------------------------------------------------
(* The descriptors of a TX FIFO, as two sequences. *)

\* Every packet has a byte, so f grows at least as fast as its index.
Spread(p, f) == \A j, k \in 0 .. Len(p) : j <= k => f[k] - f[j] >= k - j

Owned(p, q) == \E f \in [0 .. Len(p) -> 0 .. Len(q)] : Cuts(p, q, f) /\ Spread(p, f)

LEMMA OwnedEmpty == Owned(<<>>, <<>>)
  <1> DEFINE f == [k \in 0 .. 0 |-> 0]
  <1>1. f \in [0 .. Len(<<>>) -> 0 .. Len(<<>>)] OBVIOUS
  <1>2. Cuts(<<>>, <<>>, f) BY DEF Cuts
  <1>3. Spread(<<>>, f) BY DEF Spread
  <1> QED BY <1>1, <1>2, <1>3 DEF Owned

\* A byte that opens a packet.
LEMMA OwnedNew ==
  ASSUME NEW p \in Seq(TxPacket), NEW q \in Seq(TimedByte), NEW e \in TimedByte,
         Owned(p, q)
  PROVE  Owned(Append(p, [count |-> 1, lastReadyUs |-> e.readyUs]), Append(q, e))
  <1> DEFINE n == Len(p)
             d == [count |-> 1, lastReadyUs |-> e.readyUs]
             pp == Append(p, d)
             qq == Append(q, e)
  <1>1. PICK f \in [0 .. n -> 0 .. Len(q)] : Cuts(p, q, f) /\ Spread(p, f)
    BY DEF Owned
  <1> DEFINE g == [k \in 0 .. n + 1 |-> IF k <= n THEN f[k] ELSE Len(q) + 1]
  <1>2. n \in Nat /\ Len(q) \in Nat BY LenProperties
  <1>3. d \in TxPacket /\ d.count = 1 /\ d.lastReadyUs = e.readyUs
    BY DEF TxPacket, TimedByte
  <1>4. Len(pp) = n + 1 /\ pp[n+1] = d /\ \A k \in 1 .. n : pp[k] = p[k]
    BY <1>3, AppendProperties
  <1>5. Len(qq) = Len(q) + 1 /\ qq[Len(q) + 1] = e /\ \A k \in 1 .. Len(q) : qq[k] = q[k]
    BY AppendProperties
  <1>6. f[0] = 0 /\ f[n] = Len(q) BY <1>1 DEF Cuts
  <1> HIDE DEF n, d, pp, qq
  <1>7. g \in [0 .. Len(pp) -> 0 .. Len(qq)] BY <1>1, <1>2, <1>4, <1>5
  <1>8. Cuts(pp, qq, g)
    <2>1. g[0] = 0 /\ g[Len(pp)] = Len(qq) BY <1>2, <1>4, <1>5, <1>6
    <2>2. ASSUME NEW k \in 1 .. Len(pp)
          PROVE  /\ pp[k].count <= MaxBurst
                 /\ g[k] = g[k-1] + pp[k].count
                 /\ pp[k].lastReadyUs = qq[g[k]].readyUs
      <3>1. CASE k <= n
        <4>1. k \in 1 .. n BY <3>1, <1>2, <1>4
        <4>2. pp[k] = p[k] /\ g[k] = f[k] /\ g[k-1] = f[k-1] BY <4>1, <1>2, <1>4
        <4>3. /\ p[k].count <= MaxBurst /\ f[k] = f[k-1] + p[k].count
              /\ p[k].lastReadyUs = q[f[k]].readyUs
          BY <4>1, <1>1 DEF Cuts, n
        <4>4. f[k] - f[0] >= k BY <4>1, <1>1, <1>2 DEF Spread, n
        <4>5. f[k] \in 1 .. Len(q) BY <4>1, <4>4, <1>1, <1>2, <1>6
        <4> QED BY <4>2, <4>3, <4>5, <1>5
      <3>2. CASE k = n + 1
        <4>1. g[k] = Len(q) + 1 /\ g[k-1] = Len(q) BY <3>2, <1>2, <1>6
        <4> QED BY <4>1, <3>2, <1>3, <1>4, <1>5, <1>2, ProfileAssumption
      <3> QED BY <3>1, <3>2, <1>2, <1>4
    <2> QED BY <2>1, <2>2 DEF Cuts
  <1>9. Spread(pp, g)
    <2>1. ASSUME NEW j \in 0 .. n + 1, NEW k \in 0 .. n + 1, j <= k
          PROVE  g[k] - g[j] >= k - j
      <3>1. CASE k <= n
        BY <3>1, <2>1, <1>1, <1>2 DEF Spread, n
      <3>2. CASE k = n + 1 /\ j <= n
        <4>1. f[n] - f[j] >= n - j BY <3>2, <1>1, <1>2 DEF Spread, n
        <4> QED BY <4>1, <3>2, <1>1, <1>2, <1>6
      <3>3. CASE k = n + 1 /\ j = n + 1 BY <3>3, <1>2
      <3> QED BY <3>1, <3>2, <3>3, <1>2
    <2> QED BY <2>1, <1>4 DEF Spread
  <1> HIDE DEF g
  <1> USE DEF n, d, pp, qq
  <1> QED BY <1>7, <1>8, <1>9 DEF Owned

\* A byte that joins the last packet.
LEMMA OwnedExtend ==
  ASSUME NEW p \in Seq(TxPacket), NEW q \in Seq(TimedByte), NEW e \in TimedByte,
         Owned(p, q), p # <<>>, p[Len(p)].count # MaxBurst
  PROVE  Owned([p EXCEPT ![Len(p)] = [count |-> p[Len(p)].count + 1,
                                      lastReadyUs |-> e.readyUs]], Append(q, e))
  <1> DEFINE n == Len(p)
             d == [count |-> p[n].count + 1, lastReadyUs |-> e.readyUs]
             pp == [p EXCEPT ![n] = d]
             qq == Append(q, e)
  <1>1. PICK f \in [0 .. n -> 0 .. Len(q)] : Cuts(p, q, f) /\ Spread(p, f)
    BY DEF Owned
  <1> DEFINE g == [k \in 0 .. n |-> IF k < n THEN f[k] ELSE Len(q) + 1]
  <1>2. n \in Nat /\ n >= 1 /\ Len(q) \in Nat BY LenProperties, EmptySeq
  <1>3. p[n] \in TxPacket BY <1>2
  <1>10. p[n].count \in Nat BY <1>3 DEF TxPacket
  <1>4. d \in TxPacket /\ d.count = p[n].count + 1 /\ d.lastReadyUs = e.readyUs
    BY <1>3 DEF TxPacket, TimedByte
  <1>5. Len(pp) = n /\ pp[n] = d /\ \A k \in 1 .. n - 1 : pp[k] = p[k]
    BY <1>2, <1>4, ExceptSeq
  <1>6. Len(qq) = Len(q) + 1 /\ qq[Len(q) + 1] = e /\ \A k \in 1 .. Len(q) : qq[k] = q[k]
    BY AppendProperties
  <1>7. f[0] = 0 /\ f[n] = Len(q) /\ f[n] = f[n-1] + p[n].count /\ p[n].count <= MaxBurst
    BY <1>1, <1>2 DEF Cuts
  <1> HIDE DEF n, d, pp, qq
  <1>8. g \in [0 .. Len(pp) -> 0 .. Len(qq)] BY <1>1, <1>2, <1>5, <1>6
  <1>9. Cuts(pp, qq, g)
    <2>1. g[0] = 0 /\ g[Len(pp)] = Len(qq) BY <1>2, <1>5, <1>6, <1>7
    <2>2. ASSUME NEW k \in 1 .. Len(pp)
          PROVE  /\ pp[k].count <= MaxBurst
                 /\ g[k] = g[k-1] + pp[k].count
                 /\ pp[k].lastReadyUs = qq[g[k]].readyUs
      <3>1. CASE k < n
        <4>1. k \in 1 .. n - 1 BY <3>1, <1>2, <1>5
        <4>2. pp[k] = p[k] /\ g[k] = f[k] /\ g[k-1] = f[k-1] BY <4>1, <1>2, <1>5
        <4>3. /\ p[k].count <= MaxBurst /\ f[k] = f[k-1] + p[k].count
              /\ p[k].lastReadyUs = q[f[k]].readyUs
          BY <4>1, <1>1, <1>2 DEF Cuts, n
        <4>4. f[k] - f[0] >= k BY <4>1, <1>1, <1>2 DEF Spread, n
        <4>5. f[k] \in 1 .. Len(q) BY <4>1, <4>4, <1>1, <1>2, <1>7
        <4> QED BY <4>2, <4>3, <4>5, <1>6
      <3>2. CASE k = n
        <4>1. g[k] = Len(q) + 1 /\ g[k-1] = f[n-1] BY <3>2, <1>2
        <4>2. p[n].count + 1 <= MaxBurst
          BY <1>10, <1>7, ProfileAssumption DEF n
        <4>3. g[k] = g[k-1] + d.count
          BY <4>1, <1>7, <1>4, <1>10, <1>1, <1>2, <3>2
        <4> QED BY <4>1, <4>2, <4>3, <3>2, <1>4, <1>5, <1>6
      <3> QED BY <3>1, <3>2, <1>2, <1>5
    <2> QED BY <2>1, <2>2 DEF Cuts
  <1>11. Spread(pp, g)
    <2>1. ASSUME NEW j \in 0 .. n, NEW k \in 0 .. n, j <= k
          PROVE  g[k] - g[j] >= k - j
      <3>1. f[k] - f[j] >= k - j BY <2>1, <1>1 DEF Spread, n
      <3>2. CASE k < n BY <3>1, <3>2, <2>1, <1>2
      <3>3. CASE k = n /\ j < n BY <3>1, <3>3, <1>1, <1>2, <1>7
      <3>4. CASE k = n /\ j = n BY <3>4, <1>2
      <3> QED BY <3>2, <3>3, <3>4, <2>1, <1>2
    <2> QED BY <2>1, <1>5 DEF Spread
  <1> HIDE DEF g
  <1> USE DEF n, d, pp, qq
  <1> QED BY <1>8, <1>9, <1>11 DEF Owned

\* The head packet leaves with the bytes it owns.
LEMMA OwnedTake ==
  ASSUME NEW p \in Seq(TxPacket), NEW q \in Seq(TimedByte), Owned(p, q), p # <<>>
  PROVE  /\ Head(p).count \in 1 .. Len(q) /\ Head(p).count <= MaxBurst
         /\ Owned(Tail(p), SubSeq(q, Head(p).count + 1, Len(q)))
  <1> DEFINE n == Len(p)
             h == Head(p).count
             pp == Tail(p)
             qq == SubSeq(q, h + 1, Len(q))
  <1>1. PICK f \in [0 .. n -> 0 .. Len(q)] : Cuts(p, q, f) /\ Spread(p, f)
    BY DEF Owned
  <1> DEFINE g == [k \in 0 .. n - 1 |-> f[k+1] - h]
  <1>2. n \in Nat /\ n >= 1 /\ Len(q) \in Nat BY LenProperties, EmptySeq
  <1>12. \A k \in 1 .. n : p[k] \in TxPacket BY ElementOfSeq
  <1>13. \A k \in 1 .. n : p[k].count \in Nat \ {0} BY <1>12 DEF TxPacket
  <1>14. Head(p) = p[1] /\ h = p[1].count OBVIOUS
  <1>3. h \in Nat \ {0} BY <1>2, <1>13, <1>14
  <1>4. f[0] = 0 /\ f[1] = h /\ f[n] = Len(q) /\ h <= MaxBurst
    BY <1>1, <1>2, <1>3, <1>14 DEF Cuts
  <1>5. h \in 1 .. Len(q) BY <1>1, <1>2, <1>3, <1>4
  <1>6. Len(pp) = n - 1 /\ \A k \in 1 .. n - 1 : pp[k] = p[k+1]
    BY <1>2, HeadTailProperties
  <1>7. Len(qq) = Len(q) - h /\ \A k \in 1 .. Len(q) - h : qq[k] = q[h + k]
    <2>1. \A k \in h + 1 .. Len(q) : q[k] \in TimedByte BY <1>2, <1>5
    <2>2. Len(qq) = IF h + 1 <= Len(q) THEN Len(q) - (h + 1) + 1 ELSE 0
      BY <2>1, <1>2, <1>5, SubSeqProperties
    <2>3. \A k \in 1 .. Len(q) - (h + 1) + 1 : qq[k] = q[(h + 1) + k - 1]
      BY <2>1, <1>2, <1>5, SubSeqProperties
    <2> HIDE DEF h, qq
    <2>4. h \in Nat /\ h + 1 <= Len(q) + 1 BY <1>2, <1>5
    <2>5. Len(qq) = Len(q) - h BY <2>2, <2>4, <1>2
    <2>6. ASSUME NEW k \in 1 .. Len(q) - h PROVE qq[k] = q[h + k]
      <3>1. k \in 1 .. Len(q) - (h + 1) + 1 /\ (h + 1) + k - 1 = h + k BY <2>4, <1>2
      <3> QED BY <3>1, <2>3
    <2> QED BY <2>5, <2>6
  <1> HIDE DEF n, h, pp, qq
  <1>8. \A k \in 0 .. n - 1 : f[k+1] - h >= k /\ f[n] - f[k+1] >= n - (k + 1)
    <2> TAKE k \in 0 .. n - 1
    <2>1. k + 1 \in 0 .. n /\ 1 \in 0 .. n /\ n \in 0 .. n /\ 1 <= k + 1 BY <1>2
    <2>2. f[k+1] - f[1] >= (k + 1) - 1 /\ f[n] - f[k+1] >= n - (k + 1)
      BY <2>1, <1>1 DEF Spread, n
    <2> QED BY <2>1, <2>2, <1>4, <1>2
  <1>9. g \in [0 .. Len(pp) -> 0 .. Len(qq)]
    <2>1. \A k \in 0 .. n - 1 : f[k+1] \in 0 .. Len(q) BY <1>1, <1>2
    <2>2. \A k \in 0 .. n - 1 : f[k+1] - h \in 0 .. Len(q) - h
      <3> TAKE k \in 0 .. n - 1
      <3>1. f[k+1] \in 0 .. Len(q) /\ f[k+1] - h >= k BY <2>1, <1>8
      <3> QED BY <3>1, <1>2, <1>5
    <2> QED BY <2>2, <1>6, <1>7
  <1>10. Cuts(pp, qq, g)
    <2>1. g[0] = 0 /\ g[Len(pp)] = Len(qq) BY <1>2, <1>4, <1>5, <1>6, <1>7
    <2>2. ASSUME NEW k \in 1 .. Len(pp)
          PROVE  /\ pp[k].count <= MaxBurst
                 /\ g[k] = g[k-1] + pp[k].count
                 /\ pp[k].lastReadyUs = qq[g[k]].readyUs
      <3>1. k \in 1 .. n - 1 /\ k + 1 \in 1 .. n BY <1>2, <1>6
      <3>2. /\ p[k+1].count <= MaxBurst /\ f[k+1] = f[k] + p[k+1].count
            /\ p[k+1].lastReadyUs = q[f[k+1]].readyUs
        <4>1. \A j \in 1 .. Len(p) :
                 /\ p[j].count <= MaxBurst /\ f[j] = f[j - 1] + p[j].count
                 /\ p[j].lastReadyUs = q[f[j]].readyUs
          BY <1>1 DEF Cuts
        <4>2. k + 1 \in 1 .. Len(p) /\ (k + 1) - 1 = k
          BY <3>1, <1>2 DEF n
        <4> HIDE DEF Cuts
        <4> QED
          BY <4>1, <4>2
      <3>3. pp[k] = p[k+1] /\ g[k] = f[k+1] - h /\ g[k-1] = f[k] - h
        BY <3>1, <1>6, <1>2
      <3>4. f[k+1] \in 0 .. Len(q) /\ f[k] \in 0 .. Len(q) BY <3>1, <1>1, <1>2
      <3>5. f[k+1] - h >= k BY <3>1, <1>2, <1>8
      <3>6. f[k+1] - h \in 1 .. Len(q) - h BY <3>4, <3>5, <3>1, <1>5, <1>2
      <3>7. qq[g[k]] = q[f[k+1]]
        <4>1. qq[f[k+1] - h] = q[h + (f[k+1] - h)] BY <3>6, <1>7
        <4>2. h + (f[k+1] - h) = f[k+1] BY <3>4, <1>5, <1>2
        <4> QED BY <4>1, <4>2, <3>3
      <3>8. p[k+1].count \in Nat BY <3>1, <1>13
      <3>9. f[k+1] - h = f[k] - h + p[k+1].count
        <4>1. f[k+1] \in Int /\ f[k] \in Int /\ h \in Int /\ p[k+1].count \in Int
          BY <3>4, <3>8, <1>5, <1>2
        <4>2. \A a, b, c, d \in Int : a = b + c => a - d = b - d + c OBVIOUS
        <4> QED BY <4>1, <4>2, <3>2
      <3> QED BY <3>2, <3>3, <3>7, <3>9
    <2> QED BY <2>1, <2>2 DEF Cuts
  <1>11. Spread(pp, g)
    <2>1. ASSUME NEW j \in 0 .. n - 1, NEW k \in 0 .. n - 1, j <= k
          PROVE  g[k] - g[j] >= k - j
      <3>1. f[k+1] - f[j+1] >= (k + 1) - (j + 1)
        BY <2>1, <1>1, <1>2 DEF Spread, n
      <3>2. f[k+1] \in Nat /\ f[j+1] \in Nat BY <1>1, <1>2
      <3> QED BY <3>1, <3>2, <1>5, <1>2
    <2> QED BY <2>1, <1>6 DEF Spread
  <1> HIDE DEF g
  <1> USE DEF n, h, pp, qq
  <1> QED BY <1>4, <1>5, <1>9, <1>10, <1>11 DEF Owned

LEMMA OwnedBound ==
  ASSUME NEW p \in Seq(TxPacket), NEW q \in Seq(TimedByte), Owned(p, q)
  PROVE  Len(p) <= Len(q)
  <1>1. PICK f \in [0 .. Len(p) -> 0 .. Len(q)] : Cuts(p, q, f) /\ Spread(p, f)
    BY DEF Owned
  <1>2. Len(p) \in Nat /\ Len(q) \in Nat BY LenProperties
  <1>3. f[Len(p)] - f[0] >= Len(p) - 0 BY <1>1, <1>2 DEF Spread
  <1>4. f[Len(p)] = Len(q) /\ f[0] = 0 BY <1>1 DEF Cuts
  <1> QED BY <1>2, <1>3, <1>4

-----------------------------------------------------------------------------
(* The operators of Tick are well typed. *)

LEMMA PartOfSeq ==
  ASSUME NEW S, NEW q \in Seq(S), NEW m \in Nat \ {0}, NEW n \in Nat, n <= Len(q)
  PROVE  /\ SubSeq(q, m, n) \in Seq(S)
         /\ Len(SubSeq(q, m, n)) = IF m <= n THEN n - m + 1 ELSE 0
  <1>1. Len(q) \in Nat BY LenProperties
  <1>2. \A k \in m .. n : q[k] \in S
    <2> TAKE k \in m .. n
    <2>1. k \in 1 .. Len(q) BY <1>1
    <2> QED BY <2>1, ElementOfSeq
  <1> QED BY <1>2, SubSeqProperties

LEMMA ValuesType ==
  ASSUME NEW q \in Seq(TimedByte)
  PROVE  Values(q) \in Seq(Byte) /\ Len(Values(q)) = Len(q)
  <1>1. Len(q) \in Nat BY LenProperties
  <1>2. \A k \in 1 .. Len(q) : q[k].value \in Byte
    <2> TAKE k \in 1 .. Len(q)
    <2>1. q[k] \in TimedByte BY ElementOfSeq
    <2> QED BY <2>1 DEF TimedByte
  <1>3. Values(q) \in Seq(Byte) BY <1>1, <1>2, IsASeq DEF Values
  <1>4. DOMAIN Values(q) = 1 .. Len(q) BY DEF Values
  <1>5. Len(Values(q)) \in Nat /\ DOMAIN Values(q) = 1 .. Len(Values(q))
    BY <1>3, LenProperties
  <1> QED BY <1>1, <1>3, <1>4, <1>5

LEMMA DueCountType ==
  ASSUME NEW q \in Seq(TimedByte), NEW now \in Nat
  PROVE  DueCount(q, now) \in 0 .. Len(q)
  <1> DEFINE R == {k \in 1 .. Len(q) : \A j \in 1 .. k : q[j].readyUs <= now}
  <1>1. Len(q) \in Nat BY LenProperties
  <1>2. IsFiniteSet(1 .. Len(q)) /\ Cardinality(1 .. Len(q)) = Len(q)
    BY <1>1, FS_Interval
  <1>3. R \in SUBSET (1 .. Len(q)) OBVIOUS
  <1>4. IsFiniteSet(R) /\ Cardinality(R) <= Len(q) BY <1>2, <1>3, FS_Subset
  <1>5. Cardinality(R) \in Nat BY <1>4, FS_CardinalityType
  <1> QED BY <1>1, <1>4, <1>5 DEF DueCount

LEMMA BurstType ==
  ASSUME TypeOK, active # NoBurst
  PROVE  /\ active.sender \in Stations /\ active.bytes \in Seq(Byte)
         /\ Len(active.bytes) \in Nat /\ active.endUs \in Nat
         /\ active.recipients \in [Stations -> Ids \cup {0}]
  <1>1. active \in Burst BY DEF TypeOK
  <1>2. active.bytes \in Seq(Byte) BY <1>1 DEF Burst
  <1> QED BY <1>1, <1>2, LenProperties DEF Burst

LEMMA FitsType ==
  ASSUME TypeOK, NEW i \in Stations, active # NoBurst
  PROVE  Fits(i) \in Int /\ Fits(i) <= Len(active.bytes)
  <1>1. rx[i] \in Seq(TimedByte) BY DEF TypeOK
  <1>2. Len(rx[i]) \in Nat BY <1>1, LenProperties
  <1> QED BY <1>2, BurstType, ProfileAssumption DEF Fits, Lesser

LEMMA ReadyAtType ==
  ASSUME TypeOK, NEW i \in Stations, NEW k \in Nat, active # NoBurst
  PROVE  ReadyAt(i, k) \in Nat
  <1>1. outputReady[i] \in Nat BY DEF TypeOK
  <1>2. k * UartByteUs \in Nat BY UartByteUsNat
  <1> HIDE DEF UartByteUs
  <1> QED BY <1>1, <1>2, BurstType DEF ReadyAt, Later

LEMMA RxFilledType ==
  ASSUME TypeOK, NEW i \in Stations, NEW now \in Nat
  PROVE  RxFilled(i, now) \in Seq(TimedByte)
  <1>1. rx[i] \in Seq(TimedByte) BY DEF TypeOK
  <1>2. CASE ~Heard(i, now) BY <1>1, <1>2 DEF RxFilled
  <1>3. CASE Heard(i, now)
    <2> DEFINE e(k) == [value |-> active.bytes[k], readyUs |-> ReadyAt(i, k)]
               m == IF Fits(i) >= 0 THEN Fits(i) ELSE 0
    <2>1. active # NoBurst BY <1>3 DEF Heard, Completes
    <2>2. Fits(i) \in Int /\ Fits(i) <= Len(active.bytes) BY <2>1, FitsType
    <2>3. m \in Nat /\ 1 .. m = 1 .. Fits(i) BY <2>2
    <2>4. ASSUME NEW k \in 1 .. m PROVE e(k) \in TimedByte
      <3>1. k \in Nat /\ k \in 1 .. Len(active.bytes)
        BY <2>1, <2>2, <2>3, BurstType
      <3>2. active.bytes[k] \in Byte BY <2>1, <3>1, BurstType, ElementOfSeq
      <3>3. ReadyAt(i, k) \in Nat BY <2>1, <3>1, ReadyAtType
      <3> QED BY <3>2, <3>3 DEF TimedByte
    <2>5. [k \in 1 .. m |-> e(k)] \in Seq(TimedByte) BY <2>3, <2>4, IsASeq
    <2>6. RxFilled(i, now) = rx[i] \o [k \in 1 .. m |-> e(k)]
      BY <1>3, <2>3 DEF RxFilled
    <2> QED BY <1>1, <2>5, <2>6, ConcatProperties
  <1> QED BY <1>2, <1>3

LEMMA CompletedType ==
  ASSUME TypeOK, NEW i \in Stations, NEW now \in Nat
  PROVE  Completed(i, now) \in Counter
  <1>1. counter[i] \in Counter BY DEF TypeOK
  <1> DEFINE A == IF Completes(now) /\ active.sender = i THEN Len(active.bytes) ELSE 0
             L == IF Missed(i, now) THEN Len(active.bytes) ELSE 0
             D == IF Heard(i, now) THEN Len(active.bytes) - Fits(i) ELSE 0
  <1>2. A \in Nat BY BurstType DEF Completes
  <1>3. L \in Nat BY BurstType DEF Completes, Missed
  <1>4. D \in Nat
    <2>1. CASE Heard(i, now)
      <3>1. active # NoBurst BY <2>1 DEF Heard, Completes
      <3> QED BY <2>1, <3>1, BurstType, FitsType
    <2> QED BY <2>1
  <1> DEFINE c1 == [counter[i] EXCEPT !.aired = counter[i].aired + A]
             c2 == [c1 EXCEPT !.lost = c1.lost + L]
             c3 == [c2 EXCEPT !.dropped = c2.dropped + D]
  <1>5. Completed(i, now) = c3 BY <1>1 DEF Completed, Counter
  <1> HIDE DEF A, L, D
  <1>6. c1 \in Counter BY <1>1, <1>2 DEF Counter
  <1> HIDE DEF c1
  <1>7. c2 \in Counter BY <1>6, <1>3 DEF Counter
  <1> HIDE DEF c2
  <1>8. c3 \in Counter BY <1>7, <1>4 DEF Counter
  <1> QED BY <1>5, <1>8

-----------------------------------------------------------------------------
(* The inductive invariant.  FIFO ownership alone is not inductive: that the *)
(* bytes of a completed burst are still counted needs the sender to be the   *)
(* node that sent them (SenderAttached), and that a new burst takes the      *)
(* bytes of its packet, no more, needs the descriptors (PacketsOwn).         *)

PacketsOwn == \A i \in Stations : Owned(packets[i], tx[i])
SenderAttached == active # NoBurst => att[active.sender] # 0

IInv == TypeOK /\ TxOwnership /\ PacketsOwn /\ SenderAttached

LEMMA InitInvariant == Init => IInv
  <1> SUFFICES ASSUME Init PROVE IInv OBVIOUS
  <1> USE DEF Init, InitNodes, InitAir, InitCallbacks
  <1>1. TypeOK
    <2>1. ZeroCounter \in Counter BY DEF ZeroCounter, Counter
    <2>2. 0 \in Stations BY ProfileAssumption DEF Stations
    <2>3. links \in [Stations \X Stations -> BOOLEAN] OBVIOUS
    <2>4. 1 \in 1 .. MaxAttachments + 1 BY BoundAssumption
    <2> QED BY <2>1, <2>2, <2>3, <2>4 DEF TypeOK
  <1>2. TxOwnership BY ProfileAssumption DEF TxOwnership, Airborne
  <1>3. PacketsOwn BY OwnedEmpty DEF PacketsOwn
  <1>4. SenderAttached BY DEF SenderAttached
  <1> QED BY <1>1, <1>2, <1>3, <1>4 DEF IInv

LEMMA FreshNodeType ==
  ASSUME TypeOK, NEW i \in Stations, FreshNode(i)
  PROVE  /\ tx' \in [Stations -> Seq(TimedByte)] /\ packets' \in [Stations -> Seq(TxPacket)]
         /\ pendingTx' \in [Stations -> Int] /\ inputReady' \in [Stations -> Nat]
         /\ rx' \in [Stations -> Seq(TimedByte)] /\ outputReady' \in [Stations -> Nat]
         /\ counter' \in [Stations -> Counter]
  <1>1. ZeroCounter \in Counter BY DEF ZeroCounter, Counter
  <1>2. <<>> \in Seq(TimedByte) /\ <<>> \in Seq(TxPacket) OBVIOUS
  <1> QED BY <1>1, <1>2 DEF FreshNode, TypeOK

\* An index whose node is fresh owns nothing; the others keep what they own.
LEMMA FreshNodeOwns ==
  ASSUME IInv, NEW i \in Stations, FreshNode(i),
         \A j \in Stations : Airborne(j)' = IF j = i THEN 0 ELSE Airborne(j)
  PROVE  TxOwnership' /\ PacketsOwn'
  <1>1. ASSUME NEW j \in Stations
        PROVE  /\ pendingTx'[j] = Len(tx'[j]) + Airborne(j)'
               /\ pendingTx'[j] \in 0 .. TxFifo
               /\ Owned(packets'[j], tx'[j])
    <2>1. CASE j = i
      <3>1. tx'[j] = <<>> /\ packets'[j] = <<>> /\ pendingTx'[j] = 0 /\ Airborne(j)' = 0
        BY <2>1 DEF FreshNode, IInv, TypeOK
      <3> QED BY <3>1, OwnedEmpty, ProfileAssumption
    <2>2. CASE j # i
      <3>1. /\ tx'[j] = tx[j] /\ packets'[j] = packets[j] /\ pendingTx'[j] = pendingTx[j]
            /\ Airborne(j)' = Airborne(j)
        BY <2>2 DEF FreshNode, IInv, TypeOK
      <3> QED BY <3>1 DEF IInv, TxOwnership, PacketsOwn
    <2> QED BY <2>1, <2>2
  <1> QED BY <1>1 DEF TxOwnership, PacketsOwn

LEMMA AttachStep ==
  ASSUME IInv, NEW i \in Stations, NEW u \in Uarts, Attach(i, u)
  PROVE  IInv'
  <1> USE DEF Attach
  <1>1. TypeOK'
    <2>1. TypeOK BY DEF IInv
    <2>2. nextId' \in 1 .. MaxAttachments + 1 BY BoundAssumption DEF Ids
    <2>3. att' \in [Stations -> Ids \cup {0}] /\ uart' \in [Ids -> Uarts \cup {0}]
          /\ home' \in [Ids -> Stations]
      BY <2>1 DEF TypeOK
    <2> QED BY <2>1, <2>2, <2>3, FreshNodeType DEF TypeOK, air
  <1>2. \A j \in Stations : Airborne(j)' = IF j = i THEN 0 ELSE Airborne(j)
    BY DEF IInv, SenderAttached, Airborne, air
  <1>3. TxOwnership' /\ PacketsOwn' BY <1>2, FreshNodeOwns
  <1>4. SenderAttached'
    BY BurstType DEF IInv, SenderAttached, TypeOK, air, Ids
  <1> QED BY <1>1, <1>3, <1>4 DEF IInv

LEMMA DetachStep ==
  ASSUME IInv, NEW i \in Stations, DetachFrom(i)
  PROVE  IInv'
  <1> USE DEF DetachFrom
  <1>1. TypeOK'
    <2>1. TypeOK BY DEF IInv
    <2>2. att' \in [Stations -> Ids \cup {0}] /\ active' \in Burst \cup {NoBurst}
      BY <2>1 DEF TypeOK
    <2> QED BY <2>1, <2>2, FreshNodeType DEF TypeOK
  <1>2. \A j \in Stations : Airborne(j)' = IF j = i THEN 0 ELSE Airborne(j)
    BY DEF Aborts, Airborne
  <1>3. TxOwnership' /\ PacketsOwn' BY <1>2, FreshNodeOwns
  <1>4. SenderAttached'
    BY BurstType DEF IInv, SenderAttached, TypeOK, Aborts
  <1> QED BY <1>1, <1>3, <1>4 DEF IInv

\* Steps that touch neither the TX side nor the air keep what it owns.
LEMMA TxUntouched ==
  ASSUME IInv, TypeOK', UNCHANGED <<tx, packets, pendingTx, active, att>>
  PROVE  IInv'
  <1>1. TxOwnership' BY DEF IInv, TxOwnership, Airborne
  <1>2. PacketsOwn' BY DEF IInv, PacketsOwn
  <1>3. SenderAttached' BY DEF IInv, SenderAttached
  <1> QED BY <1>1, <1>2, <1>3 DEF IInv

LEMMA SetLinkStep ==
  ASSUME IInv, NEW p \in Fading, SetLink(p)
  PROVE  IInv'
  <1>1. p \in Stations \X Stations BY BoundAssumption
  <1>2. links' \in [Stations \X Stations -> BOOLEAN]
    BY <1>1 DEF SetLink, IInv, TypeOK
  <1>3. TypeOK'
    BY <1>2 DEF SetLink, IInv, TypeOK, station, ingress, egress, air
  <1> QED BY <1>3, TxUntouched DEF SetLink, station, ingress, air

LEMMA OfferStep ==
  ASSUME IInv, NEW a \in Ids, Offer(a)
  PROVE  IInv'
  <1>1. offered[a] \in Nat /\ clock \in Nat BY DEF IInv, TypeOK
  <1>2. offered' \in [Ids -> Nat]
    <2>1. offered \in [Ids -> Nat] BY DEF IInv, TypeOK
    <2>2. offered[a] + 1 \in Nat BY <1>1
    <2>3. offered' = [offered EXCEPT ![a] = offered[a] + 1] BY DEF Offer
    <2> QED BY <2>1, <2>2, <2>3
  <1>4. calls' \subseteq [id : Ids, seq : Nat \ {0}, now : Nat]
    <2>1. offered[a] + 1 \in Nat \ {0} BY <1>1
    <2>2. [id |-> a, seq |-> offered[a] + 1, now |-> clock]
              \in [id : Ids, seq : Nat \ {0}, now : Nat]
      BY <2>1, <1>1
    <2>3. calls \subseteq [id : Ids, seq : Nat \ {0}, now : Nat] BY DEF IInv, TypeOK
    <2> QED BY <2>2, <2>3 DEF Offer
  <1>3. TypeOK'
    BY <1>2, <1>4 DEF Offer, IInv, TypeOK, station, ingress, egress, air
  <1> QED BY <1>3, TxUntouched DEF Offer, station, ingress, air

LEMMA DeliverStep ==
  ASSUME IInv, NEW a \in Ids, Deliver(a)
  PROVE  IInv'
  <1>1. deferred[a] \in Seq(Byte) /\ deferred[a] # <<>> /\ heard[a] \in Seq(Byte)
        /\ home[a] \in Stations
    BY DEF IInv, TypeOK, Deliver
  <1>2. Head(deferred[a]) \in Byte /\ Tail(deferred[a]) \in Seq(Byte)
    BY <1>1, HeadTailProperties
  <1>3. deferred' \in [Ids -> Seq(Byte)] BY <1>2 DEF Deliver, IInv, TypeOK
  <1>4. heard' \in [Ids -> Seq(Byte)]
    <2>1. Append(heard[a], Head(deferred[a])) \in Seq(Byte)
      BY <1>1, <1>2, AppendProperties
    <2> QED BY <2>1 DEF Deliver, IInv, TypeOK
  <1>5. counter' \in [Stations -> Counter]
    <2>1. counter \in [Stations -> Counter] BY DEF IInv, TypeOK
    <2>2. [counter[home[a]] EXCEPT !.delivered = @ + 1] \in Counter
      <3>1. counter[home[a]] \in Counter BY <1>1, <2>1
      <3> QED BY <3>1 DEF Counter
    <2>3. CASE counter' = [counter EXCEPT ![home[a]].delivered = @ + 1]
      BY <2>1, <2>2, <2>3
    <2>4. CASE UNCHANGED counter BY <2>1, <2>4
    <2> QED BY <2>3, <2>4 DEF Deliver
  <1>6. TypeOK'
    BY <1>3, <1>4, <1>5 DEF Deliver, IInv, TypeOK, station, ingress, egress, air
  <1> QED BY <1>6, TxUntouched DEF Deliver, station, ingress, air

\* An accepted byte: the FIFO, its descriptors and the admission count agree.
LEMMA AcceptStep ==
  ASSUME IInv, NEW c \in [id : Ids, seq : Nat \ {0}, now : Nat], NEW i \in Stations,
         Accept(c, i), ~Refuses(i),
         UNCHANGED <<att, active>>
  PROVE  /\ tx' \in [Stations -> Seq(TimedByte)] /\ packets' \in [Stations -> Seq(TxPacket)]
         /\ pendingTx' \in [Stations -> Int] /\ inputReady' \in [Stations -> Nat]
         /\ TxOwnership' /\ PacketsOwn' /\ SenderAttached'
  <1> DEFINE ready == InputStart(i, c.now) + UartByteUs
             e == [value |-> [src |-> c.id, seq |-> c.seq], readyUs |-> ready]
  <1>1. ready \in Nat
    <2>1. inputReady[i] \in Nat /\ c.now \in Nat BY DEF IInv, TypeOK
    <2> QED BY <2>1, UartByteUsNat DEF InputStart, Later
  <1>2. e \in TimedByte /\ e.readyUs = ready BY <1>1 DEF TimedByte, Byte
  <1>3. tx[i] \in Seq(TimedByte) /\ packets[i] \in Seq(TxPacket) BY DEF IInv, TypeOK
  <1>4. tx' = [tx EXCEPT ![i] = Append(tx[i], e)] BY DEF Accept
  <1>5. packets' = [packets EXCEPT ![i] = Describe(i, c.now)] BY DEF Accept
  <1>6. pendingTx' = [pendingTx EXCEPT ![i] = pendingTx[i] + 1]
        /\ inputReady' = [inputReady EXCEPT ![i] = ready]
    BY DEF Accept
  <1>7. Owned(packets[i], tx[i]) BY DEF IInv, PacketsOwn
  <1>8. Describe(i, c.now) \in Seq(TxPacket) /\ Owned(Describe(i, c.now), Append(tx[i], e))
    <2> HIDE DEF e, ready
    <2>1. CASE NeedsPacket(i, c.now)
      <3>1. Describe(i, c.now) = Append(packets[i], [count |-> 1, lastReadyUs |-> e.readyUs])
        BY <2>1, <1>2 DEF Describe, ready
      <3>2. [count |-> 1, lastReadyUs |-> e.readyUs] \in TxPacket
        BY <1>1, <1>2 DEF TxPacket
      <3> QED BY <3>1, <3>2, <1>2, <1>3, <1>7, OwnedNew, AppendProperties
    <2>2. CASE ~NeedsPacket(i, c.now)
      <3>1. packets[i] # <<>> /\ packets[i][Len(packets[i])].count # MaxBurst
        BY <2>2 DEF NeedsPacket, Last
      <3>2. Len(packets[i]) \in 1 .. Len(packets[i]) BY <3>1, <1>3, EmptySeq
      <3>3. packets[i][Len(packets[i])] \in TxPacket BY <3>2, <1>3, ElementOfSeq
      <3> DEFINE d == [count |-> packets[i][Len(packets[i])].count + 1,
                       lastReadyUs |-> e.readyUs]
      <3>4. d \in TxPacket BY <3>3, <1>1, <1>2 DEF TxPacket
      <3>5. Describe(i, c.now) = [packets[i] EXCEPT ![Len(packets[i])] = d]
        BY <2>2, <3>2, <1>2, <1>3 DEF Describe, ready
      <3>6. Describe(i, c.now) \in Seq(TxPacket)
        BY <3>2, <3>4, <3>5, <1>3, ExceptSeq
      <3> QED BY <3>1, <3>5, <3>6, <1>2, <1>3, <1>7, OwnedExtend
    <2> QED BY <2>1, <2>2
  <1> HIDE DEF e, ready
  <1>9. Append(tx[i], e) \in Seq(TimedByte) /\ Len(Append(tx[i], e)) = Len(tx[i]) + 1
    BY <1>2, <1>3, AppendProperties
  <1>10. tx' \in [Stations -> Seq(TimedByte)] /\ packets' \in [Stations -> Seq(TxPacket)]
    BY <1>4, <1>5, <1>8, <1>9 DEF IInv, TypeOK
  <1>11. pendingTx' \in [Stations -> Int] /\ inputReady' \in [Stations -> Nat]
    <2>1. pendingTx \in [Stations -> Int] /\ inputReady \in [Stations -> Nat]
      BY DEF IInv, TypeOK
    <2>2. pendingTx[i] + 1 \in Int BY <2>1
    <2> QED BY <2>1, <2>2, <1>1, <1>6
  <1>12. PacketsOwn' BY <1>4, <1>5, <1>8 DEF PacketsOwn, IInv, TypeOK
  <1>13. TxOwnership'
    <2>1. ASSUME NEW j \in Stations
          PROVE  pendingTx'[j] = Len(tx'[j]) + Airborne(j)' /\ pendingTx'[j] \in 0 .. TxFifo
      <3>1. Airborne(j)' = Airborne(j) BY DEF Airborne
      <3>2. pendingTx[j] = Len(tx[j]) + Airborne(j) /\ pendingTx[j] \in 0 .. TxFifo
        BY DEF IInv, TxOwnership
      <3>3. CASE j = i
        <4>1. pendingTx'[j] = pendingTx[j] + 1 /\ tx'[j] = Append(tx[i], e)
          BY <3>3, <1>4, <1>6 DEF IInv, TypeOK
        <4>2. pendingTx[j] < TxFifo BY <3>2, <3>3, ProfileAssumption DEF Refuses
        <4>3. Airborne(j) \in Int
          BY BurstType, LenProperties DEF Airborne, IInv
        <4>4. Len(tx[i]) \in Nat BY <1>3, LenProperties
        <4>5. Len(tx'[j]) = Len(tx[i]) + 1 BY <4>1, <1>9
        <4>6. pendingTx[j] = Len(tx[i]) + Airborne(j) BY <3>2, <3>3
        <4>7. pendingTx[j] + 1 = (Len(tx[i]) + 1) + Airborne(j) BY <4>3, <4>4, <4>6
        <4>8. pendingTx[j] + 1 \in 0 .. TxFifo BY <4>2, <3>2, ProfileAssumption
        <4> QED BY <4>1, <4>5, <4>7, <4>8, <3>1
      <3>4. CASE j # i
        BY <3>1, <3>2, <3>4, <1>4, <1>6 DEF IInv, TypeOK
      <3> QED BY <3>3, <3>4
    <2> QED BY <2>1 DEF TxOwnership
  <1>14. SenderAttached' BY DEF IInv, SenderAttached
  <1> QED BY <1>10, <1>11, <1>12, <1>13, <1>14

LEMMA EnqueueStep ==
  ASSUME IInv, NEW c \in calls, Enqueue(c)
  PROVE  IInv'
  <1>1. c \in [id : Ids, seq : Nat \ {0}, now : Nat] /\ home[c.id] \in Stations
    BY DEF IInv, TypeOK
  <1>2. calls' \subseteq [id : Ids, seq : Nat \ {0}, now : Nat]
    BY DEF Enqueue, IInv, TypeOK
  <1>3. CASE UNCHANGED <<ingress, counter>>
    <2>1. TypeOK'
      BY <1>2, <1>3 DEF Enqueue, IInv, TypeOK, station, ingress, egress, air
    <2> QED BY <2>1, <1>3, TxUntouched DEF Enqueue, station, ingress, air
  <1>4. CASE UNCHANGED ingress
             /\ counter' = [counter EXCEPT ![home[c.id]].refused = @ + 1]
    <2>1. counter \in [Stations -> Counter] BY DEF IInv, TypeOK
    <2>2. [counter[home[c.id]] EXCEPT !.refused = @ + 1] \in Counter
      BY <1>1, <2>1 DEF Counter
    <2>3. counter' \in [Stations -> Counter] BY <1>4, <2>1, <2>2
    <2>4. TypeOK'
      BY <1>2, <1>4, <2>3 DEF Enqueue, IInv, TypeOK, station, ingress, egress, air
    <2> QED BY <2>4, <1>4, TxUntouched DEF Enqueue, station, ingress, air
  <1>5. CASE Accept(c, home[c.id]) /\ ~Refuses(home[c.id]) /\ UNCHANGED counter
    <2>1. UNCHANGED <<att, active>> BY DEF Enqueue, station, air
    <2>2. /\ tx' \in [Stations -> Seq(TimedByte)] /\ packets' \in [Stations -> Seq(TxPacket)]
          /\ pendingTx' \in [Stations -> Int] /\ inputReady' \in [Stations -> Nat]
          /\ TxOwnership' /\ PacketsOwn' /\ SenderAttached'
      BY <1>1, <1>5, <2>1, AcceptStep
    <2>3. TypeOK'
      BY <1>2, <1>5, <2>2 DEF Enqueue, IInv, TypeOK, station, egress, air
    <2> QED BY <2>2, <2>3 DEF IInv
  <1> QED BY <1>3, <1>4, <1>5 DEF Enqueue

\* What Tick does besides the TX side of a new burst is well typed.
LEMMA ReceiveType ==
  ASSUME TypeOK, NEW now \in Nat, Receive(now)
  PROVE  /\ counter' \in [Stations -> Counter] /\ airBits' \in Nat
         /\ outputReady' \in [Stations -> Nat] /\ rx' \in [Stations -> Seq(TimedByte)]
         /\ deferred' \in [Ids -> Seq(Byte)] /\ due' \in [Ids -> Seq(Byte)]
  <1>1. counter' \in [Stations -> Counter] BY CompletedType DEF Receive
  <1>2. airBits' \in Nat
    <2>1. airBits \in Nat BY DEF TypeOK
    <2>2. CASE Completes(now)
      <3>1. AirBits(Len(active.bytes)) \in Nat
        BY <2>2, BurstType, AirUsNat DEF Completes
      <3> QED BY <2>1, <2>2, <3>1 DEF Receive
    <2> QED BY <2>1, <2>2 DEF Receive
  <1>3. outputReady' \in [Stations -> Nat]
    <2>1. ASSUME NEW i \in Stations
          PROVE  (IF Heard(i, now) /\ Fits(i) > 0 THEN ReadyAt(i, Fits(i))
                                                  ELSE outputReady[i]) \in Nat
      <3>1. outputReady[i] \in Nat BY DEF TypeOK
      <3>2. CASE Heard(i, now) /\ Fits(i) > 0
        <4>1. active # NoBurst BY <3>2 DEF Heard, Completes
        <4>2. Fits(i) \in Nat BY <3>2, <4>1, FitsType
        <4> QED BY <3>2, <4>1, <4>2, ReadyAtType
      <3> QED BY <3>1, <3>2
    <2> QED BY <2>1 DEF Receive
  <1>4. ASSUME NEW i \in Stations
        PROVE  LET q == RxFilled(i, now)
               IN  /\ SubSeq(q, DueCount(q, now) + 1, Len(q)) \in Seq(TimedByte)
                   /\ Values(SubSeq(q, 1, DueCount(q, now))) \in Seq(Byte)
    <2> DEFINE q == RxFilled(i, now)
               n == DueCount(q, now)
    <2>1. q \in Seq(TimedByte) BY RxFilledType
    <2> HIDE DEF q
    <2>2. Len(q) \in Nat BY <2>1, LenProperties
    <2>3. n \in 0 .. Len(q) BY <2>1, DueCountType
    <2> HIDE DEF n
    <2>4. n \in Nat /\ n + 1 \in Nat \ {0} /\ n <= Len(q) BY <2>2, <2>3
    <2>5. SubSeq(q, n + 1, Len(q)) \in Seq(TimedByte) BY <2>1, <2>2, <2>4, PartOfSeq
    <2>6. SubSeq(q, 1, n) \in Seq(TimedByte) BY <2>1, <2>4, PartOfSeq
    <2>7. Values(SubSeq(q, 1, n)) \in Seq(Byte) BY <2>6, ValuesType
    <2> QED BY <2>5, <2>7 DEF q, n
  <1>5. rx' \in [Stations -> Seq(TimedByte)] BY <1>4 DEF Receive
  <1>6. deferred' \in [Ids -> Seq(Byte)]
    <2>1. ASSUME NEW a \in Ids PROVE deferred'[a] \in Seq(Byte)
      <3>1. deferred[a] \in Seq(Byte) /\ home[a] \in Stations BY DEF TypeOK
      <3> DEFINE v == LET q == RxFilled(home[a], now)
                      IN  Values(SubSeq(q, 1, DueCount(q, now)))
      <3>2. v \in Seq(Byte) BY <1>4, <3>1
      <3>3. deferred'[a] = IF Current(a) THEN deferred[a] \o v ELSE deferred[a]
        BY DEF Receive
      <3> HIDE DEF v
      <3>4. deferred[a] \o v \in Seq(Byte) BY <3>1, <3>2, ConcatProperties
      <3> QED BY <3>1, <3>3, <3>4
    <2>2. \E F : deferred' = [a \in Ids |-> F[a]]
      <3>1. deferred' = [a \in Ids |-> deferred'[a]] BY DEF Receive
      <3> QED BY <3>1
    <2> QED BY <2>1, <2>2
  <1>7. due' \in [Ids -> Seq(Byte)]
    <2>1. ASSUME NEW a \in Ids
          PROVE  (IF Completes(now) /\ a \in Audience THEN due[a] \o active.bytes
                                                      ELSE due[a]) \in Seq(Byte)
      <3>1. due[a] \in Seq(Byte) BY DEF TypeOK
      <3>2. CASE Completes(now)
        <4>1. active.bytes \in Seq(Byte) BY <3>2, BurstType DEF Completes
        <4>2. due[a] \o active.bytes \in Seq(Byte) BY <3>1, <4>1, ConcatProperties
        <4> QED BY <3>1, <4>2
      <3> QED BY <3>1, <3>2
    <2> QED BY <2>1 DEF Receive
  <1> QED BY <1>1, <1>2, <1>3, <1>5, <1>6, <1>7

\* A new burst takes exactly the bytes of the head packet.
LEMMA StartBurstTakes ==
  ASSUME IInv, NEW now \in Nat, NEW step \in 0 .. MaxNodes - 1, StartBurst(step, now)
  PROVE  LET i == Turn(step)
             n == Head(packets[i]).count
         IN  /\ i \in Stations /\ att[i] # 0
             /\ active' \in Burst /\ active'.sender = i
             /\ Len(active'.bytes) = n /\ n \in 1 .. Len(tx[i])
             /\ tx' \in [Stations -> Seq(TimedByte)]
             /\ Len(tx'[i]) = Len(tx[i]) - n
             /\ \A j \in Stations : j # i => tx'[j] = tx[j]
             /\ packets' \in [Stations -> Seq(TxPacket)]
             /\ cursor' \in Stations
             /\ PacketsOwn'
  <1> DEFINE i == Turn(step)
             n == Head(packets[i]).count
             bytes == Values(SubSeq(tx[i], 1, n))
             rest == SubSeq(tx[i], n + 1, Len(tx[i]))
  <1>1. i \in Stations
    <2>1. cursor + step \in Nat BY DEF IInv, TypeOK, Stations
    <2> QED BY <2>1, ModStation DEF Turn
  <1> HIDE DEF i
  <1>2. att[i] # 0 /\ packets[i] # <<>> BY DEF StartBurst, Ready, i
  <1>3. tx[i] \in Seq(TimedByte) /\ packets[i] \in Seq(TxPacket) /\ Owned(packets[i], tx[i])
    BY <1>1 DEF IInv, TypeOK, PacketsOwn
  <1>4. n \in 1 .. Len(tx[i]) /\ Owned(Tail(packets[i]), rest)
    BY <1>2, <1>3, OwnedTake
  <1>5. Len(tx[i]) \in Nat BY <1>3, LenProperties
  <1>6. /\ active' = [sender |-> i, bytes |-> bytes, endUs |-> now + AirUs(n),
                      recipients |-> att]
        /\ packets' = [packets EXCEPT ![i] = Tail(packets[i])]
        /\ tx' = [tx EXCEPT ![i] = rest]
        /\ cursor' = NextCursor(i)
    BY DEF StartBurst, i
  <1> HIDE DEF n
  <1>7. SubSeq(tx[i], 1, n) \in Seq(TimedByte) /\ Len(SubSeq(tx[i], 1, n)) = n
    BY <1>3, <1>4, <1>5, PartOfSeq
  <1>8. bytes \in Seq(Byte) /\ Len(bytes) = n BY <1>7, ValuesType
  <1>9. rest \in Seq(TimedByte) /\ Len(rest) = Len(tx[i]) - n
    BY <1>3, <1>4, <1>5, PartOfSeq
  <1>10. Tail(packets[i]) \in Seq(TxPacket) BY <1>2, <1>3, HeadTailProperties
  <1>11. AirUs(n) \in Nat
    <2>1. n \in Nat BY <1>4, <1>5
    <2> QED BY <2>1, AirUsNat
  <1> HIDE DEF bytes, rest
  <1>12. active' \in Burst /\ active'.sender = i /\ Len(active'.bytes) = n
    BY <1>1, <1>6, <1>8, <1>11 DEF Burst, IInv, TypeOK
  <1>13. /\ tx' \in [Stations -> Seq(TimedByte)] /\ Len(tx'[i]) = Len(tx[i]) - n
         /\ \A j \in Stations : j # i => tx'[j] = tx[j]
    BY <1>1, <1>6, <1>9 DEF IInv, TypeOK
  <1>14. packets' \in [Stations -> Seq(TxPacket)]
    BY <1>6, <1>10 DEF IInv, TypeOK
  <1>15. cursor' \in Stations
    <2>1. i + 1 \in Nat BY <1>1 DEF Stations
    <2> QED BY <2>1, <1>6, ModStation DEF NextCursor
  <1>16. PacketsOwn'
    <2>1. ASSUME NEW j \in Stations PROVE Owned(packets'[j], tx'[j])
      <3>1. CASE j = i
        <4>1. packets'[j] = Tail(packets[i]) /\ tx'[j] = rest
          BY <3>1, <1>1, <1>6 DEF IInv, TypeOK
        <4> QED BY <4>1, <1>4
      <3>2. CASE j # i
        <4>1. packets'[j] = packets[j] /\ tx'[j] = tx[j]
          BY <3>2, <1>6 DEF IInv, TypeOK
        <4> QED BY <4>1 DEF IInv, PacketsOwn
      <3> QED BY <3>1, <3>2
    <2> QED BY <2>1 DEF PacketsOwn
  <1> QED BY <1>1, <1>2, <1>4, <1>12, <1>13, <1>14, <1>15, <1>16 DEF i, n

LEMMA TickStep ==
  ASSUME IInv, Tick
  PROVE  IInv'
  <1> DEFINE now == clock + QuantumUs
             left(j) == IF Completes(now) THEN 0 ELSE Airborne(j)
  <1>1. TypeOK /\ now \in Nat BY ProfileAssumption DEF IInv, TypeOK
  <1>2. /\ clock' = now /\ Receive(now) /\ availableUs' = AvailableFrom(now)
        /\ pendingTx' = [j \in Stations |-> pendingTx[j] -
             IF Completes(now) /\ active.sender = j THEN Len(active.bytes) ELSE 0]
        /\ UNCHANGED <<att, uart, home, nextId, links, inputReady, calls, offered, heard>>
    BY DEF Tick, station
  <1>3. \/ AirFree(now) /\ \E step \in 0 .. MaxNodes - 1 : StartBurst(step, now)
        \/ NoStart(now)
    BY DEF Tick
  <1> HIDE DEF now
  <1>4. ASSUME NEW j \in Stations
        PROVE  /\ pendingTx'[j] = Len(tx[j]) + left(j)
               /\ pendingTx'[j] \in 0 .. TxFifo
    <2>1. pendingTx[j] = Len(tx[j]) + Airborne(j) /\ pendingTx[j] \in 0 .. TxFifo
      BY DEF IInv, TxOwnership
    <2>2. Len(tx[j]) \in Nat BY <1>1, LenProperties DEF TypeOK
    <2>3. Airborne(j) \in Nat BY <1>1, BurstType DEF Airborne
    <2>4. pendingTx'[j] = pendingTx[j] -
             IF Completes(now) /\ active.sender = j THEN Len(active.bytes) ELSE 0
      BY <1>2
    <2>5. (IF Completes(now) /\ active.sender = j THEN Len(active.bytes) ELSE 0)
             = Airborne(j) - left(j)
      <3>1. CASE Completes(now)
        <4>1. left(j) = 0 BY <3>1
        <4>2. Airborne(j) = IF active.sender = j THEN Len(active.bytes) ELSE 0
          BY <3>1 DEF Completes, Airborne
        <4> HIDE DEF left
        <4> QED BY <3>1, <4>1, <4>2, <2>3
      <3>2. CASE ~Completes(now)
        <4>1. left(j) = Airborne(j) BY <3>2
        <4> HIDE DEF left
        <4> QED BY <3>2, <4>1, <2>3
      <3> QED BY <3>1, <3>2
    <2>6. left(j) \in Nat /\ left(j) <= Airborne(j) BY <2>3
    <2> HIDE DEF left
    <2>7. pendingTx'[j] = Len(tx[j]) + left(j) BY <2>1, <2>2, <2>3, <2>4, <2>5, <2>6
    <2>8. Len(tx[j]) + left(j) \in 0 .. TxFifo
      BY <2>1, <2>2, <2>3, <2>6, ProfileAssumption
    <2> QED BY <2>7, <2>8
  <1>5. /\ counter' \in [Stations -> Counter] /\ airBits' \in Nat
        /\ outputReady' \in [Stations -> Nat] /\ rx' \in [Stations -> Seq(TimedByte)]
        /\ deferred' \in [Ids -> Seq(Byte)] /\ due' \in [Ids -> Seq(Byte)]
    BY <1>1, <1>2, ReceiveType
  <1>6. pendingTx' \in [Stations -> Int]
    <2>1. \A j \in Stations : pendingTx'[j] \in Int BY <1>4
    <2> QED BY <2>1, <1>2
  <1>7. availableUs' \in Nat
    <2>1. availableUs \in Nat BY <1>1 DEF TypeOK
    <2> QED BY <2>1, <1>1, <1>2, BurstType, ProfileAssumption DEF AvailableFrom, Completes
  <1>8. CASE NoStart(now)
    <2>1. UNCHANGED <<tx, packets, cursor>>
          /\ active' = IF Completes(now) THEN NoBurst ELSE active
      BY <1>8 DEF NoStart
    <2>2. TypeOK'
      BY <1>1, <1>2, <1>5, <1>6, <1>7, <2>1 DEF TypeOK
    <2>3. \A j \in Stations : Airborne(j)' = left(j)
      BY <2>1 DEF Airborne, Completes
    <2>4. TxOwnership' BY <1>4, <2>1, <2>3 DEF TxOwnership
    <2>5. PacketsOwn' BY <2>1 DEF IInv, PacketsOwn
    <2>6. SenderAttached' BY <1>2, <2>1 DEF IInv, SenderAttached
    <2> QED BY <2>2, <2>4, <2>5, <2>6 DEF IInv
  <1>9. ASSUME AirFree(now), NEW step \in 0 .. MaxNodes - 1, StartBurst(step, now)
        PROVE  IInv'
    <2> DEFINE i == Turn(step)
               n == Head(packets[i]).count
    <2>1. /\ i \in Stations /\ att[i] # 0
          /\ active' \in Burst /\ active'.sender = i
          /\ Len(active'.bytes) = n /\ n \in 1 .. Len(tx[i])
          /\ tx' \in [Stations -> Seq(TimedByte)]
          /\ Len(tx'[i]) = Len(tx[i]) - n
          /\ \A j \in Stations : j # i => tx'[j] = tx[j]
          /\ packets' \in [Stations -> Seq(TxPacket)]
          /\ cursor' \in Stations
          /\ PacketsOwn'
      BY <1>1, <1>9, StartBurstTakes
    <2> HIDE DEF i, n
    <2>2. TypeOK'
      BY <1>1, <1>2, <1>5, <1>6, <1>7, <2>1 DEF TypeOK
    <2>3. active' # NoBurst BY <2>1, ProfileAssumption
    <2>4. \A j \in Stations : left(j) = 0
      BY <1>9 DEF AirFree, Airborne
    <2>5. TxOwnership'
      <3>1. ASSUME NEW j \in Stations
            PROVE  pendingTx'[j] = Len(tx'[j]) + Airborne(j)'
        <4>1. pendingTx'[j] = Len(tx[j]) + 0 BY <1>4, <2>4
        <4>2. Len(tx[j]) \in Nat BY <1>1, LenProperties DEF TypeOK
        <4>3. CASE j = i
          <5>1. Airborne(j)' = n BY <4>3, <2>1, <2>3 DEF Airborne
          <5> QED BY <5>1, <4>1, <4>2, <4>3, <2>1
        <4>4. CASE j # i
          <5>1. Airborne(j)' = 0 BY <4>4, <2>1 DEF Airborne
          <5> QED BY <5>1, <4>1, <4>4, <2>1
        <4> QED BY <4>3, <4>4
      <3> QED BY <3>1, <1>4 DEF TxOwnership
    <2>6. SenderAttached' BY <1>2, <2>1 DEF SenderAttached
    <2> QED BY <2>1, <2>2, <2>5, <2>6 DEF IInv
  <1> QED BY <1>3, <1>8, <1>9

LEMMA StutterStep == IInv /\ UNCHANGED vars => IInv'
  <1> SUFFICES ASSUME IInv, UNCHANGED vars PROVE IInv' OBVIOUS
  <1>1. TypeOK' BY DEF IInv, TypeOK, vars, station, ingress, egress, air
  <1> QED BY <1>1, TxUntouched DEF vars, station, ingress, air

\* Every reachable state satisfies the inductive invariant.
THEOREM Invariance == Spec => []IInv
  <1>1. IInv /\ [Next]_vars => IInv'
    <2> SUFFICES ASSUME IInv, [Next]_vars PROVE IInv' OBVIOUS
    <2>1. ASSUME NEW i \in Stations, NEW u \in Uarts, Attach(i, u) PROVE IInv'
      BY <2>1, AttachStep
    <2>2. ASSUME NEW i \in Stations, DetachFrom(i) PROVE IInv' BY <2>2, DetachStep
    <2>3. ASSUME NEW p \in Fading, SetLink(p) PROVE IInv' BY <2>3, SetLinkStep
    <2>4. ASSUME NEW a \in Ids, Offer(a) PROVE IInv' BY <2>4, OfferStep
    <2>5. ASSUME NEW c \in calls, Enqueue(c) PROVE IInv' BY <2>5, EnqueueStep
    <2>6. CASE Tick BY <2>6, TickStep
    <2>7. ASSUME NEW a \in Ids, Deliver(a) PROVE IInv' BY <2>7, DeliverStep
    <2>8. CASE UNCHANGED vars BY <2>8, StutterStep
    <2> QED BY <2>1, <2>2, <2>3, <2>4, <2>5, <2>6, <2>7, <2>8 DEF Next
  <1> QED BY <1>1, InitInvariant, PTL DEF Spec

\* The state keeps its types: Tick never takes more bytes than its packet owns.
THEOREM TypeCorrect == Spec => []TypeOK
  <1>1. IInv => TypeOK BY DEF IInv
  <1> QED BY <1>1, Invariance, PTL

\* PendingTx of Enqueue and Tick is, for every profile and any number of
\* stations, attaches and detaches, the queued bytes plus those on the air.
THEOREM OwnershipHolds == Spec => []TxOwnership
  <1>1. IInv => TxOwnership BY DEF IInv
  <1> QED BY <1>1, Invariance, PTL

\* Packet descriptors are owned by accepted FIFO bytes and bounded by them.
THEOREM DescriptorsHold == Spec => []DescriptorsOwnBytes
  <1>1. IInv => DescriptorsOwnBytes
    <2> SUFFICES ASSUME IInv, NEW i \in Stations
                 PROVE  /\ Len(packets[i]) <= Len(tx[i])
                        /\ \E f \in [0 .. Len(packets[i]) -> 0 .. TxFifo] :
                              Cuts(packets[i], tx[i], f)
      BY DEF DescriptorsOwnBytes
    <2>1. packets[i] \in Seq(TxPacket) /\ tx[i] \in Seq(TimedByte)
          /\ Owned(packets[i], tx[i])
      BY DEF IInv, TypeOK, PacketsOwn
    <2>2. Len(packets[i]) <= Len(tx[i]) BY <2>1, OwnedBound
    <2>3. Len(tx[i]) \in 0 .. TxFifo
      <3>1. pendingTx[i] = Len(tx[i]) + Airborne(i) /\ pendingTx[i] \in 0 .. TxFifo
        BY DEF IInv, TxOwnership
      <3>2. Airborne(i) \in Nat BY BurstType DEF Airborne, IInv
      <3>3. Len(tx[i]) \in Nat BY <2>1, LenProperties
      <3> QED BY <3>1, <3>2, <3>3, ProfileAssumption
    <2>4. PICK f \in [0 .. Len(packets[i]) -> 0 .. Len(tx[i])] : Cuts(packets[i], tx[i], f)
      BY <2>1 DEF Owned
    <2>5. f \in [0 .. Len(packets[i]) -> 0 .. TxFifo]
      <3>1. 0 .. Len(tx[i]) \subseteq 0 .. TxFifo BY <2>3, ProfileAssumption
      <3> QED BY <3>1
    <2> QED BY <2>2, <2>4, <2>5
  <1> QED BY <1>1, Invariance, PTL


-----------------------------------------------------------------------------
(* Tick seen from the air: what completes, what starts, what stays. *)

\* Station i puts its n oldest bytes on the air at time now.
Starts(i, n, now) ==
    /\ att[i] # 0 /\ n <= Len(tx[i])
    /\ active' = [sender |-> i, bytes |-> Values(SubSeq(tx[i], 1, n)),
                  endUs |-> now + AirUs(n), recipients |-> att]
    /\ tx' = [tx EXCEPT ![i] = SubSeq(tx[i], n + 1, Len(tx[i]))]

\* The air between two ticks: idle, busy, or free for the next burst.
AirTick(now) ==
    \/ active' = active /\ ~Completes(now) /\ UNCHANGED tx
    \/ active' = NoBurst /\ Completes(now) /\ UNCHANGED tx
    \/ /\ active = NoBurst \/ Completes(now)
       /\ \E i \in Stations, n \in 1 .. MaxBurst : Starts(i, n, now)

LEMMA TickAir ==
  ASSUME IInv, Tick
  PROVE  LET now == clock + QuantumUs
         IN  /\ now \in Nat /\ clock' = now /\ Receive(now) /\ AirTick(now)
             /\ UNCHANGED <<att, uart, home, nextId, links, calls, offered, heard>>
  <1> DEFINE now == clock + QuantumUs
  <1>1. now \in Nat BY ProfileAssumption DEF IInv, TypeOK
  <1>2. /\ clock' = now /\ Receive(now)
        /\ UNCHANGED <<att, uart, home, nextId, links, calls, offered, heard>>
        /\ \/ AirFree(now) /\ \E step \in 0 .. MaxNodes - 1 : StartBurst(step, now)
           \/ NoStart(now)
    BY DEF Tick, station
  <1> HIDE DEF now
  <1>3. ASSUME NoStart(now) PROVE AirTick(now)
    <2>1. UNCHANGED tx /\ active' = IF Completes(now) THEN NoBurst ELSE active
      BY <1>3 DEF NoStart
    <2>2. CASE Completes(now) BY <2>1, <2>2 DEF AirTick
    <2>3. CASE ~Completes(now) BY <2>1, <2>3 DEF AirTick
    <2> QED BY <2>2, <2>3
  <1>4. ASSUME AirFree(now), NEW step \in 0 .. MaxNodes - 1, StartBurst(step, now)
        PROVE  AirTick(now)
    <2> DEFINE i == Turn(step)
               n == Head(packets[i]).count
    <2>1. i \in Stations /\ att[i] # 0 /\ n \in 1 .. Len(tx[i])
      BY <1>1, <1>4, StartBurstTakes
    <2>2. n <= MaxBurst
      <3>1. packets[i] # <<>> BY <1>4 DEF StartBurst, Ready
      <3>2. tx[i] \in Seq(TimedByte) /\ packets[i] \in Seq(TxPacket)
            /\ Owned(packets[i], tx[i])
        BY <2>1 DEF IInv, TypeOK, PacketsOwn
      <3> QED BY <3>1, <3>2, OwnedTake
    <2>3. /\ active' = [sender |-> i, bytes |-> Values(SubSeq(tx[i], 1, n)),
                        endUs |-> now + AirUs(n), recipients |-> att]
          /\ tx' = [tx EXCEPT ![i] = SubSeq(tx[i], n + 1, Len(tx[i]))]
      BY <1>4 DEF StartBurst
    <2> HIDE DEF i, n
    <2>4. Starts(i, n, now) BY <2>1, <2>3 DEF Starts
    <2>5. n \in 1 .. MaxBurst
      <3>1. n \in Nat /\ n >= 1 BY <2>1
      <3> QED BY <3>1, <2>2, ProfileAssumption
    <2>6. active = NoBurst \/ Completes(now) BY <1>4 DEF AirFree
    <2> QED BY <2>1, <2>4, <2>5, <2>6 DEF AirTick
  <1> QED BY <1>1, <1>2, <1>3, <1>4 DEF now

\* The bytes of a new burst, and what is left of the FIFO.
LEMMA StartsType ==
  ASSUME IInv, NEW i \in Stations, NEW n \in 1 .. MaxBurst, NEW now \in Nat,
         Starts(i, n, now)
  PROVE  /\ tx[i] \in Seq(TimedByte) /\ n \in Nat /\ n <= Len(tx[i])
         /\ active' # NoBurst /\ active'.sender = i /\ active'.recipients = att
         /\ active'.endUs = now + AirUs(n)
         /\ active'.bytes = Values(SubSeq(tx[i], 1, n))
         /\ active'.bytes \in Seq(Byte) /\ Len(active'.bytes) = n
         /\ SubSeq(tx[i], 1, n) \in Seq(TimedByte)
         /\ tx'[i] = SubSeq(tx[i], n + 1, Len(tx[i])) /\ tx'[i] \in Seq(TimedByte)
         /\ \A j \in Stations : j # i => tx'[j] = tx[j]
  <1>1. tx \in [Stations -> Seq(TimedByte)] /\ att \in [Stations -> Ids \cup {0}]
    BY DEF IInv, TypeOK
  <1>2. tx[i] \in Seq(TimedByte) /\ n \in Nat /\ n + 1 \in Nat \ {0} /\ n >= 1
    BY <1>1, ProfileAssumption
  <1>3. Len(tx[i]) \in Nat /\ n <= Len(tx[i]) BY <1>2, LenProperties DEF Starts
  <1>4. SubSeq(tx[i], 1, n) \in Seq(TimedByte) /\ Len(SubSeq(tx[i], 1, n)) = n
    BY <1>2, <1>3, PartOfSeq
  <1>5. SubSeq(tx[i], n + 1, Len(tx[i])) \in Seq(TimedByte)
    BY <1>2, <1>3, PartOfSeq
  <1>6. Values(SubSeq(tx[i], 1, n)) \in Seq(Byte)
        /\ Len(Values(SubSeq(tx[i], 1, n))) = n
    BY <1>4, ValuesType
  <1>7. AirUs(n) \in Nat BY <1>2, AirUsNat
  <1>8. active' \in Burst
    <2>1. now + AirUs(n) \in Nat BY <1>7
    <2> HIDE DEF AirUs
    <2> QED BY <2>1, <1>1, <1>6 DEF Starts, Burst
  <1>9. active' # NoBurst BY <1>8, ProfileAssumption
  <1>10. /\ active'.sender = i /\ active'.recipients = att /\ active'.endUs = now + AirUs(n)
         /\ active'.bytes = Values(SubSeq(tx[i], 1, n))
    BY DEF Starts
  <1>11. /\ tx'[i] = SubSeq(tx[i], n + 1, Len(tx[i]))
         /\ \A j \in Stations : j # i => tx'[j] = tx[j]
    BY <1>1 DEF Starts
  <1> QED BY <1>2, <1>3, <1>4, <1>5, <1>6, <1>9, <1>10, <1>11

-----------------------------------------------------------------------------
(* Identities.  What a callback, a burst or a history names is a node object  *)
(* that has been issued, and an identity belongs to one index for ever.       *)

Identities ==
    \A i \in Stations : att[i] # 0 => att[i] < nextId /\ home[att[i]] = i

\* The burst on the air was sent by the node that is attached at its index.
AirIssued ==
    active # NoBurst =>
        /\ active.recipients[active.sender] = att[active.sender]
        /\ Len(active.bytes) \in 1 .. MaxBurst
        /\ \A i \in Stations : active.recipients[i] # 0 =>
               active.recipients[i] < nextId /\ home[active.recipients[i]] = i

Unborn ==
    \A a \in Ids : a >= nextId =>
        heard[a] = <<>> /\ deferred[a] = <<>> /\ due[a] = <<>> /\ offered[a] = 0

\* A UART writes one character at a time and waits for the lock with it.
CallsIssued ==
    /\ \A c \in calls : c.id < nextId /\ c.seq = offered[c.id]
    /\ \A c, d \in calls : c.id = d.id => c = d
    /\ \A a \in Ids : offered[a] <= MaxOffers

Known == Identities /\ AirIssued /\ Unborn /\ CallsIssued

\* An attached identity is below nextId, at its own index.
LEMMA CurrentKnown ==
  ASSUME IInv, Known
  PROVE  /\ \A a \in Ids : home[a] \in Stations /\ (Current(a) => a < nextId)
         /\ \A i \in Stations : att[i] # 0 => att[i] \in Ids /\ Current(att[i])
  <1> USE DEF IInv, TypeOK, Known, Identities, Current, Ids
  <1>1. ASSUME NEW a \in Ids PROVE home[a] \in Stations /\ (Current(a) => a < nextId)
    <2>1. home[a] \in Stations OBVIOUS
    <2>2. CASE Current(a)
      <3>1. att[home[a]] # 0 BY <2>2
      <3> QED BY <2>1, <2>2, <3>1
    <2> QED BY <2>1, <2>2
  <1>2. ASSUME NEW i \in Stations, att[i] # 0 PROVE att[i] \in Ids /\ Current(att[i])
    BY <1>2
  <1> QED BY <1>1, <1>2

LEMMA IdsNat ==
  /\ \A a \in Ids : a \in Nat \ {0}
  /\ TypeOK => nextId \in Nat
  BY BoundAssumption DEF Ids, TypeOK

LEMMA KnownInit == Init => Known
  BY BoundAssumption DEF Init, InitNodes, InitAir, InitCallbacks, Known, Identities,
     AirIssued, Unborn, CallsIssued, Ids

LEMMA KnownAttach ==
  ASSUME IInv, Known, NEW i \in Stations, NEW u \in Uarts, Attach(i, u)
  PROVE  Known'
  <1>0. /\ TypeOK /\ SenderAttached
        /\ Identities /\ AirIssued /\ Unborn /\ CallsIssued
    BY DEF IInv, Known
  <1>1. /\ att' = [att EXCEPT ![i] = nextId] /\ home' = [home EXCEPT ![nextId] = i]
        /\ att[i] = 0 /\ nextId \in Ids
        /\ UNCHANGED <<active, calls, deferred, offered, heard, due>>
    BY DEF Attach, air
  <1>2. nextId' = nextId + 1 /\ nextId \in Nat BY <1>0, IdsNat DEF Attach
  <1>3. /\ \A a \in Ids : a < nextId => a < nextId' /\ home'[a] = home[a]
        /\ \A a \in Ids : a >= nextId' => a >= nextId
        /\ home'[nextId] = i /\ nextId < nextId'
    <2>1. home \in [Ids -> Stations] BY <1>0 DEF TypeOK
    <2>2. ASSUME NEW a \in Ids, a < nextId PROVE a < nextId' /\ home'[a] = home[a]
      <3>1. a \in Nat /\ a # nextId BY <2>2, <1>2, IdsNat
      <3>2. a < nextId' BY <3>1, <2>2, <1>2
      <3> QED BY <3>1, <3>2, <2>1, <1>1
    <2>3. ASSUME NEW a \in Ids, a >= nextId' PROVE a >= nextId
      <3>1. a \in Nat BY IdsNat
      <3> QED BY <3>1, <2>3, <1>2
    <2>4. home'[nextId] = i BY <2>1, <1>1
    <2>5. nextId < nextId' BY <1>2
    <2> QED BY <2>2, <2>3, <2>4, <2>5
  <1>4. att \in [Stations -> Ids \cup {0}] BY <1>0 DEF TypeOK
  <1>5. Identities'
    <2>1. ASSUME NEW j \in Stations, att'[j] # 0
          PROVE  att'[j] < nextId' /\ home'[att'[j]] = j
      <3>1. CASE j = i BY <3>1, <1>1, <1>3, <1>4
      <3>2. CASE j # i
        <4>1. att'[j] = att[j] /\ att[j] \in Ids BY <3>2, <2>1, <1>1, <1>4
        <4>2. att[j] < nextId /\ home[att[j]] = j
          BY <4>1, <2>1, <1>0 DEF Identities
        <4> QED BY <4>1, <4>2, <1>3
      <3> QED BY <3>1, <3>2
    <2> QED BY <2>1 DEF Identities
  <1>6. AirIssued'
    <2> SUFFICES ASSUME active # NoBurst PROVE AirIssued' BY <1>1 DEF AirIssued
    <2>1. active.sender \in Stations /\ active.recipients \in [Stations -> Ids \cup {0}]
      BY <1>0, BurstType
    <2>2. active.sender # i BY <1>0, <1>1 DEF SenderAttached
    <2>3. att'[active.sender] = att[active.sender] BY <1>1, <1>4, <2>1, <2>2
    <2>4. ASSUME NEW j \in Stations, active.recipients[j] # 0
          PROVE  active.recipients[j] < nextId' /\ home'[active.recipients[j]] = j
      <3>1. active.recipients[j] \in Ids BY <2>4, <2>1
      <3>2. active.recipients[j] < nextId /\ home[active.recipients[j]] = j
        BY <2>4, <1>0 DEF AirIssued
      <3> QED BY <3>1, <3>2, <1>3
    <2> QED BY <2>3, <2>4, <1>0, <1>1 DEF AirIssued
  <1>7. Unborn' BY <1>0, <1>1, <1>3 DEF Unborn
  <1>8. CallsIssued'
    <2>1. \A c \in calls : c.id \in Ids BY <1>0 DEF TypeOK
    <2>2. \A c \in calls : c.id < nextId' BY <1>0, <1>3, <2>1 DEF CallsIssued
    <2> QED BY <1>0, <1>1, <2>2 DEF CallsIssued
  <1> QED BY <1>5, <1>6, <1>7, <1>8 DEF Known

LEMMA KnownDetach ==
  ASSUME IInv, Known, NEW i \in Stations, DetachFrom(i)
  PROVE  Known'
  <1> USE DEF IInv, TypeOK, Known
  <1>1. /\ att' = [att EXCEPT ![i] = 0]
        /\ active' = IF Aborts(i) THEN NoBurst ELSE active
        /\ UNCHANGED <<home, nextId, calls, deferred, offered, heard, due>>
    BY DEF DetachFrom
  <1>2. Identities' BY <1>1 DEF Identities
  <1>3. AirIssued'
    <2> SUFFICES ASSUME active # NoBurst, active.sender # i, active' = active
                 PROVE  AirIssued'
      BY <1>1 DEF AirIssued, Aborts
    <2>1. active.sender \in Stations BY BurstType
    <2>2. att'[active.sender] = att[active.sender] BY <1>1, <2>1
    <2> QED BY <2>2, <1>1 DEF AirIssued
  <1>4. Unborn' BY <1>1 DEF Unborn
  <1>5. CallsIssued' BY <1>1 DEF CallsIssued
  <1> QED BY <1>2, <1>3, <1>4, <1>5

LEMMA KnownOffer ==
  ASSUME IInv, Known, NEW a \in Ids, Offer(a)
  PROVE  Known'
  <1> USE DEF IInv, TypeOK, Known
  <1> DEFINE new == [id |-> a, seq |-> offered[a] + 1, now |-> clock]
  <1>1. /\ calls' = calls \cup {new} /\ offered' = [offered EXCEPT ![a] = offered[a] + 1]
        /\ offered[a] < MaxOffers /\ Current(a) /\ \A c \in calls : c.id # a
        /\ UNCHANGED <<att, home, nextId, active, deferred, heard, due>>
    BY DEF Offer, Current, station, air
  <1>2. Identities' /\ AirIssued' BY <1>1 DEF Identities, AirIssued
  <1>3. a < nextId BY <1>1, CurrentKnown
  <1>4. offered[a] \in Nat /\ a \in Nat /\ nextId \in Nat BY IdsNat
  <1>5. Unborn'
    <2>1. ASSUME NEW b \in Ids, b >= nextId PROVE offered'[b] = offered[b]
      BY <2>1, <1>1, <1>3, <1>4
    <2> QED BY <2>1, <1>1 DEF Unborn
  <1>6. CallsIssued'
    <2>1. ASSUME NEW c \in calls' PROVE c.id < nextId' /\ c.seq = offered'[c.id]
      <3>1. CASE c \in calls
        <4>1. c.id \in Ids /\ c.id # a BY <3>1, <1>1
        <4> QED BY <4>1, <3>1, <1>1 DEF CallsIssued
      <3>2. CASE c = new BY <3>2, <1>1, <1>3, <1>4
      <3> QED BY <3>1, <3>2, <1>1
    <2>2. ASSUME NEW c \in calls', NEW d \in calls', c.id = d.id PROVE c = d
      <3>1. CASE c \in calls /\ d \in calls BY <3>1, <2>2 DEF CallsIssued
      <3>2. CASE c = new /\ d \in calls BY <3>2, <2>2, <1>1
      <3>3. CASE c \in calls /\ d = new BY <3>3, <2>2, <1>1
      <3> QED BY <3>1, <3>2, <3>3, <2>2, <1>1
    <2>3. ASSUME NEW b \in Ids PROVE offered'[b] <= MaxOffers
      BY <1>1, <1>4, BoundAssumption DEF CallsIssued
    <2> QED BY <2>1, <2>2, <2>3 DEF CallsIssued
  <1> QED BY <1>2, <1>5, <1>6

LEMMA KnownTick ==
  ASSUME IInv, Known, Tick
  PROVE  Known'
  <1> DEFINE now == clock + QuantumUs
  <1>0. /\ TypeOK /\ Identities /\ AirIssued /\ Unborn /\ CallsIssued
    BY DEF IInv, Known
  <1>1. /\ now \in Nat /\ Receive(now) /\ AirTick(now)
        /\ UNCHANGED <<att, home, nextId, calls, offered, heard>>
    BY TickAir
  <1> HIDE DEF now
  <1>2. Identities' /\ CallsIssued' BY <1>0, <1>1 DEF Identities, CallsIssued
  <1>3. AirIssued'
    <2>1. CASE active' = active BY <2>1, <1>0, <1>1 DEF AirIssued
    <2>2. CASE active' = NoBurst BY <2>2 DEF AirIssued
    <2>3. ASSUME NEW i \in Stations, NEW n \in 1 .. MaxBurst, Starts(i, n, now)
          PROVE  AirIssued'
      <3>1. /\ active'.sender = i /\ active'.recipients = att /\ Len(active'.bytes) = n
        BY <2>3, <1>1, StartsType
      <3> QED BY <3>1, <1>0, <1>1 DEF AirIssued, Identities
    <2> QED BY <2>1, <2>2, <2>3, <1>1 DEF AirTick
  <1>4. Unborn'
    <2>1. ASSUME NEW a \in Ids, a >= nextId PROVE deferred'[a] = <<>> /\ due'[a] = <<>>
      <3>1. a \in Nat /\ nextId \in Nat BY <1>0, IdsNat
      <3>2. ~Current(a) BY <3>1, <2>1, CurrentKnown
      <3>3. deferred[a] = <<>> /\ due[a] = <<>> BY <2>1, <1>0 DEF Unborn
      <3>4. deferred'[a] = <<>> BY <3>2, <3>3, <1>1 DEF Receive
      <3>5. ASSUME Completes(now) PROVE a \notin Audience
        <4>1. active # NoBurst BY <3>5 DEF Completes
        <4>2. \A i \in Stations : active.recipients[i] # 0 => active.recipients[i] < nextId
          BY <4>1, <1>0 DEF AirIssued
        <4> QED BY <4>2, <3>1, <2>1 DEF Audience
      <3>6. due'[a] = <<>> BY <3>3, <3>5, <1>1 DEF Receive
      <3> QED BY <3>4, <3>6
    <2> QED BY <2>1, <1>0, <1>1 DEF Unborn
  <1> QED BY <1>2, <1>3, <1>4 DEF Known

LEMMA KnownDeliver ==
  ASSUME IInv, Known, NEW a \in Ids, Deliver(a)
  PROVE  Known'
  <1>0. /\ TypeOK /\ Identities /\ AirIssued /\ Unborn /\ CallsIssued
    BY DEF IInv, Known
  <1>1. /\ deferred[a] # <<>> /\ deferred' = [deferred EXCEPT ![a] = Tail(@)]
        /\ heard' = [heard EXCEPT ![a] = Append(@, Head(deferred[a]))] \/ heard' = heard
        /\ UNCHANGED <<att, home, nextId, active, calls, offered, due>>
    BY DEF Deliver, station, air
  <1>2. Identities' /\ CallsIssued' /\ AirIssued'
    BY <1>0, <1>1 DEF Identities, CallsIssued, AirIssued
  <1>3. Unborn'
    <2>1. ASSUME NEW b \in Ids, b >= nextId
          PROVE  deferred'[b] = deferred[b] /\ heard'[b] = heard[b]
      <3>1. b # a BY <2>1, <1>0, <1>1 DEF Unborn
      <3> QED BY <3>1, <1>0, <1>1 DEF TypeOK
    <2> QED BY <2>1, <1>0, <1>1 DEF Unborn
  <1> QED BY <1>2, <1>3 DEF Known

LEMMA KnownEnqueue ==
  ASSUME IInv, Known, NEW c \in calls, Enqueue(c)
  PROVE  Known'
  <1>1. /\ calls' \subseteq calls
        /\ UNCHANGED <<att, home, nextId, active, offered, heard, deferred, due>>
    BY DEF Enqueue, station, air
  <1> QED BY <1>1 DEF Known, Identities, CallsIssued, AirIssued, Unborn

LEMMA KnownSetLink ==
  ASSUME Known, NEW p \in Fading, SetLink(p)
  PROVE  Known'
  BY DEF SetLink, station, air, Known, Identities, CallsIssued, AirIssued, Unborn

\* Identities are issued once, belong to one index, and outlive their node only
\* as callbacks that find another node in its place.
THEOREM KnownInvariance == Spec => [](IInv /\ Known)
  <1>1. IInv /\ Known /\ [Next]_vars => Known'
    <2> SUFFICES ASSUME IInv, Known, [Next]_vars PROVE Known' OBVIOUS
    <2>1. ASSUME NEW i \in Stations, NEW u \in Uarts, Attach(i, u) PROVE Known'
      BY <2>1, KnownAttach
    <2>2. ASSUME NEW i \in Stations, DetachFrom(i) PROVE Known' BY <2>2, KnownDetach
    <2>3. ASSUME NEW p \in Fading, SetLink(p) PROVE Known' BY <2>3, KnownSetLink
    <2>4. ASSUME NEW a \in Ids, Offer(a) PROVE Known' BY <2>4, KnownOffer
    <2>5. ASSUME NEW c \in calls, Enqueue(c) PROVE Known' BY <2>5, KnownEnqueue
    <2>6. CASE Tick BY <2>6, KnownTick
    <2>7. ASSUME NEW a \in Ids, Deliver(a) PROVE Known' BY <2>7, KnownDeliver
    <2>8. CASE UNCHANGED vars
      BY <2>8 DEF vars, station, air, Known, Identities, CallsIssued, AirIssued, Unborn
    <2> QED BY <2>1, <2>2, <2>3, <2>4, <2>5, <2>6, <2>7, <2>8 DEF Next
  <1> QED BY <1>1, KnownInit, Invariance, PTL DEF Spec

-----------------------------------------------------------------------------
(* Who hears. *)

\* What a UART was given changes only when that UART is the one attached at its
\* index, in a step that attaches and detaches nobody (OnlyAttachedHear).
THEOREM HearingHolds == Spec => OnlyAttachedHear
  <1> DEFINE A == \A a \in Ids : heard'[a] # heard[a] => att[home[a]] = a /\ att' = att
  <1>1. TypeOK /\ [Next]_vars => [A]_vars
    <2> SUFFICES ASSUME TypeOK, [Next]_vars PROVE A \/ UNCHANGED vars OBVIOUS
    <2>1. CASE UNCHANGED heard BY <2>1
    <2>2. ASSUME NEW b \in Ids, Deliver(b) PROVE A
      <3>1. att' = att BY <2>2 DEF Deliver, station
      <3>2. ASSUME NEW a \in Ids, heard'[a] # heard[a] PROVE att[home[a]] = a
        <4>1. Current(b) /\ heard' = [heard EXCEPT ![b] = Append(@, Head(deferred[b]))]
          BY <2>2, <3>2 DEF Deliver
        <4>2. a = b BY <3>2, <4>1 DEF TypeOK
        <4> QED BY <4>1, <4>2 DEF Current
      <3> QED BY <3>1, <3>2
    <2> QED BY <2>1, <2>2 DEF Next, Attach, DetachFrom, SetLink, Offer, Enqueue, Tick, vars
  <1> QED BY <1>1, TypeCorrect, PTL DEF Spec, OnlyAttachedHear

-----------------------------------------------------------------------------
(* The capacity of the air. *)

LEMMA DivUp ==
  ASSUME NEW x \in Nat, NEW r \in Nat \ {0}
  PROVE  ((x + r - 1) \div r) * r >= x
  <1>1. x + r - 1 \in Nat OBVIOUS
  <1>2. \A y \in Nat : /\ y = r * (y \div r) + (y % r) /\ (y % r) < r
                      /\ (y % r) \in Nat /\ y \div r \in Nat
    OBVIOUS
  <1>3. x + r - 1 = r * ((x + r - 1) \div r) + ((x + r - 1) % r) BY <1>1, <1>2
  <1> QED BY <1>1, <1>2, <1>3

LEMMA TimesNat == \A x, y \in Nat : x * y \in Nat
  OBVIOUS

\* A burst takes at least the time of its bits at the air's rate.
LEMMA AirUsEnough == \A n \in Nat : AirUs(n) * AirRate >= AirBits(n) * Second
  <1> TAKE n \in Nat
  <1>1. AirBits(n) \in Nat BY AirUsNat
  <1>2. AirBits(n) * Second \in Nat BY <1>1, ProfileAssumption
  <1> QED BY <1>2, DivUp, ProfileAssumption DEF AirUs

\* The burst on the air ends when its bits and those before it have had their time.
AirFits ==
    active # NoBurst =>
        (airBits + AirBits(Len(active.bytes))) * Second <= active.endUs * AirRate

LEMMA CapacityTick ==
  ASSUME IInv, AirCapacity, AirFits, Tick
  PROVE  AirCapacity' /\ AirFits'
  <1> DEFINE now == clock + QuantumUs
  <1>1. now \in Nat /\ clock' = now /\ Receive(now) /\ AirTick(now) /\ clock <= now
    <2>1. clock <= now BY ProfileAssumption DEF IInv, TypeOK
    <2> QED BY <2>1, TickAir
  <1>2. clock \in Nat /\ airBits \in Nat /\ TypeOK BY DEF IInv, TypeOK
  <1>3. airBits' \in Nat BY <1>1, <1>2, ReceiveType
  <1> HIDE DEF now
  <1>4. airBits' * Second <= now * AirRate
    <2>1. CASE Completes(now)
      <3>1. active # NoBurst /\ now >= active.endUs BY <2>1 DEF Completes
      <3>2. (airBits + AirBits(Len(active.bytes))) * Second <= active.endUs * AirRate
        BY <3>1 DEF AirFits
      <3>3. airBits' = airBits + AirBits(Len(active.bytes)) BY <2>1, <1>1 DEF Receive
      <3>4. active.endUs \in Nat BY <3>1, <1>2, BurstType
      <3>5. active.endUs * AirRate <= now * AirRate
        BY <3>1, <3>4, <1>1, ProfileAssumption
      <3>6. airBits' * Second \in Nat /\ active.endUs * AirRate \in Nat
            /\ now * AirRate \in Nat
        BY <3>4, <1>1, <1>3, TimesNat, ProfileAssumption
      <3> QED BY <3>2, <3>3, <3>5, <3>6
    <2>2. CASE ~Completes(now)
      <3>1. airBits' = airBits BY <2>2, <1>1, <1>2 DEF Receive
      <3>2. airBits * Second <= clock * AirRate BY DEF AirCapacity
      <3>3. clock * AirRate <= now * AirRate BY <1>1, <1>2, ProfileAssumption
      <3>4. airBits * Second \in Nat /\ clock * AirRate \in Nat /\ now * AirRate \in Nat
        BY <1>1, <1>2, ProfileAssumption
      <3> QED BY <3>1, <3>2, <3>3, <3>4
    <2> QED BY <2>1, <2>2
  <1>5. AirFits'
    <2>1. CASE active' = active /\ ~Completes(now)
      <3>1. airBits' = airBits BY <2>1, <1>1, <1>2 DEF Receive
      <3> QED BY <2>1, <3>1 DEF AirFits
    <2>2. CASE active' = NoBurst BY <2>2 DEF AirFits
    <2>3. ASSUME NEW i \in Stations, NEW n \in 1 .. MaxBurst, Starts(i, n, now)
          PROVE  AirFits'
      <3>1. n \in Nat /\ Len(active'.bytes) = n /\ active'.endUs = now + AirUs(n)
        BY <2>3, <1>1, StartsType
      <3>2. AirUs(n) * AirRate >= AirBits(n) * Second /\ AirUs(n) \in Nat
            /\ AirBits(n) \in Nat
        BY <3>1, AirUsNat, AirUsEnough
      <3> HIDE DEF AirUs, AirBits
      <3>3. (airBits' + AirBits(n)) * Second = airBits' * Second + AirBits(n) * Second
        BY <3>2, <1>3, ProfileAssumption
      <3>4. (now + AirUs(n)) * AirRate = now * AirRate + AirUs(n) * AirRate
        BY <3>2, <1>1, ProfileAssumption
      <3>5. /\ airBits' * Second \in Nat /\ AirBits(n) * Second \in Nat
            /\ now * AirRate \in Nat /\ AirUs(n) * AirRate \in Nat
        BY <3>2, <1>1, <1>3, TimesNat, ProfileAssumption
      <3>6. (airBits' + AirBits(n)) * Second <= (now + AirUs(n)) * AirRate
        BY <3>2, <3>3, <3>4, <3>5, <1>4
      <3>7. AirBits(Len(active.bytes))' = AirBits(n) BY <3>1 DEF AirBits
      <3> QED BY <3>1, <3>6, <3>7 DEF AirFits
    <2> QED BY <2>1, <2>2, <2>3, <1>1 DEF AirTick
  <1> QED BY <1>1, <1>4, <1>5 DEF AirCapacity

\* The medium never carries more than its air rate, for any rate, overhead, burst
\* length and turn-around, and whatever is detached in mid-burst (AirCapacity).
THEOREM CapacityHolds == Spec => []AirCapacity
  <1>1. Init => AirCapacity /\ AirFits
    BY ProfileAssumption DEF Init, InitAir, AirCapacity, AirFits
  <1>2. IInv /\ AirCapacity /\ AirFits /\ [Next]_vars => AirCapacity' /\ AirFits'
    <2> SUFFICES ASSUME IInv, AirCapacity, AirFits, [Next]_vars
                 PROVE  AirCapacity' /\ AirFits'
      OBVIOUS
    <2>1. CASE Tick BY <2>1, CapacityTick
    <2>2. CASE UNCHANGED <<clock, airBits>> /\ (active' = active \/ active' = NoBurst)
      BY <2>2 DEF AirCapacity, AirFits
    <2> QED BY <2>1, <2>2
            DEF Next, Attach, DetachFrom, SetLink, Offer, Enqueue, Deliver, air, vars
  <1> QED BY <1>1, <1>2, Invariance, PTL DEF Spec

-----------------------------------------------------------------------------
(* What is counted on the way out. *)

\* The call of a that waits for the lock.
Held(a) == IF \E c \in calls : c.id = a THEN 1 ELSE 0

LEMMA HeldIsWaiting ==
  ASSUME Known, NEW a \in Ids
  PROVE  Cardinality({c \in calls : c.id = a}) = Held(a)
  <1>1. CASE \E c \in calls : c.id = a
    <2>1. PICK c \in calls : c.id = a BY <1>1
    <2>2. {d \in calls : d.id = a} = {c} BY <2>1 DEF Known, CallsIssued
    <2> QED BY <1>1, <2>2, FS_Singleton DEF Held
  <1>2. CASE ~ \E c \in calls : c.id = a
    <2>1. {d \in calls : d.id = a} = {} BY <1>2
    <2> QED BY <1>2, <2>1, FS_EmptySet DEF Held
  <1> QED BY <1>1, <1>2

\* Every character station a's UART wrote, by where it is now.
Counted(a) ==
    Current(a) =>
        offered[a] = counter[home[a]].refused + pendingTx[home[a]] + counter[home[a]].aired
                     + Held(a)

Offers == \A a \in Ids : Counted(a)

\* A step that leaves the node of a alone leaves its count alone.
LEMMA CountedKept ==
  ASSUME NEW a \in Ids, Counted(a), Current(a)' => Current(a), home'[a] = home[a],
         Current(a) => /\ offered'[a] = offered[a] /\ Held(a)' = Held(a)
                       /\ pendingTx'[home[a]] = pendingTx[home[a]]
                       /\ counter'[home[a]].refused = counter[home[a]].refused
                       /\ counter'[home[a]].aired = counter[home[a]].aired
  PROVE  Counted(a)'
  <1> SUFFICES ASSUME Current(a)' PROVE Counted(a)' BY DEF Counted
  <1>1. Current(a) OBVIOUS
  <1> HIDE DEF Held, Current
  <1> QED BY <1>1 DEF Counted

\* Attach and DetachFrom: nobody who stays attached has moved.
LEMMA OthersStay ==
  ASSUME TypeOK, NEW i \in Stations, NEW x, att' = [att EXCEPT ![i] = x],
         NEW a \in Ids, a # x, home'[a] = home[a], Current(a)'
  PROVE  Current(a) /\ home[a] \in Stations /\ home[a] # i
  BY DEF TypeOK, Current

LEMMA FreshNodeElsewhere ==
  ASSUME TypeOK, NEW i \in Stations, FreshNode(i)
  PROVE  /\ \A j \in Stations : j # i =>
               /\ tx'[j] = tx[j] /\ rx'[j] = rx[j] /\ counter'[j] = counter[j]
               /\ pendingTx'[j] = pendingTx[j]
         /\ tx'[i] = <<>> /\ rx'[i] = <<>> /\ pendingTx'[i] = 0
         /\ counter'[i] = ZeroCounter
  BY DEF TypeOK, FreshNode

LEMMA OffersAttach ==
  ASSUME IInv, Known, Offers, NEW i \in Stations, NEW u \in Uarts, Attach(i, u)
  PROVE  Offers'
  <1>0. TypeOK /\ Unborn /\ CallsIssued BY DEF IInv, Known
  <1>1. /\ att' = [att EXCEPT ![i] = nextId] /\ home' = [home EXCEPT ![nextId] = i]
        /\ nextId \in Ids /\ nextId \in Nat /\ FreshNode(i) /\ UNCHANGED <<calls, offered>>
    BY <1>0, IdsNat DEF Attach
  <1>2. \A a \in Ids : Held(a)' = Held(a) BY <1>1 DEF Held
  <1>3. ASSUME NEW a \in Ids, a # nextId PROVE Counted(a)'
    <2>1. home'[a] = home[a] BY <1>0, <1>1, <1>3 DEF TypeOK
    <2>2. Current(a)' => Current(a) /\ home[a] \in Stations /\ home[a] # i
      BY <1>0, <1>1, <1>3, <2>1, OthersStay
    <2> SUFFICES ASSUME Current(a)' PROVE Counted(a)' BY DEF Counted
    <2> QED BY <1>0, <1>1, <1>2, <2>1, <2>2, FreshNodeElsewhere, CountedKept DEF Offers
  <1>4. ASSUME NEW a \in Ids, a = nextId PROVE Counted(a)'
    <2>1. home'[a] = i BY <1>0, <1>1, <1>4 DEF TypeOK
    <2>2. offered'[a] = 0 BY <1>0, <1>1, <1>4 DEF Unborn
    <2>3. Held(a)' = 0
      <3>1. ASSUME NEW c \in calls PROVE c.id # a
        <4>1. c.id \in Ids BY <1>0 DEF TypeOK
        <4>2. c.id < nextId /\ c.id \in Nat BY <4>1, <1>0, IdsNat DEF CallsIssued
        <4> QED BY <4>2, <1>1, <1>4
      <3> QED BY <3>1, <1>1 DEF Held
    <2>4. pendingTx'[i] = 0 /\ counter'[i].refused = 0 /\ counter'[i].aired = 0
      BY <1>0, <1>1, FreshNodeElsewhere DEF ZeroCounter
    <2> HIDE DEF Held
    <2> QED BY <2>1, <2>2, <2>3, <2>4 DEF Counted
  <1> QED BY <1>1, <1>3, <1>4 DEF Offers

LEMMA OffersDetach ==
  ASSUME IInv, Known, Offers, NEW i \in Stations, DetachFrom(i)
  PROVE  Offers'
  <1>0. TypeOK BY DEF IInv
  <1>1. /\ att' = [att EXCEPT ![i] = 0] /\ FreshNode(i)
        /\ UNCHANGED <<calls, offered, home>>
    BY DEF DetachFrom
  <1>2. \A a \in Ids : Held(a)' = Held(a) BY <1>1 DEF Held
  <1>3. ASSUME NEW a \in Ids PROVE Counted(a)'
    <2>1. a # 0 BY IdsNat
    <2>2. Current(a)' => Current(a) /\ home[a] \in Stations /\ home[a] # i
      BY <1>0, <1>1, <2>1, OthersStay
    <2> SUFFICES ASSUME Current(a)' PROVE Counted(a)' BY DEF Counted
    <2> QED BY <1>0, <1>1, <1>2, <2>2, FreshNodeElsewhere, CountedKept DEF Offers
  <1> QED BY <1>3 DEF Offers

LEMMA OffersOffer ==
  ASSUME IInv, Known, Offers, NEW b \in Ids, Offer(b)
  PROVE  Offers'
  <1>0. TypeOK BY DEF IInv
  <1> DEFINE new == [id |-> b, seq |-> offered[b] + 1, now |-> clock]
  <1>1. /\ calls' = calls \cup {new} /\ offered' = [offered EXCEPT ![b] = offered[b] + 1]
        /\ Current(b) /\ \A c \in calls : c.id # b
        /\ UNCHANGED <<att, home, pendingTx, counter>>
    BY DEF Offer, Current, station, ingress
  <1>2. \A a \in Ids : Current(a)' <=> Current(a) BY <1>1 DEF Current
  <1>3. new.id = b OBVIOUS
  <1> HIDE DEF new
  <1>4. ASSUME NEW a \in Ids, a # b PROVE Counted(a)'
    <2>1. offered'[a] = offered[a] BY <1>0, <1>1, <1>4 DEF TypeOK
    <2>2. Held(a)' = Held(a) BY <1>1, <1>3, <1>4 DEF Held
    <2> QED BY <1>1, <1>2, <2>1, <2>2, CountedKept DEF Offers
  <1>5. Counted(b)'
    <2>1. Held(b) = 0 /\ Held(b)' = 1 BY <1>1, <1>3 DEF Held
    <2>2. offered'[b] = offered[b] + 1 /\ offered[b] \in Nat
      BY <1>0, <1>1 DEF TypeOK
    <2>3. home[b] \in Stations /\ counter[home[b]] \in Counter /\ pendingTx[home[b]] \in Int
      BY <1>0 DEF TypeOK
    <2>4. counter[home[b]].refused \in Nat /\ counter[home[b]].aired \in Nat
      BY <2>3 DEF Counter
    <2>5. offered[b] = counter[home[b]].refused + pendingTx[home[b]]
                         + counter[home[b]].aired + Held(b)
      BY <1>1 DEF Offers, Counted
    <2> HIDE DEF Held
    <2>6. offered'[b] = counter[home[b]].refused + pendingTx[home[b]]
                          + counter[home[b]].aired + Held(b)'
      BY <2>1, <2>2, <2>3, <2>4, <2>5
    <2> QED BY <2>6, <1>1 DEF Counted
  <1> QED BY <1>4, <1>5 DEF Offers

LEMMA OffersEnqueue ==
  ASSUME IInv, Known, Offers, NEW c \in calls, Enqueue(c)
  PROVE  Offers'
  <1>0. TypeOK /\ CallsIssued BY DEF IInv, Known
  <1> DEFINE i == home[c.id]
  <1>1. c.id \in Ids /\ i \in Stations BY <1>0 DEF TypeOK
  <1>2. calls' = calls \ {c} /\ UNCHANGED <<att, home, offered>>
    BY DEF Enqueue, station
  <1>3. \A a \in Ids : Current(a)' <=> Current(a) BY <1>2 DEF Current
  <1>4. \/ ~Current(c.id) /\ UNCHANGED <<pendingTx, counter>>
        \/ /\ counter' = [counter EXCEPT ![i].refused = counter[i].refused + 1]
           /\ Current(c.id) /\ UNCHANGED pendingTx
        \/ /\ pendingTx' = [pendingTx EXCEPT ![i] = pendingTx[i] + 1]
           /\ Current(c.id) /\ UNCHANGED counter
    BY DEF Enqueue, Accept, ingress
  <1>5. \A j \in Stations : counter[j] \in Counter BY <1>0 DEF TypeOK
  <1>6. pendingTx \in [Stations -> Int] /\ counter \in [Stations -> Counter]
    BY <1>0 DEF TypeOK
  <1>7. ASSUME NEW a \in Ids, a # c.id PROVE Counted(a)'
    <2>1. Held(a)' = Held(a) BY <1>2, <1>7 DEF Held
    <2> SUFFICES ASSUME Current(a) PROVE Counted(a)' BY <1>3 DEF Counted
    <2>2. home[a] \in Stations BY <1>0 DEF TypeOK
    <2>3. Current(c.id) => home[a] # i BY <1>7 DEF Current
    <2>4. /\ pendingTx'[home[a]] = pendingTx[home[a]]
          /\ counter'[home[a]] = counter[home[a]]
      BY <1>1, <1>4, <1>6, <2>2, <2>3
    <2> QED BY <1>2, <1>3, <2>1, <2>4, CountedKept DEF Offers
  <1>8. Counted(c.id)'
    <2> SUFFICES ASSUME Current(c.id) PROVE Counted(c.id)' BY <1>1, <1>3 DEF Counted
    <2>1. Held(c.id) = 1 /\ Held(c.id)' = 0
      <3>1. \A d \in calls : d.id = c.id => d = c BY <1>0 DEF CallsIssued
      <3> QED BY <3>1, <1>2 DEF Held
    <2>2. offered[c.id] = counter[i].refused + pendingTx[i] + counter[i].aired + 1
      BY <1>1, <2>1 DEF Offers, Counted
    <2>3. /\ counter[i].refused \in Nat /\ counter[i].aired \in Nat /\ pendingTx[i] \in Int
      BY <1>1, <1>5, <1>6 DEF Counter
    <2>4. counter'[i].refused + pendingTx'[i] + counter'[i].aired
             = counter[i].refused + pendingTx[i] + counter[i].aired + 1
      <3>1. CASE /\ counter' = [counter EXCEPT ![i].refused = counter[i].refused + 1]
                 /\ UNCHANGED pendingTx
        <4>1. counter'[i].refused = counter[i].refused + 1
              /\ counter'[i].aired = counter[i].aired
          BY <3>1, <1>1, <1>5, <1>6 DEF Counter
        <4> QED BY <4>1, <3>1, <2>3
      <3>2. CASE pendingTx' = [pendingTx EXCEPT ![i] = pendingTx[i] + 1] /\ UNCHANGED counter
        <4>1. pendingTx'[i] = pendingTx[i] + 1 BY <3>2, <1>1, <1>6
        <4> QED BY <4>1, <3>2, <2>3
      <3> QED BY <3>1, <3>2, <1>4
    <2> HIDE DEF Held
    <2>5. offered'[c.id] = counter'[i].refused + pendingTx'[i] + counter'[i].aired + Held(c.id)'
      BY <2>1, <2>2, <2>3, <2>4, <1>2
    <2>6. home'[c.id] = i BY <1>2
    <2> QED BY <2>5, <2>6 DEF Counted
  <1> QED BY <1>7, <1>8 DEF Offers

\* The counters of a node after Tick, field by field.
LEMMA CompletedFields ==
  ASSUME TypeOK, NEW i \in Stations, NEW now \in Nat, Receive(now)
  PROVE  LET n == counter[i]
             m == counter'[i]
         IN  /\ m.refused = n.refused /\ m.delivered = n.delivered
             /\ m.aired = n.aired +
                  (IF Completes(now) /\ active.sender = i THEN Len(active.bytes) ELSE 0)
             /\ m.lost = n.lost + (IF Missed(i, now) THEN Len(active.bytes) ELSE 0)
             /\ m.dropped = n.dropped +
                  (IF Heard(i, now) THEN Len(active.bytes) - Fits(i) ELSE 0)
             /\ n.refused \in Nat /\ n.delivered \in Nat /\ n.aired \in Nat
             /\ n.lost \in Nat /\ n.dropped \in Nat
  <1>1. counter[i] \in Counter BY DEF TypeOK
  <1>2. counter'[i] = Completed(i, now) BY DEF Receive
  <1> HIDE DEF Heard, Missed, Completes, Fits
  <1> QED BY <1>1, <1>2 DEF Completed, Counter

LEMMA OffersTick ==
  ASSUME IInv, Known, Offers, Tick
  PROVE  Offers'
  <1> DEFINE now == clock + QuantumUs
             gone(j) == IF Completes(now) /\ active.sender = j THEN Len(active.bytes) ELSE 0
  <1>0. TypeOK BY DEF IInv
  <1>1. now \in Nat /\ Receive(now) /\ UNCHANGED <<att, home, calls, offered>>
    BY TickAir
  <1>2. \A j \in Stations : pendingTx'[j] = pendingTx[j] - gone(j) BY DEF Tick
  <1>3. \A j \in Stations : gone(j) \in Nat BY <1>0, BurstType DEF Completes
  <1> HIDE DEF now
  <1>4. ASSUME NEW a \in Ids PROVE Counted(a)'
    <2>1. Held(a)' = Held(a) /\ (Current(a)' <=> Current(a)) BY <1>1 DEF Held, Current
    <2> SUFFICES ASSUME Current(a) PROVE Counted(a)' BY <2>1 DEF Counted
    <2> DEFINE i == home[a]
    <2>2. i \in Stations /\ pendingTx[i] \in Int BY <1>0 DEF TypeOK
    <2>3. offered[a] = counter[i].refused + pendingTx[i] + counter[i].aired + Held(a)
      BY DEF Offers, Counted
    <2>4. /\ counter'[i].refused = counter[i].refused
          /\ counter'[i].aired = counter[i].aired + gone(i)
          /\ counter[i].refused \in Nat /\ counter[i].aired \in Nat
      BY <1>0, <1>1, <2>2, CompletedFields
    <2>5. pendingTx'[i] = pendingTx[i] - gone(i) /\ gone(i) \in Nat BY <1>2, <1>3, <2>2
    <2> HIDE DEF gone, i
    <2>6. counter'[i].refused + pendingTx'[i] + counter'[i].aired
             = counter[i].refused + pendingTx[i] + counter[i].aired
      BY <2>2, <2>4, <2>5
    <2>7. home'[a] = i /\ offered'[a] = offered[a] BY <1>1 DEF i
    <2> QED BY <2>1, <2>3, <2>6, <2>7 DEF Counted
  <1> QED BY <1>4 DEF Offers

LEMMA OffersDeliver ==
  ASSUME IInv, Known, Offers, NEW b \in Ids, Deliver(b)
  PROVE  Offers'
  <1>0. TypeOK BY DEF IInv
  <1>1. /\ \/ counter' = [counter EXCEPT ![home[b]].delivered = @ + 1]
           \/ UNCHANGED counter
        /\ UNCHANGED <<att, home, calls, offered, pendingTx>>
    BY DEF Deliver, station, ingress
  <1>2. ASSUME NEW j \in Stations
        PROVE  counter'[j].refused = counter[j].refused /\ counter'[j].aired = counter[j].aired
    <2>1. counter[j] \in Counter /\ counter \in [Stations -> Counter] BY <1>0 DEF TypeOK
    <2> QED BY <1>1, <2>1 DEF Counter
  <1>3. ASSUME NEW a \in Ids PROVE Counted(a)'
    <2>1. Held(a)' = Held(a) /\ (Current(a)' <=> Current(a)) BY <1>1 DEF Held, Current
    <2>2. home[a] \in Stations BY <1>0 DEF TypeOK
    <2> QED BY <1>1, <1>2, <2>1, <2>2, CountedKept DEF Offers
  <1> QED BY <1>3 DEF Offers

\* Every character a station's UART wrote is refused, pending, aired or waiting for
\* the lock, however its callbacks, bursts and detaches interleave (OffersAccounted).
THEOREM OffersHold == Spec => []OffersAccounted
  <1>1. Init => Offers
    <2> SUFFICES ASSUME Init, NEW a \in Ids, Current(a) PROVE FALSE BY DEF Offers, Counted
    <2>1. home[a] \in Stations BY InitInvariant DEF IInv, TypeOK
    <2> QED BY <2>1, IdsNat DEF Init, Current
  <1>2. IInv /\ Known /\ Offers /\ [Next]_vars => Offers'
    <2> SUFFICES ASSUME IInv, Known, Offers, [Next]_vars PROVE Offers' OBVIOUS
    <2>1. ASSUME NEW i \in Stations, NEW u \in Uarts, Attach(i, u) PROVE Offers'
      BY <2>1, OffersAttach
    <2>2. ASSUME NEW i \in Stations, DetachFrom(i) PROVE Offers' BY <2>2, OffersDetach
    <2>3. ASSUME NEW a \in Ids, Offer(a) PROVE Offers' BY <2>3, OffersOffer
    <2>4. ASSUME NEW c \in calls, Enqueue(c) PROVE Offers' BY <2>4, OffersEnqueue
    <2>5. CASE Tick BY <2>5, OffersTick
    <2>6. ASSUME NEW a \in Ids, Deliver(a) PROVE Offers' BY <2>6, OffersDeliver
    <2>7. CASE UNCHANGED <<station, ingress, counter, calls, offered>>
      BY <2>7 DEF station, ingress, Offers, Counted, Current, Held
    <2> QED BY <2>1, <2>2, <2>3, <2>4, <2>5, <2>6, <2>7 DEF Next, SetLink, vars
  <1>3. Known /\ Offers => OffersAccounted
    BY HeldIsWaiting DEF Offers, Counted, Current, OffersAccounted
  <1> QED BY <1>1, <1>2, <1>3, KnownInvariance, PTL DEF Spec

-----------------------------------------------------------------------------
(* What is counted on the way in. *)

RxBounded == \A i \in Stations : Len(rx[i]) <= RxFifo

\* Every byte that was aired to a, by where it is now.
Received(a) ==
    Current(a) =>
        /\ Len(due[a]) = Len(heard[a]) + Len(deferred[a]) + Len(rx[home[a]])
                           + counter[home[a]].lost + counter[home[a]].dropped
        /\ counter[home[a]].delivered = Len(heard[a])

Receptions == \A a \in Ids : Received(a)

\* With a bounded RX FIFO the room left in it is a number of bytes.
LEMMA FitsNat ==
  ASSUME TypeOK, RxBounded, NEW i \in Stations, active # NoBurst
  PROVE  /\ Fits(i) \in Nat /\ Fits(i) <= Len(active.bytes)
         /\ Len(rx[i]) + Fits(i) <= RxFifo
  <1>1. rx[i] \in Seq(TimedByte) BY DEF TypeOK
  <1>2. Len(rx[i]) \in Nat /\ Len(rx[i]) <= RxFifo BY <1>1, LenProperties DEF RxBounded
  <1>3. Len(active.bytes) \in Nat /\ RxFifo \in Nat BY BurstType, ProfileAssumption
  <1> DEFINE n == Len(active.bytes)
             m == Len(rx[i])
  <1>4. Fits(i) = IF n <= RxFifo - m THEN n ELSE RxFifo - m BY DEF Fits, Lesser
  <1>5. n \in Nat /\ m \in Nat /\ m <= RxFifo /\ RxFifo \in Nat BY <1>2, <1>3
  <1> HIDE DEF n, m
  <1>6. Fits(i) \in Nat /\ Fits(i) <= n /\ m + Fits(i) <= RxFifo
    BY <1>4, <1>5
  <1> QED BY <1>6 DEF n, m

\* What the FIFO gains, as a sequence.
LEMMA RxFilledParts ==
  ASSUME TypeOK, RxBounded, NEW i \in Stations, NEW now \in Nat, Heard(i, now)
  PROVE  LET gain == [k \in 1 .. Fits(i) |->
                         [value |-> active.bytes[k], readyUs |-> ReadyAt(i, k)]]
         IN  /\ RxFilled(i, now) = rx[i] \o gain
             /\ gain \in Seq(TimedByte) /\ Len(gain) = Fits(i)
             /\ Fits(i) \in Nat /\ Fits(i) <= Len(active.bytes)
             /\ Values(gain) = SubSeq(active.bytes, 1, Fits(i))
  <1> DEFINE e(k) == [value |-> active.bytes[k], readyUs |-> ReadyAt(i, k)]
             m == Fits(i)
             gain == [k \in 1 .. m |-> e(k)]
  <1>1. active # NoBurst BY DEF Heard, Completes
  <1>2. m \in Nat /\ m <= Len(active.bytes) BY <1>1, FitsNat
  <1>3. active.bytes \in Seq(Byte) /\ Len(active.bytes) \in Nat BY <1>1, BurstType
  <1>4. ASSUME NEW k \in 1 .. m PROVE e(k) \in TimedByte
    <2>1. k \in Nat /\ k \in 1 .. Len(active.bytes) BY <1>2, <1>3
    <2>2. active.bytes[k] \in Byte BY <1>3, <2>1, ElementOfSeq
    <2>3. ReadyAt(i, k) \in Nat BY <1>1, <2>1, ReadyAtType
    <2> QED BY <2>2, <2>3 DEF TimedByte
  <1> HIDE DEF m
  <1>5. gain \in Seq(TimedByte) BY <1>2, <1>4, IsASeq
  <1>6. Len(gain) = m
    <2>1. DOMAIN gain = 1 .. m OBVIOUS
    <2> HIDE DEF gain
    <2>2. Len(gain) \in Nat /\ DOMAIN gain = 1 .. Len(gain) BY <1>5, LenProperties
    <2> QED BY <2>1, <2>2, <1>2
  <1>7. Values(gain) = SubSeq(active.bytes, 1, m)
    <2>1. Values(gain) \in Seq(Byte) /\ Len(Values(gain)) = m
      BY <1>5, <1>6, ValuesType
    <2>2. /\ SubSeq(active.bytes, 1, m) \in Seq(Byte) /\ Len(SubSeq(active.bytes, 1, m)) = m
          /\ \A k \in 1 .. m : SubSeq(active.bytes, 1, m)[k] = active.bytes[k]
      <3>1. \A k \in 1 .. m : active.bytes[k] \in Byte
        <4> TAKE k \in 1 .. m
        <4>1. k \in 1 .. Len(active.bytes) BY <1>2, <1>3
        <4> QED BY <4>1, <1>3, ElementOfSeq
      <3>2. \A k \in 1 .. m : k \in 1 .. m - 1 + 1 /\ 1 + k - 1 = k BY <1>2
      <3>3. /\ SubSeq(active.bytes, 1, m) \in Seq(Byte)
            /\ Len(SubSeq(active.bytes, 1, m)) = IF 1 <= m THEN m - 1 + 1 ELSE 0
            /\ \A k \in 1 .. m - 1 + 1 : SubSeq(active.bytes, 1, m)[k] = active.bytes[1 + k - 1]
        BY <1>2, <3>1, SubSeqProperties
      <3>4. (IF 1 <= m THEN m - 1 + 1 ELSE 0) = m BY <1>2
      <3> QED BY <3>2, <3>3, <3>4
    <2>3. \A k \in 1 .. m : Values(gain)[k] = active.bytes[k]
      BY <1>6 DEF Values
    <2> QED BY <2>1, <2>2, <2>3, SeqEqual
  <1> QED BY <1>2, <1>5, <1>6, <1>7, <1>1 DEF RxFilled, m

\* How much the FIFO of a station holds after Tick, and how much it has released.
LEMMA RxTick ==
  ASSUME TypeOK, RxBounded, NEW now \in Nat, Receive(now), NEW i \in Stations
  PROVE  LET q == RxFilled(i, now)
             d == DueCount(q, now)
         IN  /\ q \in Seq(TimedByte) /\ d \in 0 .. Len(q) /\ d \in Nat
             /\ Len(q) \in Nat /\ Len(q) <= RxFifo
             /\ Len(q) = Len(rx[i]) + (IF Heard(i, now) THEN Fits(i) ELSE 0)
             /\ rx'[i] = SubSeq(q, d + 1, Len(q)) /\ rx'[i] \in Seq(TimedByte)
             /\ Len(rx'[i]) = Len(q) - d
             /\ SubSeq(q, 1, d) \in Seq(TimedByte) /\ Len(SubSeq(q, 1, d)) = d
  <1> DEFINE q == RxFilled(i, now)
             d == DueCount(q, now)
  <1>1. q \in Seq(TimedByte) BY RxFilledType
  <1>2. rx[i] \in Seq(TimedByte) /\ Len(rx[i]) \in Nat /\ Len(rx[i]) <= RxFifo
    <2>1. rx[i] \in Seq(TimedByte) BY DEF TypeOK
    <2> QED BY <2>1, LenProperties DEF RxBounded
  <1>3. /\ Len(q) = Len(rx[i]) + (IF Heard(i, now) THEN Fits(i) ELSE 0)
        /\ Len(q) <= RxFifo
    <2>1. CASE Heard(i, now)
      <3> DEFINE gain == [k \in 1 .. Fits(i) |->
                            [value |-> active.bytes[k], readyUs |-> ReadyAt(i, k)]]
      <3>1. q = rx[i] \o gain /\ gain \in Seq(TimedByte) /\ Len(gain) = Fits(i)
        BY <2>1, RxFilledParts
      <3>2. active # NoBurst BY <2>1 DEF Heard, Completes
      <3>3. Fits(i) \in Nat /\ Len(rx[i]) + Fits(i) <= RxFifo BY <3>2, FitsNat
      <3> HIDE DEF gain, q
      <3>4. Len(q) = Len(rx[i]) + Fits(i) BY <1>2, <3>1, ConcatProperties
      <3> QED BY <2>1, <3>3, <3>4
    <2>2. CASE ~Heard(i, now)
      <3>1. q = rx[i] BY <2>2 DEF RxFilled
      <3> HIDE DEF q
      <3> QED BY <3>1, <2>2, <1>2
    <2> QED BY <2>1, <2>2
  <1>4. rx'[i] = SubSeq(q, d + 1, Len(q)) BY DEF Receive
  <1> HIDE DEF q
  <1>5. d \in 0 .. Len(q) BY <1>1, DueCountType
  <1>6. Len(q) \in Nat BY <1>1, LenProperties
  <1> HIDE DEF d
  <1>7. d \in Nat /\ d + 1 \in Nat \ {0} /\ d <= Len(q) BY <1>5, <1>6
  <1>8. /\ SubSeq(q, d + 1, Len(q)) \in Seq(TimedByte)
        /\ Len(SubSeq(q, d + 1, Len(q))) = IF d + 1 <= Len(q) THEN Len(q) - (d + 1) + 1 ELSE 0
    BY <1>1, <1>6, <1>7, PartOfSeq
  <1>9. (IF d + 1 <= Len(q) THEN Len(q) - (d + 1) + 1 ELSE 0) = Len(q) - d
    BY <1>6, <1>7
  <1>10. /\ SubSeq(q, 1, d) \in Seq(TimedByte)
         /\ Len(SubSeq(q, 1, d)) = IF 1 <= d THEN d - 1 + 1 ELSE 0
    BY <1>1, <1>6, <1>7, PartOfSeq
  <1>11. (IF 1 <= d THEN d - 1 + 1 ELSE 0) = d BY <1>7
  <1> USE DEF q, d
  <1> QED BY <1>1, <1>3, <1>4, <1>5, <1>6, <1>7, <1>8, <1>9, <1>10, <1>11

\* What is deferred to the attachment of a node is what its FIFO released.
LEMMA DeferredTick ==
  ASSUME TypeOK, RxBounded, NEW now \in Nat, Receive(now), NEW a \in Ids
  PROVE  LET q == RxFilled(home[a], now)
             out == Values(SubSeq(q, 1, DueCount(q, now)))
         IN  /\ deferred'[a] = IF Current(a) THEN deferred[a] \o out ELSE deferred[a]
             /\ out \in Seq(Byte) /\ Len(out) = DueCount(q, now)
  <1> DEFINE q == RxFilled(home[a], now)
             d == DueCount(q, now)
             out == Values(SubSeq(q, 1, d))
  <1>1. home[a] \in Stations BY DEF TypeOK
  <1>2. SubSeq(q, 1, d) \in Seq(TimedByte) /\ Len(SubSeq(q, 1, d)) = d BY <1>1, RxTick
  <1>3. deferred'[a] = IF Current(a) THEN deferred[a] \o out ELSE deferred[a]
    BY DEF Receive
  <1> HIDE DEF q, d
  <1>4. out \in Seq(Byte) /\ Len(out) = d BY <1>2, ValuesType
  <1> USE DEF q, d
  <1> QED BY <1>3, <1>4

\* Whoever is still attached since the burst began hears or misses all of it.
LEMMA DueTick ==
  ASSUME IInv, Known, NEW now \in Nat, Receive(now), NEW a \in Ids, Current(a)
  PROVE  /\ home[a] \in Stations
         /\ Completes(now) /\ a \in Audience <=> Heard(home[a], now) \/ Missed(home[a], now)
         /\ ~(Heard(home[a], now) /\ Missed(home[a], now))
         /\ due'[a] = IF Heard(home[a], now) \/ Missed(home[a], now)
                      THEN due[a] \o active.bytes ELSE due[a]
  <1> DEFINE i == home[a]
  <1>1. TypeOK /\ AirIssued /\ i \in Stations BY DEF IInv, Known, TypeOK
  <1>2. att[i] = a /\ a # 0 BY IdsNat DEF Current
  <1>3. Completes(now) /\ a \in Audience <=> Heard(i, now) \/ Missed(i, now)
    <2>1. ASSUME Completes(now), a \in Audience PROVE Heard(i, now) \/ Missed(i, now)
      <3>1. active # NoBurst BY <2>1 DEF Completes
      <3>2. PICK j \in Stations \ {active.sender} : active.recipients[j] = a
        BY <2>1 DEF Audience
      <3>3. j = i BY <3>1, <3>2, <1>1, <1>2 DEF AirIssued
      <3>4. Hears(i) BY <3>2, <3>3, <1>2 DEF Hears
      <3> QED BY <3>4, <2>1 DEF Heard, Missed
    <2>2. ASSUME Heard(i, now) \/ Missed(i, now) PROVE Completes(now) /\ a \in Audience
      <3>1. Completes(now) /\ Hears(i) BY <2>2 DEF Heard, Missed
      <3>2. active.recipients[i] = a /\ i # active.sender BY <3>1, <1>2 DEF Hears
      <3> QED BY <3>1, <3>2, <1>1, <1>2 DEF Audience
    <2> QED BY <2>1, <2>2
  <1>4. ~(Heard(i, now) /\ Missed(i, now)) BY DEF Heard, Missed
  <1>5. due'[a] = IF Completes(now) /\ a \in Audience THEN due[a] \o active.bytes ELSE due[a]
    BY DEF Receive
  <1> QED BY <1>1, <1>3, <1>4, <1>5

LEMMA ReceptionsTick ==
  ASSUME IInv, Known, Receptions, RxBounded, Tick
  PROVE  Receptions' /\ RxBounded'
  <1> DEFINE now == clock + QuantumUs
  <1>0. TypeOK BY DEF IInv
  <1>1. now \in Nat /\ Receive(now) /\ UNCHANGED <<att, home, heard>> BY TickAir
  <1> HIDE DEF now
  <1>2. RxBounded'
    <2>1. ASSUME NEW i \in Stations PROVE Len(rx'[i]) <= RxFifo
      <3> DEFINE q == RxFilled(i, now)
                 d == DueCount(q, now)
      <3>1. /\ d \in Nat /\ Len(q) \in Nat /\ Len(q) <= RxFifo
            /\ Len(rx'[i]) = Len(q) - d
        BY <1>0, <1>1, RxTick
      <3> HIDE DEF q, d
      <3> QED BY <3>1, ProfileAssumption
    <2> QED BY <2>1 DEF RxBounded
  <1>3. ASSUME NEW a \in Ids PROVE Received(a)'
    <2>1. Current(a)' <=> Current(a) BY <1>1 DEF Current
    <2> SUFFICES ASSUME Current(a) PROVE Received(a)' BY <2>1 DEF Received
    <2> DEFINE i == home[a]
               q == RxFilled(i, now)
               d == DueCount(q, now)
               out == Values(SubSeq(q, 1, d))
               n == Len(active.bytes)
    <2>2. /\ i \in Stations
          /\ ~(Heard(i, now) /\ Missed(i, now))
          /\ due'[a] = IF Heard(i, now) \/ Missed(i, now)
                       THEN due[a] \o active.bytes ELSE due[a]
      BY <1>1, DueTick
    <2>3. /\ counter'[i].delivered = counter[i].delivered
          /\ counter'[i].lost = counter[i].lost + (IF Missed(i, now) THEN n ELSE 0)
          /\ counter'[i].dropped = counter[i].dropped
                                     + (IF Heard(i, now) THEN n - Fits(i) ELSE 0)
          /\ counter[i].lost \in Nat /\ counter[i].dropped \in Nat
      BY <1>0, <1>1, <2>2, CompletedFields
    <2>4. /\ d \in Nat /\ Len(rx'[i]) = Len(q) - d
          /\ Len(q) = Len(rx[i]) + (IF Heard(i, now) THEN Fits(i) ELSE 0)
      BY <1>0, <1>1, <2>2, RxTick
    <2>5. deferred'[a] = deferred[a] \o out /\ out \in Seq(Byte) /\ Len(out) = d
      BY <1>0, <1>1, DeferredTick
    <2>6. /\ deferred[a] \in Seq(Byte) /\ due[a] \in Seq(Byte) /\ heard[a] \in Seq(Byte)
          /\ rx[i] \in Seq(TimedByte)
      BY <1>0, <2>2 DEF TypeOK
    <2>7. /\ Len(due[a]) = Len(heard[a]) + Len(deferred[a]) + Len(rx[i])
                             + counter[i].lost + counter[i].dropped
          /\ counter[i].delivered = Len(heard[a])
      BY DEF Receptions, Received
    <2> HIDE DEF out, d, q
    <2>8. Len(deferred'[a]) = Len(deferred[a]) + d BY <2>5, <2>6, ConcatProperties
    <2>9. /\ Len(deferred[a]) \in Nat /\ Len(due[a]) \in Nat /\ Len(heard[a]) \in Nat
          /\ Len(rx[i]) \in Nat
      BY <2>6, LenProperties
    <2>10. Len(due'[a]) = Len(heard[a]) + Len(deferred'[a]) + Len(rx'[i])
                            + counter'[i].lost + counter'[i].dropped
      <3>1. ASSUME Heard(i, now) \/ Missed(i, now)
            PROVE  n \in Nat /\ Len(due'[a]) = Len(due[a]) + n
        <4>1. active # NoBurst BY <3>1 DEF Heard, Missed, Completes
        <4>2. active.bytes \in Seq(Byte) /\ n \in Nat BY <4>1, <1>0, BurstType
        <4> QED BY <4>2, <3>1, <2>2, <2>6, ConcatProperties
      <3>2. ASSUME Heard(i, now) PROVE Fits(i) \in Nat
        BY <3>2, <2>2, <1>0, FitsNat DEF Heard, Completes
      <3> DEFINE lost == IF Missed(i, now) THEN n ELSE 0
                 dropped == IF Heard(i, now) THEN n - Fits(i) ELSE 0
                 gained == IF Heard(i, now) THEN Fits(i) ELSE 0
                 aired == IF Heard(i, now) \/ Missed(i, now) THEN n ELSE 0
      <3>3. aired = lost + dropped + gained
            /\ aired \in Int /\ lost \in Int /\ dropped \in Int /\ gained \in Int
        <4>1. ~(Heard(i, now) /\ Missed(i, now)) BY <2>2
        <4> HIDE DEF i, n
        <4> QED BY <4>1, <3>1, <3>2
      <3>4. Len(due'[a]) = Len(due[a]) + aired
        <4>1. CASE Heard(i, now) \/ Missed(i, now) BY <4>1, <3>1
        <4>2. CASE ~(Heard(i, now) \/ Missed(i, now)) BY <4>2, <2>2, <2>9
        <4> QED BY <4>1, <4>2
      <3>5. /\ counter'[i].lost = counter[i].lost + lost
            /\ counter'[i].dropped = counter[i].dropped + dropped
            /\ counter[i].lost \in Nat /\ counter[i].dropped \in Nat
        BY <2>3
      <3>6. Len(q) = Len(rx[i]) + gained BY <2>4
      <3> HIDE DEF lost, dropped, gained, aired, n
      <3>7. Len(rx'[i]) = Len(rx[i]) + gained - d
        BY <3>3, <3>6, <2>4, <2>9
      <3> DEFINE H == Len(heard[a])
                 R == Len(rx[i])
                 D == Len(deferred[a])
                 U == Len(due[a])
                 L == counter[i].lost
                 P == counter[i].dropped
      <3>8. /\ U = H + D + R + L + P
            /\ U \in Nat /\ H \in Nat /\ D \in Nat /\ R \in Nat /\ L \in Nat /\ P \in Nat
        BY <2>7, <2>9, <3>5
      <3>9. /\ Len(due'[a]) = U + aired /\ Len(deferred'[a]) = D + d
            /\ Len(rx'[i]) = R + gained - d
            /\ counter'[i].lost = L + lost /\ counter'[i].dropped = P + dropped
        BY <2>8, <3>4, <3>5, <3>7
      <3>10. U + aired = H + (D + d) + (R + gained - d) + (L + lost) + (P + dropped)
        <4> HIDE DEF U, H, D, R, L, P
        <4> QED BY <3>3, <3>8, <2>4
      <3> QED BY <3>9, <3>10
    <2> QED BY <2>3, <2>7, <2>10, <1>1 DEF Received
  <1> QED BY <1>2, <1>3 DEF Receptions

\* A step that leaves the node of a alone leaves what it received alone.
LEMMA ReceivedKept ==
  ASSUME NEW a \in Ids, Received(a), Current(a)' => Current(a), home'[a] = home[a],
         Current(a) => /\ due'[a] = due[a] /\ heard'[a] = heard[a]
                       /\ deferred'[a] = deferred[a] /\ rx'[home[a]] = rx[home[a]]
                       /\ counter'[home[a]].lost = counter[home[a]].lost
                       /\ counter'[home[a]].dropped = counter[home[a]].dropped
                       /\ counter'[home[a]].delivered = counter[home[a]].delivered
  PROVE  Received(a)'
  <1> SUFFICES ASSUME Current(a)' PROVE Received(a)' BY DEF Received
  <1>1. Current(a) OBVIOUS
  <1> HIDE DEF Current
  <1> QED BY <1>1 DEF Received

LEMMA ReceptionsAttach ==
  ASSUME IInv, Known, Receptions, RxBounded,
         NEW i \in Stations, NEW u \in Uarts, Attach(i, u)
  PROVE  Receptions' /\ RxBounded'
  <1>0. TypeOK /\ Unborn BY DEF IInv, Known
  <1>1. /\ att' = [att EXCEPT ![i] = nextId] /\ home' = [home EXCEPT ![nextId] = i]
        /\ nextId \in Ids /\ nextId \in Nat /\ FreshNode(i)
        /\ UNCHANGED <<due, heard, deferred>>
    BY <1>0, IdsNat DEF Attach
  <1>2. ASSUME NEW a \in Ids, a # nextId PROVE Received(a)'
    <2>1. home'[a] = home[a] BY <1>0, <1>1, <1>2 DEF TypeOK
    <2>2. Current(a)' => Current(a) /\ home[a] \in Stations /\ home[a] # i
      BY <1>0, <1>1, <1>2, <2>1, OthersStay
    <2> SUFFICES ASSUME Current(a)' PROVE Received(a)' BY DEF Received
    <2>3. rx'[home[a]] = rx[home[a]] /\ counter'[home[a]] = counter[home[a]]
      BY <1>0, <1>1, <2>2, FreshNodeElsewhere
    <2> QED BY <1>1, <2>1, <2>2, <2>3, ReceivedKept DEF Receptions
  <1>3. ASSUME NEW a \in Ids, a = nextId PROVE Received(a)'
    <2>1. home'[a] = i BY <1>0, <1>1, <1>3 DEF TypeOK
    <2>2. due'[a] = <<>> /\ heard'[a] = <<>> /\ deferred'[a] = <<>>
      BY <1>0, <1>1, <1>3 DEF Unborn
    <2>3. /\ rx'[i] = <<>> /\ counter'[i].lost = 0 /\ counter'[i].dropped = 0
          /\ counter'[i].delivered = 0
      BY <1>0, <1>1, FreshNodeElsewhere DEF ZeroCounter
    <2> QED BY <2>1, <2>2, <2>3 DEF Received
  <1>4. RxBounded'
    <2>1. \A j \in Stations : rx'[j] = rx[j] \/ rx'[j] = <<>>
      BY <1>0, <1>1, FreshNodeElsewhere
    <2> QED BY <2>1, ProfileAssumption DEF RxBounded
  <1> QED BY <1>1, <1>2, <1>3, <1>4 DEF Receptions

LEMMA ReceptionsDetach ==
  ASSUME IInv, Known, Receptions, RxBounded, NEW i \in Stations, DetachFrom(i)
  PROVE  Receptions' /\ RxBounded'
  <1>0. TypeOK BY DEF IInv
  <1>1. /\ att' = [att EXCEPT ![i] = 0] /\ FreshNode(i)
        /\ UNCHANGED <<home, due, heard, deferred>>
    BY DEF DetachFrom
  <1>2. ASSUME NEW a \in Ids PROVE Received(a)'
    <2>1. a # 0 BY IdsNat
    <2>2. Current(a)' => Current(a) /\ home[a] \in Stations /\ home[a] # i
      BY <1>0, <1>1, <2>1, OthersStay
    <2> SUFFICES ASSUME Current(a)' PROVE Received(a)' BY DEF Received
    <2>3. rx'[home[a]] = rx[home[a]] /\ counter'[home[a]] = counter[home[a]]
      BY <1>0, <1>1, <2>2, FreshNodeElsewhere
    <2> QED BY <1>1, <2>2, <2>3, ReceivedKept DEF Receptions
  <1>3. RxBounded'
    <2>1. \A j \in Stations : rx'[j] = rx[j] \/ rx'[j] = <<>>
      BY <1>0, <1>1, FreshNodeElsewhere
    <2> QED BY <2>1, ProfileAssumption DEF RxBounded
  <1> QED BY <1>2, <1>3 DEF Receptions

LEMMA ReceptionsDeliver ==
  ASSUME IInv, Known, Receptions, RxBounded, NEW b \in Ids, Deliver(b)
  PROVE  Receptions' /\ RxBounded'
  <1>0. TypeOK BY DEF IInv
  <1> DEFINE i == home[b]
  <1>1. /\ deferred[b] # <<>> /\ deferred' = [deferred EXCEPT ![b] = Tail(deferred[b])]
        /\ UNCHANGED <<att, home, rx, due>>
    BY DEF Deliver, station, egress
  <1>2. \/ /\ Current(b)
           /\ counter' = [counter EXCEPT ![i].delivered = counter[i].delivered + 1]
           /\ heard' = [heard EXCEPT ![b] = Append(heard[b], Head(deferred[b]))]
        \/ ~Current(b) /\ UNCHANGED <<counter, heard>>
    BY DEF Deliver
  <1>3. \A a \in Ids : Current(a)' <=> Current(a) BY <1>1 DEF Current
  <1>4. /\ i \in Stations /\ counter \in [Stations -> Counter] /\ counter[i] \in Counter
        /\ heard \in [Ids -> Seq(Byte)] /\ deferred \in [Ids -> Seq(Byte)]
    BY <1>0 DEF TypeOK
  <1>5. ASSUME NEW a \in Ids, a # b PROVE Received(a)'
    <2> SUFFICES ASSUME Current(a) PROVE Received(a)' BY <1>3 DEF Received
    <2>1. Current(b) => home[a] # i BY <1>5 DEF Current
    <2>2. home[a] \in Stations BY <1>0 DEF TypeOK
    <2>3. counter'[home[a]] = counter[home[a]] BY <1>2, <1>4, <2>1, <2>2
    <2>4. heard'[a] = heard[a] /\ deferred'[a] = deferred[a]
      BY <1>1, <1>2, <1>4, <1>5
    <2> QED BY <1>1, <1>3, <2>3, <2>4, ReceivedKept DEF Receptions
  <1>6. Received(b)'
    <2> SUFFICES ASSUME Current(b) PROVE Received(b)' BY <1>3 DEF Received
    <2>1. /\ heard'[b] = Append(heard[b], Head(deferred[b]))
          /\ deferred'[b] = Tail(deferred[b])
      BY <1>1, <1>2, <1>4
    <2>2. /\ heard[b] \in Seq(Byte) /\ deferred[b] \in Seq(Byte)
          /\ Head(deferred[b]) \in Byte
      BY <1>1, <1>4, HeadTailProperties
    <2>3. Len(heard'[b]) = Len(heard[b]) + 1 BY <2>1, <2>2, AppendProperties
    <2>4. Len(deferred'[b]) = Len(deferred[b]) - 1 BY <1>1, <2>1, <2>2, HeadTailProperties
    <2>5. /\ counter'[i].lost = counter[i].lost /\ counter'[i].dropped = counter[i].dropped
          /\ counter'[i].delivered = counter[i].delivered + 1
          /\ counter[i].lost \in Nat /\ counter[i].dropped \in Nat
          /\ counter[i].delivered \in Nat
      <3>1. counter'[i] = [counter[i] EXCEPT !.delivered = counter[i].delivered + 1]
        BY <1>2, <1>4
      <3> QED BY <3>1, <1>4 DEF Counter
    <2>6. rx[i] \in Seq(TimedByte) BY <1>0, <1>4 DEF TypeOK
    <2>7. Len(heard[b]) \in Nat /\ Len(deferred[b]) \in Nat /\ Len(rx[i]) \in Nat
      BY <2>2, <2>6, LenProperties
    <2>8. /\ Len(due[b]) = Len(heard[b]) + Len(deferred[b]) + Len(rx[i])
                             + counter[i].lost + counter[i].dropped
          /\ counter[i].delivered = Len(heard[b])
      BY DEF Receptions, Received
    <2> DEFINE H == Len(heard[b])
               D == Len(deferred[b])
               R == Len(rx[i])
               L == counter[i].lost
               P == counter[i].dropped
    <2>9. Len(due[b]) = (H + 1) + (D - 1) + R + L + P
      <3>1. H \in Nat /\ D \in Nat /\ R \in Nat /\ L \in Nat /\ P \in Nat
            /\ Len(due[b]) = H + D + R + L + P
        BY <2>5, <2>7, <2>8
      <3> HIDE DEF H, D, R, L, P
      <3> QED BY <3>1
    <2> QED BY <1>1, <2>3, <2>4, <2>5, <2>8, <2>9 DEF Received
  <1>7. RxBounded' BY <1>1 DEF RxBounded
  <1> QED BY <1>5, <1>6, <1>7 DEF Receptions

LEMMA ReceptionsEnqueue ==
  ASSUME IInv, Receptions, RxBounded, NEW c \in calls, Enqueue(c)
  PROVE  Receptions' /\ RxBounded'
  <1>1. UNCHANGED <<att, home, due, heard, deferred, rx>>
    BY DEF Enqueue, station, egress
  <1>2. counter' = [counter EXCEPT ![home[c.id]].refused = @ + 1] \/ UNCHANGED counter
    BY DEF Enqueue
  <1>3. ASSUME NEW a \in Ids PROVE Received(a)'
    <2>1. home[a] \in Stations /\ counter \in [Stations -> Counter] BY DEF IInv, TypeOK
    <2>2. /\ counter'[home[a]].lost = counter[home[a]].lost
          /\ counter'[home[a]].dropped = counter[home[a]].dropped
          /\ counter'[home[a]].delivered = counter[home[a]].delivered
      <3>1. counter[home[a]] \in Counter BY <2>1
      <3> QED BY <1>2, <2>1, <3>1 DEF Counter
    <2>3. Current(a)' => Current(a) BY <1>1 DEF Current
    <2> QED BY <1>1, <2>2, <2>3, ReceivedKept DEF Receptions
  <1>4. RxBounded' BY <1>1 DEF RxBounded
  <1> QED BY <1>3, <1>4 DEF Receptions

LEMMA ReceptionInvariance == Spec => [](Receptions /\ RxBounded)
  <1>1. Init => Receptions /\ RxBounded
    <2> SUFFICES ASSUME Init PROVE Receptions /\ RxBounded OBVIOUS
    <2>1. ASSUME NEW a \in Ids PROVE ~Current(a)
      <3>1. home[a] \in Stations BY InitInvariant DEF IInv, TypeOK
      <3> QED BY <3>1, IdsNat DEF Init, Current
    <2>2. \A i \in Stations : rx[i] = <<>> BY DEF Init, InitNodes
    <2>3. RxBounded BY <2>2, ProfileAssumption DEF RxBounded
    <2>4. Receptions BY <2>1 DEF Receptions, Received
    <2> QED BY <2>3, <2>4
  <1>2. IInv /\ Known /\ Receptions /\ RxBounded /\ [Next]_vars => Receptions' /\ RxBounded'
    <2> SUFFICES ASSUME IInv, Known, Receptions, RxBounded, [Next]_vars
                 PROVE  Receptions' /\ RxBounded'
      OBVIOUS
    <2>1. ASSUME NEW i \in Stations, NEW u \in Uarts, Attach(i, u)
          PROVE  Receptions' /\ RxBounded'
      BY <2>1, ReceptionsAttach
    <2>2. ASSUME NEW i \in Stations, DetachFrom(i) PROVE Receptions' /\ RxBounded'
      BY <2>2, ReceptionsDetach
    <2>3. ASSUME NEW c \in calls, Enqueue(c) PROVE Receptions' /\ RxBounded'
      BY <2>3, ReceptionsEnqueue
    <2>4. CASE Tick BY <2>4, ReceptionsTick
    <2>5. ASSUME NEW a \in Ids, Deliver(a) PROVE Receptions' /\ RxBounded'
      BY <2>5, ReceptionsDeliver
    <2>6. CASE UNCHANGED <<station, egress, counter, deferred, heard, due>>
      BY <2>6 DEF station, egress, Receptions, Received, Current, RxBounded
    <2> QED BY <2>1, <2>2, <2>3, <2>4, <2>5, <2>6 DEF Next, SetLink, Offer, vars
  <1> QED BY <1>1, <1>2, KnownInvariance, PTL DEF Spec

\* What Tick airs to a station is counted as lost or dropped, queued, in flight or
\* delivered, for every RX FIFO and any losses and replacements (ReceptionAccounted).
THEOREM ReceptionHolds == Spec => []ReceptionAccounted
  <1>1. IInv /\ Receptions /\ RxBounded => ReceptionAccounted
    <2> SUFFICES ASSUME IInv, Receptions, RxBounded, NEW a \in Ids, Current(a)
                 PROVE  LET n == counter[home[a]]
                        IN  /\ Len(due[a]) = Len(Got(a)) + n.lost + n.dropped
                            /\ n.delivered = Len(heard[a])
                            /\ Len(rx[home[a]]) <= RxFifo
      BY DEF ReceptionAccounted, Current
    <2> DEFINE i == home[a]
    <2>1. /\ i \in Stations /\ rx[i] \in Seq(TimedByte) /\ heard[a] \in Seq(Byte)
          /\ deferred[a] \in Seq(Byte)
      BY DEF IInv, TypeOK
    <2>2. Values(rx[i]) \in Seq(Byte) /\ Len(Values(rx[i])) = Len(rx[i]) BY <2>1, ValuesType
    <2>3. Got(a) = heard[a] \o deferred[a] \o Values(rx[i]) BY DEF Got, Current
    <2>4. Len(Got(a)) = Len(heard[a]) + Len(deferred[a]) + Len(rx[i])
      <3> DEFINE old == heard[a] \o deferred[a]
      <3>1. old \in Seq(Byte) /\ Len(old) = Len(heard[a]) + Len(deferred[a])
        BY <2>1, ConcatProperties
      <3>2. Got(a) = old \o Values(rx[i]) BY <2>3
      <3> DEFINE new == Values(rx[i])
      <3>3. new \in Seq(Byte)
        BY <2>2
      <3> HIDE DEF old, new
      <3>4. Len(old \o new) = Len(old) + Len(new)
        BY <3>1, <3>3, ConcatProperties
      <3>5. Len(Got(a)) = Len(old) + Len(Values(rx[i]))
        BY <3>2, <3>4 DEF new
      <3> QED BY <3>1, <3>5, <2>2
    <2>5. Received(a) BY DEF Receptions
    <2> QED BY <2>1, <2>4, <2>5 DEF Received, RxBounded
  <1> QED BY <1>1, KnownInvariance, ReceptionInvariance, PTL

-----------------------------------------------------------------------------
(* FIFOs cut in two and put together again. *)

LEMMA ValuesConcat ==
  ASSUME NEW p \in Seq(TimedByte), NEW q \in Seq(TimedByte)
  PROVE  Values(p \o q) = Values(p) \o Values(q)
  <1>1. p \o q \in Seq(TimedByte) /\ Len(p \o q) = Len(p) + Len(q)
        /\ \A k \in 1 .. Len(p) + Len(q) : (p \o q)[k] = IF k <= Len(p) THEN p[k] ELSE q[k - Len(p)]
    BY ConcatProperties
  <1>2. Len(p) \in Nat /\ Len(q) \in Nat BY LenProperties
  <1>3. /\ Values(p) \in Seq(Byte) /\ Len(Values(p)) = Len(p)
        /\ Values(q) \in Seq(Byte) /\ Len(Values(q)) = Len(q)
        /\ Values(p \o q) \in Seq(Byte) /\ Len(Values(p \o q)) = Len(p) + Len(q)
    BY <1>1, ValuesType
  <1>4. Values(p) \o Values(q) \in Seq(Byte) /\ Len(Values(p) \o Values(q)) = Len(p) + Len(q)
        /\ \A k \in 1 .. Len(p) + Len(q) : (Values(p) \o Values(q))[k] =
              IF k <= Len(p) THEN Values(p)[k] ELSE Values(q)[k - Len(p)]
    BY <1>3, ConcatProperties
  <1>5. ASSUME NEW k \in 1 .. Len(p) + Len(q)
        PROVE  Values(p \o q)[k] = (Values(p) \o Values(q))[k]
    <2>1. Values(p \o q)[k] = (p \o q)[k].value BY <1>1 DEF Values
    <2>2. CASE k <= Len(p)
      <3>1. k \in 1 .. Len(p) BY <2>2, <1>2
      <3>2. Values(p)[k] = p[k].value BY <3>1 DEF Values
      <3> QED BY <2>1, <2>2, <3>2, <1>1, <1>4
    <2>3. CASE ~(k <= Len(p))
      <3>1. k - Len(p) \in 1 .. Len(q) BY <2>3, <1>2
      <3>2. Values(q)[k - Len(p)] = q[k - Len(p)].value BY <3>1 DEF Values
      <3> QED BY <2>1, <2>3, <3>2, <1>1, <1>4
    <2> QED BY <2>2, <2>3
  <1> QED BY <1>3, <1>4, <1>5, SeqEqual

LEMMA ValuesAppend ==
  ASSUME NEW q \in Seq(TimedByte), NEW e \in TimedByte
  PROVE  Values(Append(q, e)) = Append(Values(q), e.value)
  <1>1. <<e>> \in Seq(TimedByte) /\ Append(q, e) = q \o <<e>> BY AppendIsConcat
  <1>2. e.value \in Byte BY DEF TimedByte
  <1>3. Values(<<e>>) = <<e.value>>
    <2>1. Values(<<e>>) \in Seq(Byte) /\ Len(Values(<<e>>)) = 1 BY <1>1, ValuesType
    <2>2. Values(<<e>>)[1] = e.value BY DEF Values
    <2> QED BY <2>1, <2>2, <1>2, SeqEqual
  <1>4. Values(q) \in Seq(Byte) BY ValuesType
  <1>5. Append(Values(q), e.value) = Values(q) \o <<e.value>> BY <1>2, <1>4, AppendIsConcat
  <1> QED BY <1>1, <1>3, <1>5, ValuesConcat

LEMMA ValuesSplit ==
  ASSUME NEW q \in Seq(TimedByte), NEW d \in 0 .. Len(q)
  PROVE  Values(SubSeq(q, 1, d)) \o Values(SubSeq(q, d + 1, Len(q))) = Values(q)
  <1>1. Len(q) \in Nat BY LenProperties
  <1>2. d \in Nat /\ d + 1 \in Nat \ {0} /\ d <= Len(q) BY <1>1
  <1>3. SubSeq(q, 1, d) \in Seq(TimedByte) /\ SubSeq(q, d + 1, Len(q)) \in Seq(TimedByte)
    BY <1>1, <1>2, PartOfSeq
  <1>4. SubSeq(q, 1, d) \o SubSeq(q, d + 1, Len(q)) = SubSeq(q, 1, Len(q))
    <2>1. 1 \in 1 .. Len(q) + 1 /\ d \in 1 - 1 .. Len(q) /\ Len(q) \in d .. Len(q)
      BY <1>1, <1>2
    <2> QED BY <2>1, ConcatAdjacentSubSeq
  <1>5. SubSeq(q, 1, Len(q)) = q BY SubSeqFull
  <1>6. Values(SubSeq(q, 1, d) \o SubSeq(q, d + 1, Len(q)))
          = Values(SubSeq(q, 1, d)) \o Values(SubSeq(q, d + 1, Len(q)))
    BY <1>3, ValuesConcat
  <1> QED BY <1>4, <1>5, <1>6

LEMMA HeadTailConcat ==
  ASSUME NEW S, NEW s \in Seq(S), NEW t \in Seq(S), s # <<>>
  PROVE  s \o t # <<>> /\ Head(s \o t) = Head(s) /\ Tail(s \o t) = Tail(s) \o t
  <1>1. Len(s) \in Nat /\ Len(s) >= 1 /\ Len(t) \in Nat BY EmptySeq, LenProperties
  <1>2. /\ s \o t \in Seq(S) /\ Len(s \o t) = Len(s) + Len(t)
        /\ \A k \in 1 .. Len(s) + Len(t) :
              (s \o t)[k] = IF k <= Len(s) THEN s[k] ELSE t[k - Len(s)]
    BY ConcatProperties
  <1>3. s \o t # <<>> BY <1>1, <1>2, EmptySeq
  <1>4. Head(s \o t) = Head(s)
    <2>1. (s \o t)[1] = s[1] BY <1>1, <1>2
    <2> QED BY <2>1, <1>2, <1>3
  <1>5. /\ Tail(s) \in Seq(S) /\ Len(Tail(s)) = Len(s) - 1
        /\ \A k \in 1 .. Len(Tail(s)) : Tail(s)[k] = s[k+1]
    BY HeadTailProperties
  <1>6. /\ Tail(s \o t) \in Seq(S) /\ Len(Tail(s \o t)) = Len(s) + Len(t) - 1
        /\ \A k \in 1 .. Len(Tail(s \o t)) : Tail(s \o t)[k] = (s \o t)[k+1]
    BY <1>2, <1>3, HeadTailProperties
  <1>7. /\ Tail(s) \o t \in Seq(S) /\ Len(Tail(s) \o t) = Len(s) - 1 + Len(t)
        /\ \A k \in 1 .. Len(s) - 1 + Len(t) :
              (Tail(s) \o t)[k] = IF k <= Len(s) - 1 THEN Tail(s)[k] ELSE t[k - (Len(s) - 1)]
    BY <1>5, ConcatProperties
  <1>8. ASSUME NEW k \in 1 .. Len(s) + Len(t) - 1 PROVE Tail(s \o t)[k] = (Tail(s) \o t)[k]
    <2>1. k \in 1 .. Len(Tail(s \o t)) /\ k \in 1 .. Len(s) - 1 + Len(t)
          /\ k + 1 \in 1 .. Len(s) + Len(t)
      BY <1>1, <1>6
    <2>2. Tail(s \o t)[k] = IF k + 1 <= Len(s) THEN s[k+1] ELSE t[k + 1 - Len(s)]
      BY <2>1, <1>2, <1>6
    <2>3. (Tail(s) \o t)[k] = IF k <= Len(s) - 1 THEN Tail(s)[k] ELSE t[k - (Len(s) - 1)]
      BY <2>1, <1>7
    <2>4. CASE k + 1 <= Len(s)
      <3>1. k <= Len(s) - 1 /\ k \in 1 .. Len(Tail(s)) BY <2>4, <1>1, <1>5
      <3> QED BY <3>1, <2>2, <2>3, <2>4, <1>5
    <2>5. CASE ~(k + 1 <= Len(s))
      <3>1. ~(k <= Len(s) - 1) /\ k + 1 - Len(s) = k - (Len(s) - 1) BY <2>5, <1>1
      <3> QED BY <3>1, <2>2, <2>3, <2>5
    <2> QED BY <2>4, <2>5
  <1>9. Len(Tail(s \o t)) = Len(Tail(s) \o t) BY <1>1, <1>6, <1>7
  <1>10. Tail(s \o t) = Tail(s) \o t BY <1>6, <1>7, <1>8, <1>9, SeqEqual
  <1> QED BY <1>3, <1>4, <1>10

LEMMA ConcatParts ==
  ASSUME NEW S, NEW s \in Seq(S), NEW t \in Seq(S), NEW n \in 0 .. Len(s)
  PROVE  /\ SubSeq(s \o t, 1, n) = SubSeq(s, 1, n)
         /\ SubSeq(s \o t, Len(s) + 1, Len(s \o t)) = t
  <1>1. Len(s) \in Nat /\ Len(t) \in Nat BY LenProperties
  <1>2. s \o t \in Seq(S) /\ Len(s \o t) = Len(s) + Len(t) BY ConcatProperties
  <1>3. SubSeq(s \o t, 1, n) = SubSeq(s, 1, n)
    <2>1. CASE n = 0 BY <2>1, SubSeqEmpty
    <2>2. CASE n # 0
      <3>1. 1 \in 1 .. Len(s) /\ n \in 1 .. Len(s) BY <2>2, <1>1
      <3> QED BY <3>1, SubSeqOfConcat1
    <2> QED BY <2>1, <2>2
  <1>4. SubSeq(s \o t, Len(s) + 1, Len(s \o t)) = t
    <2>1. CASE t = <<>>
      <3>1. Len(t) = 0 BY <2>1
      <3>2. SubSeq(s \o t, Len(s) + 1, Len(s \o t)) = <<>>
        BY <3>1, <1>1, <1>2, SubSeqEmpty
      <3> QED BY <3>2, <2>1
    <2>2. CASE t # <<>>
      <3>1. Len(t) >= 1 BY <2>2, <1>1, EmptySeq
      <3>2. Len(s) + 1 \in Len(s) + 1 .. Len(s) + Len(t)
            /\ Len(s) + Len(t) \in Len(s) + 1 .. Len(s) + Len(t)
        BY <3>1, <1>1
      <3>3. SubSeq(s \o t, Len(s) + 1, Len(s) + Len(t))
              = SubSeq(t, Len(s) + 1 - Len(s), Len(s) + Len(t) - Len(s))
        BY <3>2, SubSeqOfConcat2
      <3>4. Len(s) + 1 - Len(s) = 1 /\ Len(s) + Len(t) - Len(s) = Len(t) BY <1>1
      <3> QED BY <3>3, <3>4, <1>2, SubSeqFull
    <2> QED BY <2>1, <2>2
  <1> QED BY <1>3, <1>4

-----------------------------------------------------------------------------
(* RadioBroadcast.  First its steps, as changes of the mapped variables. *)

LEMMA StutterMap ==
  ASSUME nextId' = nextId, Attached' = Attached, OnAir' = OnAir, heard' = heard,
         \A a \in Ids : Unsent(a)' = Unsent(a) /\ Inbox(a)' = Inbox(a)
  PROVE  UNCHANGED Abstract!abstractVars
  BY DEF Abstract!abstractVars

LEMMA JoinMap ==
  ASSUME NEW a \in Ids, nextId \in Nat, a = nextId, nextId' = nextId + 1,
         Attached' = Attached \cup {a}, OnAir' = OnAir, heard' = heard,
         \A b \in Ids : Unsent(b)' = Unsent(b) /\ Inbox(b)' = Inbox(b)
  PROVE  Abstract!Next
  <1>1. a \notin 1 .. nextId - 1 OBVIOUS
  <1>2. 1 .. nextId' - 1 = (1 .. nextId - 1) \cup {a} BY BoundAssumption DEF Ids
  <1>3. Abstract!Join(a) BY <1>1, <1>2 DEF Abstract!Join
  <1> QED BY <1>3 DEF Abstract!Next

LEMMA LeaveMap ==
  ASSUME NEW a \in Ids, a \in Attached, nextId' = nextId, Attached' = Attached \ {a},
         heard' = heard,
         OnAir' = IF OnAir # NoBurst /\ OnAir.src = a THEN NoBurst ELSE OnAir,
         \A b \in Ids : Unsent(b)' = IF b = a THEN <<>> ELSE Unsent(b),
         \A b \in Ids : Inbox(b)' = IF b = a THEN <<>> ELSE Inbox(b)
  PROVE  Abstract!Next
  <1>1. [b \in Ids |-> Unsent(b)]' = [[b \in Ids |-> Unsent(b)] EXCEPT ![a] = <<>>] OBVIOUS
  <1>2. [b \in Ids |-> Inbox(b)]' = [[b \in Ids |-> Inbox(b)] EXCEPT ![a] = <<>>] OBVIOUS
  <1>3. Abstract!Leave(a) BY <1>1, <1>2 DEF Abstract!Leave
  <1> QED BY <1>3 DEF Abstract!Next

LEMMA WriteMap ==
  ASSUME NEW a \in Ids, a \in Attached, nextId' = nextId, Attached' = Attached,
         NEW s \in 1 .. MaxOffers,
         heard' = heard, OnAir' = OnAir,
         \A b \in Ids : Unsent(b)' = IF b = a THEN Append(Unsent(a), [src |-> a, seq |-> s])
                                     ELSE Unsent(b),
         \A b \in Ids : Inbox(b)' = Inbox(b)
  PROVE  Abstract!Next
  <1> DEFINE e == [src |-> a, seq |-> s]
  <1>1. [b \in Ids |-> Unsent(b)]'
          = [[b \in Ids |-> Unsent(b)] EXCEPT ![a] = Append(@, e)]
    OBVIOUS
  <1>2. e \in [src : Ids, seq : 1 .. MaxOffers] /\ e.src = a OBVIOUS
  <1> HIDE DEF e
  <1>3. Abstract!Write(a) BY <1>1, <1>2 DEF Abstract!Write
  <1> QED BY <1>3 DEF Abstract!Next

LEMMA HearMap ==
  ASSUME NEW a \in Ids, a \in Attached, nextId' = nextId, Attached' = Attached,
         Inbox(a) # <<>>, OnAir' = OnAir,
         heard' = [heard EXCEPT ![a] = Append(heard[a], Head(Inbox(a)))],
         \A b \in Ids : Inbox(b)' = IF b = a THEN Tail(Inbox(a)) ELSE Inbox(b),
         \A b \in Ids : Unsent(b)' = Unsent(b)
  PROVE  Abstract!Next
  <1>1. [b \in Ids |-> Inbox(b)]' = [[b \in Ids |-> Inbox(b)] EXCEPT ![a] = Tail(@)] OBVIOUS
  <1>2. Abstract!Hear(a) BY <1>1 DEF Abstract!Hear
  <1> QED BY <1>2 DEF Abstract!Next

LEMMA StartMap ==
  ASSUME NEW x \in Attached, x \in Ids, NEW n \in 1 .. MaxBurst, n <= Len(Unsent(x)), Unsent(x) # <<>>,
         nextId' = nextId, Attached' = Attached, heard' = heard, OnAir = NoBurst,
         OnAir' = [src |-> x, len |-> n, audience |-> Attached \ {x}],
         \A b \in Ids : Unsent(b)' = Unsent(b) /\ Inbox(b)' = Inbox(b)
  PROVE  Abstract!Next
  <1> DEFINE u == [b \in Ids |-> Unsent(b)]
             from == {b \in Attached : u[b] # <<>>}
             burst(b, k) == [src |-> b, len |-> k, audience |-> Attached \ {b}]
             bursts == {burst(b, k) : b \in from, k \in 1 .. MaxBurst}
  <1>1. OnAir' \in Abstract!Sendable(u)
    <2>1. u[x] = Unsent(x) /\ x \in from OBVIOUS
    <2>2. OnAir' = burst(x, n) /\ OnAir'.src = x /\ OnAir'.len = n OBVIOUS
    <2>3. bursts = Abstract!Bursts(u) BY DEF Abstract!Bursts
    <2> HIDE DEF burst, from
    <2>4. OnAir' \in bursts BY <2>1, <2>2
    <2> HIDE DEF bursts, u
    <2>5. OnAir' \in Abstract!Bursts(u) BY <2>3, <2>4
    <2> QED BY <2>1, <2>2, <2>5 DEF Abstract!Sendable
  <1>2. Abstract!Start BY <1>1 DEF Abstract!Start
  <1> QED BY <1>2 DEF Abstract!Next

LEMMA FinishMap ==
  ASSUME nextId' = nextId, Attached' = Attached, heard' = heard, OnAir # NoBurst,
         OnAir.src \in Ids,
         NEW gain \in [Ids -> 0 .. OnAir.len],
         \A b \in Ids : Unsent(b)' = IF b = OnAir.src
                           THEN SubSeq(Unsent(b), OnAir.len + 1, Len(Unsent(b))) ELSE Unsent(b),
         \A b \in Ids : Inbox(b)' = IF b \in OnAir.audience \cap Attached
                           THEN Inbox(b) \o SubSeq(Unsent(OnAir.src), 1, gain[b]) ELSE Inbox(b),
         \/ OnAir' = NoBurst
         \/ \E a \in Attached, n \in 1 .. MaxBurst :
               /\ a \in Ids /\ Unsent(a)' # <<>> /\ n <= Len(Unsent(a)')
               /\ OnAir' = [src |-> a, len |-> n, audience |-> Attached \ {a}]
  PROVE  Abstract!Next
  <1> DEFINE u == [b \in Ids |-> Unsent(b)]
             v == [b \in Ids |-> Inbox(b)]
             src == OnAir.src
             len == OnAir.len
  <1>1. u' = [u EXCEPT ![src] = SubSeq(@, len + 1, Len(@))] OBVIOUS
  <1>2. v' = [b \in Ids |-> IF b \in OnAir.audience \cap Attached
                            THEN v[b] \o SubSeq(u[src], 1, gain[b]) ELSE v[b]]
    OBVIOUS
  <1>3. OnAir' \in Abstract!Sendable(u') \cup {NoBurst}
    BY DEF Abstract!Sendable, Abstract!Bursts
  <1>4. Abstract!Finish BY <1>1, <1>2, <1>3 DEF Abstract!Finish
  <1> QED BY <1>4 DEF Abstract!Next

-----------------------------------------------------------------------------
(* Then what each action of the medium does to the mapped variables. *)

\* The mapped variables of one state.
LEMMA Mapped ==
  ASSUME IInv, Known
  PROVE  /\ Attached \subseteq Ids
         /\ \A a \in Ids : a \in Attached <=> Current(a)
         /\ \A i \in Stations : att[i] # 0 => att[i] \in Attached /\ home[att[i]] = i
         /\ \A a \in Ids : Unsent(a) \in Seq(Byte) /\ Inbox(a) \in Seq(Byte)
  <1>1. att \in [Stations -> Ids \cup {0}] /\ home \in [Ids -> Stations] /\ 0 \notin Ids
    BY IdsNat DEF IInv, TypeOK
  <1>2. Attached \subseteq Ids BY <1>1 DEF Attached
  <1>3. \A i \in Stations : att[i] # 0 => att[i] \in Attached /\ home[att[i]] = i
    BY <1>1 DEF Attached, Known, Identities
  <1>4. ASSUME NEW a \in Ids PROVE a \in Attached <=> Current(a)
    <2>1. ASSUME a \in Attached PROVE Current(a)
      <3>1. PICK i \in Stations : att[i] = a BY <2>1 DEF Attached
      <3> QED BY <3>1, <1>1, CurrentKnown
    <2>2. ASSUME Current(a) PROVE a \in Attached
      BY <2>2, <1>1 DEF Attached, Current
    <2> QED BY <2>1, <2>2
  <1>5. ASSUME NEW a \in Ids PROVE Unsent(a) \in Seq(Byte) /\ Inbox(a) \in Seq(Byte)
    <2>1. /\ deferred[a] \in Seq(Byte) /\ tx[home[a]] \in Seq(TimedByte)
          /\ rx[home[a]] \in Seq(TimedByte)
      BY <1>1 DEF IInv, TypeOK
    <2>2. Values(tx[home[a]]) \in Seq(Byte) /\ Values(rx[home[a]]) \in Seq(Byte)
      BY <2>1, ValuesType
    <2>3. <<>> \in Seq(Byte) BY EmptySeq
    <2>4. active # NoBurst => active.bytes \in Seq(Byte) BY BurstType DEF IInv
    <2>5. ASSUME NEW s \in Seq(Byte), NEW t \in Seq(Byte) PROVE s \o t \in Seq(Byte)
      BY ConcatProperties
    <2>6. Inbox(a) \in Seq(Byte) BY <2>1, <2>2, <2>3, <2>5 DEF Inbox
    <2>7. Unsent(a) \in Seq(Byte) BY <2>2, <2>3, <2>4, <2>5 DEF Unsent
    <2> QED BY <2>6, <2>7
  <1> QED BY <1>2, <1>3, <1>4, <1>5

\* The burst on the air as RadioBroadcast sees it.
LEMMA OnAirType ==
  ASSUME IInv, Known, active # NoBurst
  PROVE  /\ OnAir = [src |-> att[active.sender], len |-> Len(active.bytes),
                     audience |-> {active.recipients[i] : i \in Stations}
                                      \ {0, att[active.sender]}]
         /\ OnAir # NoBurst /\ active.sender \in Stations
         /\ att[active.sender] \in Attached /\ att[active.sender] \in Ids
         /\ home[att[active.sender]] = active.sender
         /\ Len(active.bytes) \in 1 .. MaxBurst /\ Len(active.bytes) \in Nat
  <1> DEFINE s == att[active.sender]
             g == {active.recipients[i] : i \in Stations} \ {0, s}
  <1>1. /\ active.sender \in Stations /\ active.bytes \in Seq(Byte)
        /\ active.recipients \in [Stations -> Ids \cup {0}]
    BY BurstType DEF IInv
  <1>2. active.recipients[active.sender] = s /\ Len(active.bytes) \in 1 .. MaxBurst
    BY DEF Known, AirIssued
  <1>3. s # 0 BY DEF IInv, SenderAttached
  <1>4. s \in Attached /\ home[s] = active.sender /\ s \in Ids BY <1>1, <1>3, Mapped
  <1>5. OnAir = [src |-> s, len |-> Len(active.bytes), audience |-> g]
    BY <1>2 DEF OnAir
  <1>6. g \in SUBSET Ids BY <1>1
  <1>7. Len(active.bytes) \in Nat BY <1>1, LenProperties
  <1> HIDE DEF g, s
  <1>8. OnAir \in [src : Ids, len : 1 .. MaxBurst, audience : SUBSET Ids]
    BY <1>2, <1>4, <1>5, <1>6
  <1>9. OnAir # NoBurst BY <1>8, NullAssumption
  <1> USE DEF g, s
  <1> QED BY <1>1, <1>2, <1>4, <1>5, <1>7, <1>9

\* A node's part of the mapping when its own node and the air stay as they were.
LEMMA SameNode ==
  ASSUME NEW a \in Ids, Current(a)' <=> Current(a), home'[a] = home[a],
         Current(a) => /\ tx'[home[a]] = tx[home[a]] /\ rx'[home[a]] = rx[home[a]]
                       /\ deferred'[a] = deferred[a]
                       /\ \/ active' = active
                          \/ active' = NoBurst /\ active.sender # home[a]
  PROVE  Unsent(a)' = Unsent(a) /\ Inbox(a)' = Inbox(a)
  <1>1. CASE Current(a)
    <2>1. att'[home'[a]] = a /\ att[home[a]] = a BY <1>1 DEF Current
    <2>2. Values(tx'[home'[a]]) = Values(tx[home[a]])
          /\ Values(rx'[home'[a]]) = Values(rx[home[a]])
      BY <1>1
    <2> QED BY <1>1, <2>1, <2>2 DEF Unsent, Inbox
  <1>2. CASE ~Current(a)
    <2>1. att'[home'[a]] # a /\ att[home[a]] # a BY <1>2 DEF Current
    <2> QED BY <2>1 DEF Unsent, Inbox
  <1> QED BY <1>1, <1>2

\* A new node has nothing to send and nothing to hear; the others keep theirs.
LEMMA AttachKeeps ==
  ASSUME IInv, Known, NEW i \in Stations, NEW u \in Uarts, Attach(i, u)
  PROVE  \A a \in Ids : Unsent(a)' = Unsent(a) /\ Inbox(a)' = Inbox(a)
  <1>0. TypeOK /\ Unborn BY DEF IInv, Known
  <1>1. /\ att[i] = 0 /\ att' = [att EXCEPT ![i] = nextId]
        /\ home' = [home EXCEPT ![nextId] = i]
        /\ nextId \in Ids /\ nextId \in Nat /\ nextId' = nextId + 1 /\ FreshNode(i)
        /\ UNCHANGED <<active, deferred, heard>>
    BY <1>0, IdsNat DEF Attach, air
  <1>2. ASSUME NEW a \in Ids, a # nextId
        PROVE  Unsent(a)' = Unsent(a) /\ Inbox(a)' = Inbox(a)
    <2>1. home'[a] = home[a] /\ home[a] \in Stations BY <1>0, <1>1, <1>2 DEF TypeOK
    <2>2. a # 0 BY IdsNat
    <2>3. (Current(a)' <=> Current(a)) /\ (Current(a) => home[a] # i)
      BY <1>0, <1>1, <1>2, <2>1, <2>2 DEF Current, TypeOK
    <2>4. Current(a) => tx'[home[a]] = tx[home[a]] /\ rx'[home[a]] = rx[home[a]]
      BY <1>0, <1>1, <2>1, <2>3, FreshNodeElsewhere
    <2> QED BY <1>1, <2>1, <2>3, <2>4, SameNode
  <1>3. ASSUME NEW a \in Ids, a = nextId
        PROVE  Unsent(a)' = Unsent(a) /\ Inbox(a)' = Inbox(a)
    <2>1. home'[a] = i /\ att'[i] = a BY <1>0, <1>1, <1>3 DEF TypeOK
    <2>2. tx'[i] = <<>> /\ rx'[i] = <<>> BY <1>0, <1>1, FreshNodeElsewhere
    <2>3. deferred'[a] = <<>> BY <1>0, <1>1, <1>3 DEF Unborn
    <2>4. active' = NoBurst \/ active'.sender # i
      <3>1. active # NoBurst => active.sender # i BY <1>1 DEF IInv, SenderAttached
      <3> QED BY <3>1, <1>1
    <2>5. Values(<<>>) = <<>>
      <3>1. <<>> \in Seq(TimedByte) BY EmptySeq
      <3>2. Values(<<>>) \in Seq(Byte) /\ Len(Values(<<>>)) = 0 BY <3>1, ValuesType
      <3> QED BY <3>2, EmptySeq
    <2>6. <<>> \o <<>> = <<>> BY EmptySeq, ConcatEmptySeq
    <2>7. Unsent(a)' = <<>> /\ Inbox(a)' = <<>>
      BY <2>1, <2>2, <2>3, <2>4, <2>5, <2>6 DEF Unsent, Inbox
    <2>8. ~Current(a)
      <3>1. nextId < nextId \/ ~Current(a) BY <1>3, CurrentKnown
      <3> QED BY <3>1, <1>1
    <2>9. Unsent(a) = <<>> /\ Inbox(a) = <<>> BY <2>8 DEF Current, Unsent, Inbox
    <2> QED BY <2>7, <2>9
  <1> QED BY <1>2, <1>3

LEMMA AttachMaps ==
  ASSUME IInv, Known, NEW i \in Stations, NEW u \in Uarts, Attach(i, u)
  PROVE  Abstract!Next
  <1>0. TypeOK BY DEF IInv
  <1>1. /\ att[i] = 0 /\ att' = [att EXCEPT ![i] = nextId]
        /\ nextId \in Ids /\ nextId \in Nat /\ nextId' = nextId + 1
        /\ UNCHANGED <<active, heard>>
    BY <1>0, IdsNat DEF Attach, air
  <1>2. \A a \in Ids : Unsent(a)' = Unsent(a) /\ Inbox(a)' = Inbox(a) BY AttachKeeps
  <1>3. Attached' = Attached \cup {nextId}
    <2>1. nextId # 0 /\ att \in [Stations -> Ids \cup {0}] BY <1>0, <1>1, IdsNat DEF TypeOK
    <2>2. \A j \in Stations : att'[j] = IF j = i THEN nextId ELSE att[j] BY <1>1, <2>1
    <2> QED BY <1>1, <2>1, <2>2 DEF Attached
  <1>4. OnAir' = OnAir BY <1>1 DEF OnAir
  <1>5. ASSUME NEW a \in Ids, a = nextId PROVE Abstract!Next
    <2>1. Attached' = Attached \cup {a} BY <1>3, <1>5
    <2> QED BY <1>1, <1>2, <1>4, <1>5, <2>1, JoinMap
  <1> QED BY <1>1, <1>5

\* What a detached node had to send or to hear is gone; the others keep theirs.
LEMMA DetachClears ==
  ASSUME IInv, Known, NEW i \in Stations, DetachFrom(i)
  PROVE  /\ att[i] \in Ids /\ att[i] \in Attached /\ home[att[i]] = i
         /\ \A b \in Ids : /\ Unsent(b)' = IF b = att[i] THEN <<>> ELSE Unsent(b)
                          /\ Inbox(b)' = IF b = att[i] THEN <<>> ELSE Inbox(b)
  <1>0. TypeOK BY DEF IInv
  <1>1. /\ att[i] # 0 /\ att' = [att EXCEPT ![i] = 0] /\ FreshNode(i)
        /\ active' = IF Aborts(i) THEN NoBurst ELSE active
        /\ UNCHANGED <<home, nextId, deferred, heard>>
    BY DEF DetachFrom
  <1>2. PICK a \in Ids : a = att[i] /\ a \in Attached /\ home[a] = i
    BY <1>1, Mapped
  <1>3. ASSUME NEW b \in Ids, b # a
        PROVE  Unsent(b)' = Unsent(b) /\ Inbox(b)' = Inbox(b)
    <2>1. home[b] \in Stations /\ b # 0 /\ att \in [Stations -> Ids \cup {0}]
      BY <1>0, IdsNat DEF TypeOK
    <2>2. (Current(b)' <=> Current(b)) /\ (Current(b) => home[b] # i)
      BY <1>1, <1>2, <1>3, <2>1 DEF Current
    <2>3. Current(b) => tx'[home[b]] = tx[home[b]] /\ rx'[home[b]] = rx[home[b]]
      BY <1>0, <1>1, <2>1, <2>2, FreshNodeElsewhere
    <2>4. Current(b) => \/ active' = active
                        \/ active' = NoBurst /\ active.sender # home[b]
      <3>1. CASE Aborts(i)
        <4>1. active' = NoBurst /\ active.sender = i BY <3>1, <1>1 DEF Aborts
        <4> QED BY <4>1, <2>2
      <3>2. CASE ~Aborts(i)
        <4>1. active' = active BY <3>2, <1>1
        <4> QED BY <4>1
      <3> QED BY <3>1, <3>2
    <2> QED BY <1>1, <2>2, <2>3, <2>4, SameNode
  <1>4. Unsent(a)' = <<>> /\ Inbox(a)' = <<>>
    <2>1. att'[home'[a]] = 0 /\ a # 0 BY <1>0, <1>1, <1>2, IdsNat DEF TypeOK
    <2> QED BY <2>1 DEF Unsent, Inbox
  <1> QED BY <1>2, <1>3, <1>4

LEMMA DetachMaps ==
  ASSUME IInv, Known, NEW i \in Stations, DetachFrom(i)
  PROVE  Abstract!Next
  <1>0. TypeOK BY DEF IInv
  <1>1. /\ att[i] # 0 /\ att' = [att EXCEPT ![i] = 0]
        /\ active' = IF Aborts(i) THEN NoBurst ELSE active
        /\ UNCHANGED <<home, nextId, heard>>
    BY DEF DetachFrom
  <1>2. PICK a \in Ids : a = att[i] /\ a \in Attached /\ home[a] = i
    BY DetachClears
  <1>3. \A b \in Ids : /\ Unsent(b)' = IF b = a THEN <<>> ELSE Unsent(b)
                      /\ Inbox(b)' = IF b = a THEN <<>> ELSE Inbox(b)
    BY <1>2, DetachClears
  <1>4. Attached' = Attached \ {a}
    <2>1. \A j \in Stations : att'[j] = IF j = i THEN 0 ELSE att[j]
      BY <1>0, <1>1 DEF TypeOK
    <2>2. \A j \in Stations : att[j] = a => j = i
      BY <1>1, <1>2, Mapped
    <2> QED BY <1>2, <2>1, <2>2 DEF Attached
  <1>5. OnAir' = IF OnAir # NoBurst /\ OnAir.src = a THEN NoBurst ELSE OnAir
    <2>1. CASE active = NoBurst
      <3>1. active' = NoBurst BY <2>1, <1>1 DEF Aborts
      <3> QED BY <3>1, <2>1 DEF OnAir
    <2>2. CASE active # NoBurst
      <3>1. OnAir # NoBurst /\ OnAir.src = att[active.sender] /\ active.sender \in Stations
            /\ home[att[active.sender]] = active.sender
        BY <2>2, OnAirType
      <3>2. CASE active.sender = i
        <4>1. active' = NoBurst BY <3>2, <2>2, <1>1 DEF Aborts
        <4>2. OnAir' = NoBurst BY <4>1 DEF OnAir
        <4> QED BY <3>1, <3>2, <1>2, <4>2
      <3>3. CASE active.sender # i
        <4>1. active' = active BY <3>3, <1>1 DEF Aborts
        <4>2. OnAir' = OnAir BY <4>1 DEF OnAir
        <4> QED BY <3>1, <3>3, <1>2, <4>2
      <3> QED BY <3>2, <3>3
    <2> QED BY <2>1, <2>2
  <1> QED BY <1>1, <1>2, <1>3, <1>4, <1>5, LeaveMap

\* An accepted character is the last its station has to send; a refused one and one
\* of a replaced node change nothing.
LEMMA EnqueueAppends ==
  ASSUME IInv, Known, NEW c \in calls, Enqueue(c)
  PROVE  \/ \A b \in Ids : Unsent(b)' = Unsent(b)
         \/ /\ Current(c.id) /\ c.id \in Ids /\ c.seq \in 1 .. MaxOffers
            /\ \A b \in Ids : Unsent(b)' =
                  IF b = c.id THEN Append(Unsent(b), [src |-> b, seq |-> c.seq]) ELSE Unsent(b)
  <1> DEFINE a == c.id
             i == home[a]
             e == [src |-> a, seq |-> c.seq]
             ready == InputStart(i, c.now) + UartByteUs
  <1>0. TypeOK BY DEF IInv
  <1>1. UNCHANGED <<att, home, nextId, rx, active, deferred, heard>>
    BY DEF Enqueue, station, egress, air
  <1>2. UNCHANGED tx \/ (Current(a) /\ Accept(c, i)) BY DEF Enqueue, ingress
  <1>3. /\ a \in Ids /\ i \in Stations /\ tx \in [Stations -> Seq(TimedByte)]
        /\ c.seq \in Nat \ {0} /\ c.now \in Nat /\ inputReady[i] \in Nat
    BY <1>0 DEF TypeOK
  <1>4. ASSUME NEW b \in Ids, UNCHANGED tx \/ b # a \/ ~Current(a)
        PROVE  Unsent(b)' = Unsent(b)
    <2>1. Current(b)' <=> Current(b) BY <1>1 DEF Current
    <2>2. home[b] \in Stations BY <1>0 DEF TypeOK
    <2>3. Current(b) => tx'[home[b]] = tx[home[b]]
      <3>1. CASE UNCHANGED tx BY <3>1
      <3>2. CASE ~UNCHANGED tx
        <4>1. Current(a) /\ tx' = [tx EXCEPT ![i] = Append(tx[i], [value |-> e, readyUs |-> ready])]
          BY <3>2, <1>2 DEF Accept
        <4>2. Current(b) => home[b] # i BY <4>1, <1>4, <3>2 DEF Current
        <4> QED BY <4>1, <4>2, <1>3, <2>2
      <3> QED BY <3>1, <3>2
    <2> QED BY <1>1, <2>1, <2>3, SameNode
  <1>5. CASE UNCHANGED tx BY <1>4, <1>5
  <1>6. CASE Current(a) /\ Accept(c, i)
    <2>1. tx' = [tx EXCEPT ![i] = Append(tx[i], [value |-> e, readyUs |-> ready])]
      BY <1>6 DEF Accept
    <2>2. c.seq \in 1 .. MaxOffers
      <3>1. c.seq = offered[a] /\ offered[a] <= MaxOffers BY <1>3 DEF Known, CallsIssued
      <3> QED BY <3>1, <1>3, BoundAssumption
    <2>3. e \in Byte BY <1>3 DEF Byte
    <2>4. ready \in Nat BY <1>3, UartByteUsNat DEF InputStart, Later
    <2>5. Unsent(a)' = Append(Unsent(a), e)
      <3> DEFINE t == [value |-> e, readyUs |-> ready]
                 on == IF active # NoBurst /\ active.sender = i THEN active.bytes ELSE <<>>
      <3>1. t \in TimedByte BY <2>3, <2>4 DEF TimedByte
      <3>2. tx[i] \in Seq(TimedByte) /\ tx'[i] = Append(tx[i], t) BY <1>3, <2>1
      <3>3. t.value = e OBVIOUS
      <3>4. on \in Seq(Byte)
        <4>1. active # NoBurst => active.bytes \in Seq(Byte) BY <1>0, BurstType
        <4> QED BY <4>1, EmptySeq
      <3>5. Unsent(a) = on \o Values(tx[i]) BY <1>6 DEF Unsent, Current
      <3>6. Unsent(a)' = on \o Values(tx'[i]) BY <1>1, <1>6 DEF Unsent, Current
      <3> HIDE DEF t, on, e, i
      <3>7. Values(tx'[i]) = Append(Values(tx[i]), e) BY <3>1, <3>2, <3>3, ValuesAppend
      <3>8. Values(tx[i]) \in Seq(Byte) BY <3>2, ValuesType
      <3>9. on \o Append(Values(tx[i]), e) = Append(on \o Values(tx[i]), e)
        <4>1. <<e>> \in Seq(Byte) BY <2>3
        <4>2. Append(Values(tx[i]), e) = Values(tx[i]) \o <<e>> BY <3>8, <2>3, AppendIsConcat
        <4>3. on \o Values(tx[i]) \in Seq(Byte) BY <3>4, <3>8, ConcatProperties
        <4>4. Append(on \o Values(tx[i]), e) = (on \o Values(tx[i])) \o <<e>>
          BY <4>3, <2>3, AppendIsConcat
        <4> QED BY <4>1, <4>2, <4>4, <3>4, <3>8, ConcatAssociative
      <3> QED BY <3>5, <3>6, <3>7, <3>9
    <2> QED BY <1>3, <1>4, <1>6, <2>2, <2>5
  <1> QED BY <1>2, <1>5, <1>6

LEMMA EnqueueMaps ==
  ASSUME IInv, Known, NEW c \in calls, Enqueue(c)
  PROVE  Abstract!Next \/ UNCHANGED Abstract!abstractVars
  <1>1. UNCHANGED <<att, home, nextId, rx, active, deferred, heard>>
    BY DEF Enqueue, station, egress, air
  <1>2. Attached' = Attached /\ OnAir' = OnAir BY <1>1 DEF Attached, OnAir
  <1>3. \A b \in Ids : Inbox(b)' = Inbox(b) BY <1>1 DEF Inbox
  <1>4. CASE \A b \in Ids : Unsent(b)' = Unsent(b) BY <1>1, <1>2, <1>3, <1>4, StutterMap
  <1>5. CASE /\ Current(c.id) /\ c.id \in Ids /\ c.seq \in 1 .. MaxOffers
             /\ \A b \in Ids : Unsent(b)' =
                   IF b = c.id THEN Append(Unsent(b), [src |-> b, seq |-> c.seq]) ELSE Unsent(b)
    <2>1. c.id \in Attached BY <1>5, Mapped
    <2> QED BY <1>1, <1>2, <1>3, <1>5, <2>1, WriteMap
  <1> QED BY <1>4, <1>5, EnqueueAppends

LEMMA DeliverMaps ==
  ASSUME IInv, Known, NEW a \in Ids, Deliver(a)
  PROVE  Abstract!Next \/ UNCHANGED Abstract!abstractVars
  <1>0. TypeOK BY DEF IInv
  <1>1. /\ deferred[a] # <<>> /\ deferred' = [deferred EXCEPT ![a] = Tail(deferred[a])]
        /\ UNCHANGED <<att, home, nextId, tx, rx, active>>
    BY DEF Deliver, station, ingress, egress, air
  <1>2. \/ Current(a) /\ heard' = [heard EXCEPT ![a] = Append(heard[a], Head(deferred[a]))]
        \/ ~Current(a) /\ UNCHANGED heard
    BY DEF Deliver
  <1>3. Attached' = Attached /\ OnAir' = OnAir BY <1>1 DEF Attached, OnAir
  <1>4. \A b \in Ids : Unsent(b)' = Unsent(b) BY <1>1 DEF Unsent
  <1>5. \A b \in Ids : b # a => deferred'[b] = deferred[b] BY <1>0, <1>1 DEF TypeOK
  <1>6. ASSUME NEW b \in Ids, b # a \/ ~Current(a) PROVE Inbox(b)' = Inbox(b)
    BY <1>1, <1>5, <1>6 DEF Inbox, Current
  <1>7. CASE ~Current(a) BY <1>2, <1>7, <1>1, <1>3, <1>4, <1>6, StutterMap
  <1>8. CASE Current(a)
    <2> DEFINE v == Values(rx[home[a]])
    <2>1. deferred[a] \in Seq(Byte) /\ rx[home[a]] \in Seq(TimedByte) BY <1>0 DEF TypeOK
    <2>2. v \in Seq(Byte) BY <2>1, ValuesType
    <2>3. Inbox(a) = deferred[a] \o v BY <1>8 DEF Inbox, Current
    <2>4. Inbox(a)' = Tail(deferred[a]) \o v
      <3>1. deferred'[a] = Tail(deferred[a]) BY <1>0, <1>1 DEF TypeOK
      <3> QED BY <3>1, <1>1, <1>8 DEF Inbox, Current
    <2> HIDE DEF v
    <2>5. /\ deferred[a] \o v # <<>> /\ Head(deferred[a] \o v) = Head(deferred[a])
          /\ Tail(deferred[a] \o v) = Tail(deferred[a]) \o v
      BY <1>1, <2>1, <2>2, HeadTailConcat
    <2>6. \A b \in Ids : Inbox(b)' = IF b = a THEN Tail(Inbox(a)) ELSE Inbox(b)
      BY <1>6, <2>3, <2>4, <2>5
    <2>7. Inbox(a) # <<>> /\ heard' = [heard EXCEPT ![a] = Append(heard[a], Head(Inbox(a)))]
      BY <1>2, <1>8, <2>3, <2>5
    <2>8. a \in Attached BY <1>8, Mapped
    <2> QED BY <1>1, <1>3, <1>4, <2>6, <2>7, <2>8, HearMap
  <1> QED BY <1>7, <1>8

\* What is unsent changes when a burst ends, and only then.
LEMMA UnsentTick ==
  ASSUME IInv, Known, NEW now \in Nat, AirTick(now), UNCHANGED <<att, home>>, NEW a \in Ids
  PROVE  Unsent(a)' = IF active # NoBurst /\ ~Completes(now) THEN Unsent(a)
                      ELSE IF Current(a) THEN Values(tx[home[a]]) ELSE <<>>
  <1> DEFINE i == home[a]
             v == Values(tx[i])
  <1>1. i \in Stations /\ tx[i] \in Seq(TimedByte) BY DEF IInv, TypeOK
  <1>2. v \in Seq(Byte) BY <1>1, ValuesType
  <1>3. <<>> \o v = v BY <1>2, ConcatEmptySeq
  <1>4. Unsent(a)' = IF ~Current(a) THEN <<>>
                     ELSE (IF active' # NoBurst /\ active'.sender = i
                           THEN active'.bytes ELSE <<>>) \o Values(tx'[i])
    BY DEF Unsent, Current
  <1>5. CASE active' = active /\ ~Completes(now) /\ UNCHANGED tx
    <2>1. Unsent(a)' = Unsent(a) BY <1>5 DEF Unsent
    <2>2. CASE active # NoBurst BY <2>1, <2>2, <1>5
    <2>3. CASE active = NoBurst
      <3>1. active' = NoBurst /\ tx' = tx BY <2>3, <1>5
      <3> HIDE DEF v
      <3>2. Values(tx'[i]) = v BY <3>1 DEF v
      <3>3. Unsent(a)' = IF ~Current(a) THEN <<>> ELSE <<>> \o v
        BY <3>1, <3>2, <1>4
      <3> QED BY <3>3, <2>3, <1>3 DEF v
    <2> QED BY <2>2, <2>3
  <1>6. CASE active' = NoBurst /\ Completes(now) /\ UNCHANGED tx
    <2> HIDE DEF v
    <2>1. Values(tx'[i]) = v BY <1>6 DEF v
    <2>2. Unsent(a)' = IF ~Current(a) THEN <<>> ELSE <<>> \o v BY <2>1, <1>4, <1>6
    <2> QED BY <2>2, <1>3, <1>6 DEF v
  <1>7. ASSUME active = NoBurst \/ Completes(now),
               NEW j \in Stations, NEW n \in 1 .. MaxBurst, Starts(j, n, now)
        PROVE  Unsent(a)' = IF ~Current(a) THEN <<>> ELSE v
    <2> SUFFICES ASSUME Current(a) PROVE Unsent(a)' = v BY <1>4
    <2>1. /\ tx[j] \in Seq(TimedByte) /\ n \in Nat /\ n <= Len(tx[j])
          /\ active' # NoBurst /\ active'.sender = j
          /\ active'.bytes = Values(SubSeq(tx[j], 1, n))
          /\ tx'[j] = SubSeq(tx[j], n + 1, Len(tx[j]))
          /\ \A k \in Stations : k # j => tx'[k] = tx[k]
      BY <1>7, StartsType
    <2>2. CASE j = i
      <3>1. n \in 0 .. Len(tx[i])
        <4>1. Len(tx[i]) \in Nat BY <1>1, LenProperties
        <4> QED BY <4>1, <2>1, <2>2
      <3>2. Values(SubSeq(tx[i], 1, n)) \o Values(SubSeq(tx[i], n + 1, Len(tx[i]))) = v
        BY <3>1, <1>1, ValuesSplit
      <3> QED BY <3>2, <2>1, <2>2, <1>4
    <2>3. CASE j # i
      <3>1. tx'[i] = tx[i] BY <2>1, <2>3, <1>1
      <3>2. Unsent(a)' = <<>> \o v BY <3>1, <2>1, <2>3, <1>4
      <3> QED BY <3>2, <1>3
    <2> QED BY <2>2, <2>3
  <1>8. ASSUME active = NoBurst \/ Completes(now),
               \E j \in Stations, n \in 1 .. MaxBurst : Starts(j, n, now)
        PROVE  Unsent(a)' = IF ~Current(a) THEN <<>> ELSE v
    BY <1>7, <1>8
  <1> QED BY <1>5, <1>6, <1>8 DEF AirTick

\* A sender loses its burst when the burst has been sent; nobody else loses anything.
LEMMA UnsentStep ==
  ASSUME IInv, Known, NEW now \in Nat, AirTick(now), UNCHANGED <<att, home>>
  PROVE  /\ Completes(now) =>
              LET s == att[active.sender]
              IN  /\ s \in Ids /\ Current(s) /\ home[s] = active.sender
                  /\ active.bytes \in Seq(Byte)
                  /\ Values(tx[active.sender]) \in Seq(Byte)
                  /\ Unsent(s) = active.bytes \o Values(tx[active.sender])
         /\ \A b \in Ids : Unsent(b)' = IF Completes(now) /\ b = att[active.sender]
                                        THEN Values(tx[active.sender]) ELSE Unsent(b)
  <1> DEFINE s == att[active.sender]
  <1>1. ASSUME Completes(now)
        PROVE  /\ s \in Ids /\ Current(s) /\ home[s] = active.sender
               /\ active.bytes \in Seq(Byte)
               /\ Values(tx[active.sender]) \in Seq(Byte)
               /\ Unsent(s) = active.bytes \o Values(tx[active.sender])
    <2>1. active # NoBurst BY <1>1 DEF Completes
    <2>2. s \in Ids /\ s \in Attached /\ home[s] = active.sender /\ active.sender \in Stations
      BY <2>1, OnAirType
    <2>3. tx[active.sender] \in Seq(TimedByte) BY <2>2 DEF IInv, TypeOK
    <2>4. Current(s) /\ Unsent(s) = active.bytes \o Values(tx[active.sender])
      BY <2>1, <2>2, Mapped DEF Unsent, Current
    <2> QED BY <2>1, <2>2, <2>3, <2>4, ValuesType, BurstType DEF IInv
  <1>2. ASSUME NEW b \in Ids
        PROVE  Unsent(b)' = IF Completes(now) /\ b = s
                            THEN Values(tx[active.sender]) ELSE Unsent(b)
    <2>1. Unsent(b)' = IF active # NoBurst /\ ~Completes(now) THEN Unsent(b)
                       ELSE IF Current(b) THEN Values(tx[home[b]]) ELSE <<>>
      BY UnsentTick
    <2>2. CASE active # NoBurst /\ ~Completes(now) BY <2>1, <2>2
    <2>3. CASE Completes(now) /\ b = s
      <3>1. active # NoBurst BY <2>3 DEF Completes
      <3> HIDE DEF s
      <3> QED BY <2>1, <2>3, <1>1
    <2>4. CASE ~(active # NoBurst /\ ~Completes(now)) /\ ~(Completes(now) /\ b = s)
      <3>1. Current(b) => active = NoBurst \/ home[b] # active.sender
        BY <2>4 DEF Current
      <3>2. Unsent(b) = IF Current(b) THEN <<>> \o Values(tx[home[b]]) ELSE <<>>
        BY <3>1 DEF Unsent, Current
      <3>3. tx[home[b]] \in Seq(TimedByte) BY DEF IInv, TypeOK
      <3>4. Values(tx[home[b]]) \in Seq(Byte) BY <3>3, ValuesType
      <3>5. Unsent(b) = IF Current(b) THEN Values(tx[home[b]]) ELSE <<>>
        BY <3>2, <3>4, ConcatEmptySeq
      <3> HIDE DEF s
      <3> QED BY <3>5, <2>1, <2>4
    <2> QED BY <2>2, <2>3, <2>4
  <1> QED BY <1>1, <1>2

LEMMA BytesAssociative ==
  \A s, t, u \in Seq(Byte) : (s \o t) \o u = s \o (t \o u)
  BY ConcatAssociative

\* What is gained is a prefix of the burst that ends, appended to the inbox.
LEMMA InboxTick ==
  ASSUME IInv, Known, RxBounded, NEW now \in Nat, Receive(now), UNCHANGED <<att, home>>,
         NEW a \in Ids
  PROVE  Inbox(a)' = IF Current(a) /\ Heard(home[a], now)
                     THEN Inbox(a) \o SubSeq(active.bytes, 1, Fits(home[a]))
                     ELSE Inbox(a)
  <1> DEFINE i == home[a]
             q == RxFilled(i, now)
             d == DueCount(q, now)
             out == Values(SubSeq(q, 1, d))
             left == Values(SubSeq(q, d + 1, Len(q)))
  <1>0. TypeOK BY DEF IInv
  <1>1. i \in Stations /\ rx[i] \in Seq(TimedByte) /\ deferred[a] \in Seq(Byte)
    BY <1>0 DEF TypeOK
  <1>2. CASE ~Current(a) BY <1>2 DEF Inbox, Current
  <1>3. CASE Current(a)
    <2>1. /\ q \in Seq(TimedByte) /\ d \in 0 .. Len(q)
          /\ rx'[i] = SubSeq(q, d + 1, Len(q)) /\ rx'[i] \in Seq(TimedByte)
      BY <1>0, <1>1, RxTick
    <2>2. deferred'[a] = deferred[a] \o out /\ out \in Seq(Byte)
      BY <1>0, <1>3, DeferredTick
    <2>3. left \in Seq(Byte) BY <2>1, ValuesType
    <2>4. Inbox(a)' = (deferred[a] \o out) \o left BY <2>1, <2>2, <1>3 DEF Inbox, Current
    <2>5. Inbox(a) = deferred[a] \o Values(rx[i]) BY <1>3 DEF Inbox, Current
    <2>6. out \o left = Values(q)
      <3> HIDE DEF q, d
      <3> QED BY <2>1, ValuesSplit
    <2>7. (deferred[a] \o out) \o left = deferred[a] \o Values(q)
      <3> HIDE DEF out, left, q, d
      <3>1. deferred[a] \in Seq(Byte) /\ out \in Seq(Byte) /\ left \in Seq(Byte)
        BY <1>1, <2>2, <2>3
      <3>2. (deferred[a] \o out) \o left = deferred[a] \o (out \o left)
        BY <3>1, BytesAssociative
      <3> QED BY <3>2, <2>6
    <2>8. CASE ~Heard(i, now)
      <3>1. q = rx[i] BY <2>8 DEF RxFilled
      <3> QED BY <3>1, <2>4, <2>5, <2>7, <2>8
    <2>9. CASE Heard(i, now)
      <3> DEFINE gain == [k \in 1 .. Fits(i) |->
                            [value |-> active.bytes[k], readyUs |-> ReadyAt(i, k)]]
                 part == SubSeq(active.bytes, 1, Fits(i))
      <3>1. /\ q = rx[i] \o gain /\ gain \in Seq(TimedByte) /\ Values(gain) = part
        BY <2>9, <1>0, <1>1, RxFilledParts
      <3> HIDE DEF q, d, gain, part, out, left
      <3>2. Values(q) = Values(rx[i]) \o part
        <4>1. Values(rx[i] \o gain) = Values(rx[i]) \o Values(gain)
          BY <3>1, <1>1, ValuesConcat
        <4> QED BY <4>1, <3>1
      <3>3. Values(rx[i]) \in Seq(Byte) /\ part \in Seq(Byte)
        <4>1. Values(rx[i]) \in Seq(Byte) BY <1>1, ValuesType
        <4>2. Values(gain) \in Seq(Byte) BY <3>1, ValuesType
        <4> QED BY <4>1, <4>2, <3>1
      <3>4. deferred[a] \o (Values(rx[i]) \o part) = (deferred[a] \o Values(rx[i])) \o part
        BY <3>3, <1>1, BytesAssociative
      <3>5. Inbox(a)' = Inbox(a) \o part BY <3>2, <3>4, <2>4, <2>5, <2>7
      <3> QED BY <3>5, <2>9, <1>3 DEF part
    <2> QED BY <2>8, <2>9
  <1> QED BY <1>2, <1>3

\* A burst put on the air is one RadioBroadcast may start.
LEMMA StartsMaps ==
  ASSUME IInv, Known, NEW now \in Nat, NEW i \in Stations, NEW n \in 1 .. MaxBurst,
         Starts(i, n, now)
  PROVE  LET a == att[i]
         IN  /\ a \in Attached /\ a \in Ids /\ Current(a) /\ home[a] = i
             /\ Values(tx[i]) # <<>> /\ n <= Len(Values(tx[i]))
             /\ OnAir' = [src |-> a, len |-> n, audience |-> Attached \ {a}]
  <1> DEFINE a == att[i]
  <1>1. a # 0 BY DEF Starts
  <1>2. a \in Attached /\ a \in Ids /\ home[a] = i BY <1>1, Mapped
  <1>3. Current(a) BY <1>2, Mapped
  <1>4. /\ tx[i] \in Seq(TimedByte) /\ n \in Nat /\ n <= Len(tx[i])
        /\ active' # NoBurst /\ active'.sender = i /\ active'.recipients = att
        /\ Len(active'.bytes) = n
    BY StartsType
  <1>5. Values(tx[i]) \in Seq(Byte) /\ Len(Values(tx[i])) = Len(tx[i]) BY <1>4, ValuesType
  <1>6. Values(tx[i]) # <<>>
    <2>1. n >= 1 /\ Len(tx[i]) \in Nat BY <1>4, ProfileAssumption, LenProperties
    <2> QED BY <2>1, <1>4, <1>5, EmptySeq
  <1>7. OnAir' = [src |-> a, len |-> n, audience |-> Attached \ {a}]
    <2>1. OnAir' = [src |-> a, len |-> n, audience |-> {att[j] : j \in Stations} \ {0, a}]
      BY <1>4 DEF OnAir
    <2>2. {att[j] : j \in Stations} \ {0, a} = Attached \ {a} BY DEF Attached
    <2> QED BY <2>1, <2>2
  <1> QED BY <1>2, <1>3, <1>4, <1>5, <1>6, <1>7

\* A burst ends, and the next one may begin in the same tick.
LEMMA FinishTick ==
  ASSUME IInv, Known, RxBounded, NEW now \in Nat, Receive(now), AirTick(now),
         UNCHANGED <<att, home, nextId, heard>>, Completes(now)
  PROVE  Abstract!Next
  <1> DEFINE n == Len(active.bytes)
             s == att[active.sender]
             fit(b) == IF Current(b) /\ Heard(home[b], now) THEN Fits(home[b]) ELSE 0
             gain == [b \in Ids |-> fit(b)]
  <1>1. active # NoBurst BY DEF Completes
  <1>2. /\ OnAir # NoBurst /\ OnAir.src = s /\ OnAir.len = n
        /\ OnAir.audience = {active.recipients[i] : i \in Stations} \ {0, s}
        /\ active.sender \in Stations /\ s \in Ids /\ s \in Attached
        /\ home[s] = active.sender /\ n \in Nat
    BY <1>1, OnAirType
  <1>3. active.bytes \in Seq(Byte) BY <1>1, BurstType DEF IInv
  <1>4. ASSUME NEW b \in Ids PROVE fit(b) \in 0 .. n
    <2>1. CASE Current(b) /\ Heard(home[b], now)
      <3>1. home[b] \in Stations BY DEF IInv, TypeOK
      <3>2. Fits(home[b]) \in Nat /\ Fits(home[b]) <= n BY <3>1, <1>1, FitsNat DEF IInv
      <3> HIDE DEF n
      <3> QED BY <2>1, <3>2, <1>2
    <2>2. CASE ~(Current(b) /\ Heard(home[b], now))
      <3> HIDE DEF n
      <3> QED BY <2>2, <1>2
    <2> QED BY <2>1, <2>2
  <1>5. gain \in [Ids -> 0 .. OnAir.len]
    <2> HIDE DEF fit, n
    <2> QED BY <1>2, <1>4
  <1> DEFINE v == Values(tx[active.sender])
  <1>6. Current(s) /\ Unsent(s) = active.bytes \o v /\ v \in Seq(Byte)
    BY UnsentStep
  <1>7. /\ SubSeq(Unsent(s), n + 1, Len(Unsent(s))) = v
         /\ \A m \in 0 .. n : SubSeq(Unsent(s), 1, m) = SubSeq(active.bytes, 1, m)
    <2>1. \A x, y \in Seq(Byte) : \A m \in 0 .. Len(x) :
             /\ SubSeq(x \o y, 1, m) = SubSeq(x, 1, m)
             /\ SubSeq(x \o y, Len(x) + 1, Len(x \o y)) = y
      BY ConcatParts
    <2>2. 0 \in 0 .. n BY <1>2
    <2>3. v \in Seq(Byte) /\ Unsent(s) = active.bytes \o v BY <1>6
    <2> HIDE DEF v, s
    <2>4. \A m \in 0 .. n : SubSeq(active.bytes \o v, 1, m) = SubSeq(active.bytes, 1, m)
      BY <2>1, <2>3, <1>3
    <2>5. SubSeq(active.bytes \o v, n + 1, Len(active.bytes \o v)) = v
      BY <2>1, <2>2, <2>3, <1>3
    <2> QED BY <2>3, <2>4, <2>5
  <1>8. ASSUME NEW b \in Ids
        PROVE  Unsent(b)' = IF b = s THEN SubSeq(Unsent(b), n + 1, Len(Unsent(b)))
                            ELSE Unsent(b)
    <2>1. Unsent(b)' = IF b = s THEN v ELSE Unsent(b) BY UnsentStep
    <2> HIDE DEF n, s, v
    <2> QED BY <2>1, <1>7
  <1>9. ASSUME NEW b \in Ids
        PROVE  Inbox(b)' = IF b \in OnAir.audience \cap Attached
                           THEN Inbox(b) \o SubSeq(Unsent(s), 1, gain[b]) ELSE Inbox(b)
    <2>1. Inbox(b)' = IF Current(b) /\ Heard(home[b], now)
                      THEN Inbox(b) \o SubSeq(active.bytes, 1, fit(b)) ELSE Inbox(b)
      BY InboxTick
    <2>2. SubSeq(Unsent(s), 1, fit(b)) = SubSeq(active.bytes, 1, fit(b))
      <3> HIDE DEF fit, n, s
      <3> QED BY <1>4, <1>7
    <2>3. gain[b] = fit(b) OBVIOUS
    <2>4. CASE Current(b) /\ Heard(home[b], now)
      <3> DEFINE i == home[b]
      <3>1. i \in Stations /\ b \in Attached /\ b # 0 /\ att[i] = b
        BY <2>4, Mapped, IdsNat DEF IInv, TypeOK, Current
      <3>2. active.recipients[i] = b /\ i # active.sender
        BY <2>4, <3>1 DEF Heard, Hears
      <3>3. b # s BY <3>2, <1>2
      <3>4. b \in OnAir.audience \cap Attached BY <1>2, <3>1, <3>2, <3>3
      <3> HIDE DEF fit, gain, s
      <3> QED BY <2>1, <2>2, <2>3, <2>4, <3>4
    <2>5. CASE ~(Current(b) /\ Heard(home[b], now))
      <3>1. fit(b) = 0 BY <2>5
      <3>2. SubSeq(active.bytes, 1, 0) = <<>> BY SubSeqEmpty
      <3>3. Inbox(b) \in Seq(Byte) BY Mapped
      <3>4. Inbox(b) \o SubSeq(Unsent(s), 1, gain[b]) = Inbox(b)
        <4> HIDE DEF fit, gain, s
        <4> QED BY <2>2, <2>3, <3>1, <3>2, <3>3, ConcatEmptySeq
      <3> HIDE DEF fit, gain, s
      <3> QED BY <2>1, <2>5, <3>4
    <2> QED BY <2>4, <2>5
  <1>10. \/ OnAir' = NoBurst
         \/ \E a \in Attached, m \in 1 .. MaxBurst :
               /\ a \in Ids /\ Unsent(a)' # <<>> /\ m <= Len(Unsent(a)')
               /\ OnAir' = [src |-> a, len |-> m, audience |-> Attached \ {a}]
    <2>1. CASE active' = NoBurst BY <2>1 DEF OnAir
    <2>2. ASSUME NEW i \in Stations, NEW m \in 1 .. MaxBurst, Starts(i, m, now)
          PROVE  \E a \in Attached, k \in 1 .. MaxBurst :
                    /\ a \in Ids /\ Unsent(a)' # <<>> /\ k <= Len(Unsent(a)')
                    /\ OnAir' = [src |-> a, len |-> k, audience |-> Attached \ {a}]
      <3>1. PICK a \in Attached :
               /\ a \in Ids /\ Current(a) /\ home[a] = i
               /\ Values(tx[i]) # <<>> /\ m <= Len(Values(tx[i]))
               /\ OnAir' = [src |-> a, len |-> m, audience |-> Attached \ {a}]
        BY <2>2, StartsMaps
      <3>2. Unsent(a)' = Values(tx[i]) BY <3>1, UnsentTick
      <3> QED BY <3>1, <3>2
    <2> QED BY <2>1, <2>2 DEF AirTick
  <1>11. Attached' = Attached BY DEF Attached
  <1> HIDE DEF gain, s, n
  <1>12. /\ \A b \in Ids : Unsent(b)' = IF b = OnAir.src
                THEN SubSeq(Unsent(b), OnAir.len + 1, Len(Unsent(b))) ELSE Unsent(b)
         /\ \A b \in Ids : Inbox(b)' = IF b \in OnAir.audience \cap Attached
                THEN Inbox(b) \o SubSeq(Unsent(OnAir.src), 1, gain[b]) ELSE Inbox(b)
    BY <1>2, <1>8, <1>9
  <1> QED BY <1>2, <1>5, <1>10, <1>11, <1>12, FinishMap

LEMMA TickMaps ==
  ASSUME IInv, Known, RxBounded, Tick
  PROVE  Abstract!Next \/ UNCHANGED Abstract!abstractVars
  <1> DEFINE now == clock + QuantumUs
  <1>1. /\ now \in Nat /\ Receive(now) /\ AirTick(now)
        /\ UNCHANGED <<att, home, nextId, heard>>
    BY TickAir
  <1> HIDE DEF now
  <1>2. CASE Completes(now) BY <1>1, <1>2, FinishTick
  <1>3. CASE ~Completes(now)
    <2>1. \A b \in Ids : Inbox(b)' = Inbox(b)
      <3>1. \A b \in Ids : ~Heard(home[b], now) BY <1>3 DEF Heard
      <3> QED BY <3>1, <1>1, InboxTick
    <2>2. Attached' = Attached BY <1>1 DEF Attached
    <2>3. CASE active' = active /\ UNCHANGED tx
      <3>1. OnAir' = OnAir BY <2>3 DEF OnAir
      <3>2. \A b \in Ids : Unsent(b)' = Unsent(b) BY <1>1, <2>3 DEF Unsent
      <3> QED BY <1>1, <2>1, <2>2, <3>1, <3>2, StutterMap
    <2>4. ASSUME active = NoBurst,
                 NEW i \in Stations, NEW n \in 1 .. MaxBurst, Starts(i, n, now)
          PROVE  Abstract!Next
      <3>1. PICK a \in Attached :
               /\ a \in Ids /\ Current(a) /\ home[a] = i
               /\ Values(tx[i]) # <<>> /\ n <= Len(Values(tx[i]))
               /\ OnAir' = [src |-> a, len |-> n, audience |-> Attached \ {a}]
        BY <1>1, <2>4, StartsMaps
      <3>2. Unsent(a)' = Values(tx[i]) BY <1>1, <2>4, <3>1, UnsentTick
      <3>3. \A b \in Ids : Unsent(b)' = Unsent(b) BY <1>1, <1>3, UnsentStep
      <3>4. Unsent(a) # <<>> /\ n <= Len(Unsent(a)) BY <3>1, <3>2, <3>3
      <3>5. OnAir = NoBurst BY <2>4 DEF OnAir
      <3> QED BY <1>1, <2>1, <2>2, <3>1, <3>3, <3>4, <3>5, StartMap
    <2> QED BY <1>1, <1>3, <2>3, <2>4 DEF AirTick
  <1> QED BY <1>2, <1>3

\* An empty medium is an empty broadcast.
LEMMA InitMaps == Init => Abstract!Init
  <1> SUFFICES ASSUME Init PROVE Abstract!Init OBVIOUS
  <1>1. IInv /\ Known BY InitInvariant, KnownInit
  <1>2. /\ nextId = 1 /\ att = [i \in Stations |-> 0] /\ active = NoBurst
        /\ heard = [a \in Ids |-> <<>>]
    BY DEF Init, InitAir, InitCallbacks
  <1>3. ASSUME NEW a \in Ids PROVE Unsent(a) = <<>> /\ Inbox(a) = <<>>
    <2>1. home[a] \in Stations /\ a # 0 BY <1>1, IdsNat DEF IInv, TypeOK
    <2> QED BY <2>1, <1>2 DEF Unsent, Inbox
  <1>4. Attached = {} BY <1>2 DEF Attached
  <1>5. OnAir = NoBurst BY <1>2 DEF OnAir
  <1>6. 1 .. nextId - 1 = {} BY <1>2
  <1> QED BY <1>2, <1>3, <1>4, <1>5, <1>6 DEF Abstract!Init

\* The medium implements the broadcast of RadioBroadcast, for every profile, number
\* of stations and bound: no step of Attach, DetachFrom, SetLink, Enqueue, Tick or a
\* deferred delivery does anything else (ImplementsBroadcast).
THEOREM BroadcastHolds == Spec => Abstract!Init /\ ImplementsBroadcast
  <1>1. IInv /\ Known /\ RxBounded /\ [Next]_vars => [Abstract!Next]_(Abstract!abstractVars)
    <2> SUFFICES ASSUME IInv, Known, RxBounded, [Next]_vars
                 PROVE  Abstract!Next \/ UNCHANGED Abstract!abstractVars
      OBVIOUS
    <2>1. ASSUME NEW i \in Stations, NEW u \in Uarts, Attach(i, u) PROVE Abstract!Next
      BY <2>1, AttachMaps
    <2>2. ASSUME NEW i \in Stations, DetachFrom(i) PROVE Abstract!Next
      BY <2>2, DetachMaps
    <2>3. ASSUME NEW c \in calls, Enqueue(c)
          PROVE  Abstract!Next \/ UNCHANGED Abstract!abstractVars
      BY <2>3, EnqueueMaps
    <2>4. CASE Tick BY <2>4, TickMaps
    <2>5. ASSUME NEW a \in Ids, Deliver(a)
          PROVE  Abstract!Next \/ UNCHANGED Abstract!abstractVars
      BY <2>5, DeliverMaps
    <2>6. CASE UNCHANGED <<station, tx, rx, active, deferred, heard>>
      <3>1. UNCHANGED <<att, home, nextId, tx, rx, active, deferred, heard>>
        BY <2>6 DEF station
      <3>2. Attached' = Attached /\ OnAir' = OnAir BY <3>1 DEF Attached, OnAir
      <3>3. \A a \in Ids : Unsent(a)' = Unsent(a) /\ Inbox(a)' = Inbox(a)
        BY <3>1 DEF Unsent, Inbox
      <3> QED BY <3>1, <3>2, <3>3, StutterMap
    <2> QED BY <2>1, <2>2, <2>3, <2>4, <2>5, <2>6
         DEF Next, SetLink, Offer, vars, ingress, egress, air
  <1> QED BY <1>1, InitMaps, KnownInvariance, ReceptionInvariance, PTL
       DEF Spec, ImplementsBroadcast

-----------------------------------------------------------------------------
(* Order.  The characters of one UART are numbered as it writes them; along   *)
(* every path to a listener the numbers rise, and nothing overtakes on the way.*)

Rising(q) ==
    \A m, n \in DOMAIN q : m < n /\ q[m].src = q[n].src => q[m].seq < q[n].seq

\* g is found in d, in the order of d.
Follows(g, d) ==
    /\ Range(g) \subseteq Range(d)
    /\ \A j, k \in DOMAIN g : j < k => Before(d, g[j], g[k])

LEMMA ConcatAt ==
  ASSUME NEW p \in Seq(Byte), NEW q \in Seq(Byte)
  PROVE  /\ p \o q \in Seq(Byte) /\ Len(p) \in Nat
         /\ DOMAIN p = 1 .. Len(p) /\ DOMAIN q = 1 .. Len(q)
         /\ \A k \in DOMAIN p : k \in DOMAIN (p \o q) /\ (p \o q)[k] = p[k] /\ k \in Nat
         /\ \A k \in DOMAIN q : /\ Len(p) + k \in DOMAIN (p \o q) /\ k \in Nat /\ k >= 1
                                /\ (p \o q)[Len(p) + k] = q[k]
         /\ \A k \in DOMAIN (p \o q) : \/ k \in DOMAIN p
                                       \/ k - Len(p) \in DOMAIN q /\ k = Len(p) + (k - Len(p))
  <1>1. /\ Len(p) \in Nat /\ Len(q) \in Nat
        /\ DOMAIN p = 1 .. Len(p) /\ DOMAIN q = 1 .. Len(q)
    BY LenProperties
  <1>2. /\ p \o q \in Seq(Byte) /\ Len(p \o q) = Len(p) + Len(q)
        /\ \A k \in 1 .. Len(p) + Len(q) :
              (p \o q)[k] = IF k <= Len(p) THEN p[k] ELSE q[k - Len(p)]
    BY ConcatProperties
  <1>3. DOMAIN (p \o q) = 1 .. Len(p) + Len(q) BY <1>2, LenProperties
  <1>4. ASSUME NEW k \in 1 .. Len(p)
        PROVE  k \in 1 .. Len(p) + Len(q) /\ (p \o q)[k] = p[k]
    <2>1. k \in 1 .. Len(p) + Len(q) /\ k <= Len(p) BY <1>1
    <2> QED BY <2>1, <1>2
  <1>5. ASSUME NEW k \in 1 .. Len(q)
        PROVE  /\ Len(p) + k \in 1 .. Len(p) + Len(q)
               /\ (p \o q)[Len(p) + k] = q[k]
    <2>1. /\ Len(p) + k \in 1 .. Len(p) + Len(q) /\ ~(Len(p) + k <= Len(p))
          /\ Len(p) + k - Len(p) = k
      BY <1>1
    <2> QED BY <2>1, <1>2
  <1>6. ASSUME NEW k \in 1 .. Len(p) + Len(q)
        PROVE  \/ k \in 1 .. Len(p)
               \/ k - Len(p) \in 1 .. Len(q) /\ k = Len(p) + (k - Len(p))
    BY <1>1
  <1> QED BY <1>1, <1>2, <1>3, <1>4, <1>5, <1>6

LEMMA RisingConcat ==
  ASSUME NEW p \in Seq(Byte), NEW q \in Seq(Byte), Rising(p), Rising(q),
         \A d \in Range(p), e \in Range(q) : d.src = e.src => d.seq < e.seq
  PROVE  Rising(p \o q)
  <1> SUFFICES ASSUME NEW m \in DOMAIN (p \o q), NEW n \in DOMAIN (p \o q), m < n,
                      (p \o q)[m].src = (p \o q)[n].src
               PROVE  (p \o q)[m].seq < (p \o q)[n].seq
    BY DEF Rising
  <1>1. Len(p) \in Nat /\ DOMAIN p = 1 .. Len(p) /\ DOMAIN q = 1 .. Len(q) BY ConcatAt
  <1>2. m \in Nat /\ n \in Nat
    <2>1. p \o q \in Seq(Byte) BY ConcatAt
    <2>2. DOMAIN (p \o q) = 1 .. Len(p \o q) BY <2>1, LenProperties
    <2> QED BY <2>2
  <1>3. CASE n \in DOMAIN p
    <2>1. m \in DOMAIN p BY <1>1, <1>2, <1>3, ConcatAt
    <2>2. (p \o q)[m] = p[m] /\ (p \o q)[n] = p[n] BY <2>1, <1>3, ConcatAt
    <2> QED BY <2>1, <2>2, <1>3 DEF Rising
  <1>4. CASE n \notin DOMAIN p
    <2> DEFINE k == n - Len(p)
    <2>1. k \in DOMAIN q /\ (p \o q)[n] = q[k]
      <3>1. k \in DOMAIN q /\ n = Len(p) + k BY <1>4, ConcatAt
      <3>2. (p \o q)[Len(p) + k] = q[k] BY <3>1, ConcatAt
      <3> QED BY <3>1, <3>2
    <2>2. CASE m \in DOMAIN p
      <3>1. (p \o q)[m] = p[m] BY <2>2, ConcatAt
      <3>2. p[m] \in Range(p) /\ q[k] \in Range(q) BY <2>1, <2>2 DEF Range
      <3> QED BY <3>1, <3>2, <2>1
    <2>3. CASE m \notin DOMAIN p
      <3> DEFINE j == m - Len(p)
      <3>1. j \in DOMAIN q /\ m = Len(p) + j BY <2>3, ConcatAt
      <3>2. (p \o q)[Len(p) + j] = q[j] BY <3>1, ConcatAt
      <3>3. j < k BY <1>1, <1>2
      <3> HIDE DEF j, k
      <3> QED BY <3>1, <3>2, <3>3, <2>1 DEF Rising
    <2> QED BY <2>2, <2>3
  <1> QED BY <1>3, <1>4

LEMMA RisingParts ==
  ASSUME NEW p \in Seq(Byte), NEW q \in Seq(Byte), Rising(p \o q)
  PROVE  /\ Rising(p) /\ Rising(q)
         /\ \A d \in Range(p), e \in Range(q) : d.src = e.src => d.seq < e.seq
  <1>1. Len(p) \in Nat /\ DOMAIN p = 1 .. Len(p) /\ DOMAIN q = 1 .. Len(q) BY ConcatAt
  <1>2. Rising(p) BY ConcatAt DEF Rising
  <1>3. Rising(q)
    <2> SUFFICES ASSUME NEW m \in DOMAIN q, NEW n \in DOMAIN q, m < n, q[m].src = q[n].src
                 PROVE  q[m].seq < q[n].seq
      BY DEF Rising
    <2>1. /\ Len(p) + m \in DOMAIN (p \o q) /\ (p \o q)[Len(p) + m] = q[m] /\ m \in Nat
          /\ Len(p) + n \in DOMAIN (p \o q) /\ (p \o q)[Len(p) + n] = q[n] /\ n \in Nat
      BY ConcatAt
    <2>2. Len(p) + m < Len(p) + n BY <1>1, <2>1
    <2> QED BY <2>1, <2>2 DEF Rising
  <1>4. ASSUME NEW d \in Range(p), NEW e \in Range(q), d.src = e.src PROVE d.seq < e.seq
    <2>1. PICK m \in DOMAIN p : d = p[m] BY DEF Range
    <2>2. PICK n \in DOMAIN q : e = q[n] BY DEF Range
    <2>3. /\ m \in DOMAIN (p \o q) /\ (p \o q)[m] = p[m] /\ m \in Nat
          /\ Len(p) + n \in DOMAIN (p \o q) /\ (p \o q)[Len(p) + n] = q[n]
          /\ n \in Nat /\ n >= 1
      BY ConcatAt
    <2>4. m < Len(p) + n BY <1>1, <2>3
    <2> QED BY <2>1, <2>2, <2>3, <2>4, <1>4 DEF Rising
  <1> QED BY <1>2, <1>3, <1>4

LEMMA EmptyRange == Range(<<>>) = {} /\ Rising(<<>>) /\ \A d : Follows(<<>>, d)
  <1>1. DOMAIN <<>> = {} OBVIOUS
  <1> QED BY <1>1 DEF Range, Rising, Follows

\* What follows d still does when both grow by a common start.
LEMMA FollowsGrow ==
  ASSUME NEW g \in Seq(Byte), NEW d \in Seq(Byte), Follows(g, d),
         NEW b \in Seq(Byte), NEW n \in 0 .. Len(b)
  PROVE  Follows(g \o SubSeq(b, 1, n), d \o b)
  <1> DEFINE p == SubSeq(b, 1, n)
             h == g \o p
             e == d \o b
  <1>1. Len(b) \in Nat /\ n \in Nat /\ n <= Len(b) /\ DOMAIN b = 1 .. Len(b)
    BY LenProperties
  <1>2. p \in Seq(Byte) /\ Len(p) = n
    <2>1. p \in Seq(Byte) /\ Len(p) = IF 1 <= n THEN n - 1 + 1 ELSE 0 BY <1>1, PartOfSeq
    <2>2. (IF 1 <= n THEN n - 1 + 1 ELSE 0) = n BY <1>1
    <2> QED BY <2>1, <2>2
  <1>3. DOMAIN p = 1 .. n /\ \A k \in DOMAIN p : k \in DOMAIN b /\ p[k] = b[k]
    <2>1. DOMAIN p = 1 .. n BY <1>2, LenProperties
    <2>2. \A k \in 1 .. n : b[k] \in Byte
      <3> TAKE k \in 1 .. n
      <3>1. k \in 1 .. Len(b) BY <1>1
      <3> QED BY <3>1, ElementOfSeq
    <2>3. \A k \in 1 .. n - 1 + 1 : p[k] = b[1 + k - 1] BY <1>1, <2>2, SubSeqProperties
    <2>4. \A k \in 1 .. n : k \in 1 .. n - 1 + 1 /\ 1 + k - 1 = k /\ k \in DOMAIN b BY <1>1
    <2> QED BY <2>1, <2>3, <2>4
  <1> HIDE DEF p
  <1>4. Range(h) \subseteq Range(e)
    <2>1. Range(h) = Range(g) \cup Range(p) /\ Range(e) = Range(d) \cup Range(b)
      BY <1>2, RangeConcatenation
    <2>2. Range(p) \subseteq Range(b) BY <1>3 DEF Range
    <2> QED BY <2>1, <2>2 DEF Follows
  <1>5. ASSUME NEW j \in DOMAIN h, NEW k \in DOMAIN h, j < k PROVE Before(e, h[j], h[k])
    <2>1. Len(g) \in Nat /\ Len(d) \in Nat /\ DOMAIN g = 1 .. Len(g) /\ DOMAIN d = 1 .. Len(d)
      BY <1>2, ConcatAt
    <2>2. j \in Nat /\ k \in Nat
      <3>1. h \in Seq(Byte) BY <1>2, ConcatAt
      <3>2. DOMAIN h = 1 .. Len(h) BY <3>1, LenProperties
      <3> QED BY <3>2
    <2>3. CASE k \in DOMAIN g
      <3>1. j \in DOMAIN g BY <2>1, <2>2, <2>3, <1>5, <1>2, ConcatAt
      <3>2. h[j] = g[j] /\ h[k] = g[k] BY <3>1, <2>3, <1>2, ConcatAt
      <3>3. Before(d, g[j], g[k]) BY <3>1, <2>3, <1>5 DEF Follows
      <3>4. PICK x, y \in DOMAIN d : x < y /\ d[x] = g[j] /\ d[y] = g[k]
        BY <3>3 DEF Before
      <3>5. x \in DOMAIN e /\ e[x] = d[x] /\ y \in DOMAIN e /\ e[y] = d[y] BY ConcatAt
      <3> QED BY <3>2, <3>4, <3>5 DEF Before
    <2>4. CASE k \notin DOMAIN g
      <3> DEFINE y == k - Len(g)
      <3>1. y \in DOMAIN p /\ k = Len(g) + y BY <2>4, <1>2, ConcatAt
      <3>2. h[k] = p[y]
        <4>1. h[Len(g) + y] = p[y] BY <3>1, <1>2, ConcatAt
        <4> QED BY <4>1, <3>1
      <3>3. y \in DOMAIN b /\ p[y] = b[y] BY <3>1, <1>3
      <3>4. /\ Len(d) + y \in DOMAIN e /\ e[Len(d) + y] = b[y] /\ y \in Nat /\ y >= 1
        BY <3>3, ConcatAt
      <3>5. CASE j \in DOMAIN g
        <4>1. h[j] = g[j] /\ g[j] \in Range(d)
          BY <3>5, <1>2, ConcatAt DEF Follows, Range
        <4>2. PICK x \in DOMAIN d : d[x] = g[j] BY <4>1 DEF Range
        <4>3. x \in DOMAIN e /\ e[x] = d[x] BY ConcatAt
        <4>4. x < Len(d) + y BY <2>1, <3>4
        <4> HIDE DEF y
        <4> QED BY <3>2, <3>3, <3>4, <4>1, <4>2, <4>3, <4>4 DEF Before
      <3>6. CASE j \notin DOMAIN g
        <4> DEFINE x == j - Len(g)
        <4>1. x \in DOMAIN p /\ j = Len(g) + x BY <3>6, <1>2, ConcatAt
        <4>2. h[j] = p[x]
          <5>1. h[Len(g) + x] = p[x] BY <4>1, <1>2, ConcatAt
          <5> QED BY <5>1, <4>1
        <4>3. x \in DOMAIN b /\ p[x] = b[x] BY <4>1, <1>3
        <4>4. Len(d) + x \in DOMAIN e /\ e[Len(d) + x] = b[x] /\ x \in Nat
          BY <4>3, ConcatAt
        <4>5. Len(d) + x < Len(d) + y BY <2>1, <2>2, <1>5
        <4> HIDE DEF x, y
        <4> QED BY <3>2, <3>3, <3>4, <4>2, <4>3, <4>4, <4>5 DEF Before
      <3> QED BY <3>5, <3>6
    <2> QED BY <2>3, <2>4
  <1> QED BY <1>4, <1>5 DEF Follows, p

\* What follows d still does when d grows, and when its end is lost.
LEMMA FollowsLonger ==
  ASSUME NEW g \in Seq(Byte), NEW d \in Seq(Byte), Follows(g, d), NEW b \in Seq(Byte)
  PROVE  Follows(g, d \o b)
  <1>1. 0 \in 0 .. Len(b) BY LenProperties
  <1>2. Follows(g \o SubSeq(b, 1, 0), d \o b) BY <1>1, FollowsGrow
  <1>3. SubSeq(b, 1, 0) = <<>> BY SubSeqEmpty
  <1>4. g \o <<>> = g BY ConcatEmptySeq
  <1> QED BY <1>2, <1>3, <1>4

LEMMA FollowsStart ==
  ASSUME NEW g \in Seq(Byte), NEW v \in Seq(Byte), NEW d, Follows(g \o v, d)
  PROVE  Follows(g, d)
  <1>1. Range(g) \subseteq Range(g \o v) BY RangeConcatenation
  <1>2. \A k \in DOMAIN g : k \in DOMAIN (g \o v) /\ (g \o v)[k] = g[k] BY ConcatAt
  <1> QED BY <1>1, <1>2 DEF Follows

\* What follows d still does when one of its elements is lost.
LEMMA FollowsWithout ==
  ASSUME NEW g \in Seq(Byte), NEW q \in Seq(Byte), q # <<>>, NEW d, Follows(g \o q, d)
  PROVE  Follows(g \o Tail(q), d)
  <1> DEFINE t == Tail(q)
             old == g \o q
             h == g \o t
             at(k) == IF k \in DOMAIN g THEN k ELSE k + 1
  <1>1. /\ t \in Seq(Byte) /\ Len(t) = Len(q) - 1 /\ Len(q) \in Nat
        /\ \A k \in 1 .. Len(t) : t[k] = q[k + 1]
    BY HeadTailProperties, LenProperties
  <1>2. \A k \in DOMAIN t : k \in Nat /\ k + 1 \in DOMAIN q /\ t[k] = q[k + 1]
    <2>1. DOMAIN t = 1 .. Len(t) /\ DOMAIN q = 1 .. Len(q) BY <1>1, LenProperties
    <2> HIDE DEF t
    <2> QED BY <2>1, <1>1
  <1> HIDE DEF t
  <1>3. Len(g) \in Nat /\ DOMAIN g = 1 .. Len(g) BY LenProperties
  <1>4. ASSUME NEW k \in DOMAIN h PROVE at(k) \in DOMAIN old /\ h[k] = old[at(k)]
    <2>1. CASE k \in DOMAIN g
      <3>1. h[k] = g[k] BY <2>1, <1>1, ConcatAt
      <3>2. k \in DOMAIN old /\ old[k] = g[k] BY <2>1, ConcatAt
      <3> QED BY <3>1, <3>2, <2>1
    <2>2. CASE k \notin DOMAIN g
      <3> DEFINE j == k - Len(g)
      <3>1. j \in DOMAIN t /\ k = Len(g) + j BY <2>2, <1>1, ConcatAt
      <3>2. h[Len(g) + j] = t[j] BY <3>1, <1>1, ConcatAt
      <3>3. j \in Nat /\ j + 1 \in DOMAIN q /\ t[j] = q[j + 1] BY <3>1, <1>2
      <3>4. Len(g) + (j + 1) \in DOMAIN old /\ old[Len(g) + (j + 1)] = q[j + 1]
        BY <3>3, ConcatAt
      <3>5. at(k) = Len(g) + (j + 1)
        <4> HIDE DEF j
        <4> QED BY <3>1, <3>3, <2>2, <1>3
      <3> QED BY <3>1, <3>2, <3>3, <3>4, <3>5
    <2> QED BY <2>1, <2>2
  <1>5. ASSUME NEW j \in DOMAIN h, NEW k \in DOMAIN h, j < k PROVE at(j) < at(k)
    <2>1. j \in Nat /\ k \in Nat
      <3>1. h \in Seq(Byte) BY <1>1, ConcatAt
      <3>2. DOMAIN h = 1 .. Len(h) BY <3>1, LenProperties
      <3> QED BY <3>2
    <2>2. k \in DOMAIN g => j \in DOMAIN g BY <2>1, <1>1, <1>3, <1>5, ConcatAt
    <2> QED BY <2>1, <2>2, <1>5
  <1>6. Range(h) \subseteq Range(d)
    <2>1. \A k \in DOMAIN h : h[k] \in Range(old) BY <1>4 DEF Range
    <2> QED BY <2>1 DEF Range, Follows
  <1>7. ASSUME NEW j \in DOMAIN h, NEW k \in DOMAIN h, j < k PROVE Before(d, h[j], h[k])
    <2>1. /\ at(j) \in DOMAIN old /\ h[j] = old[at(j)]
          /\ at(k) \in DOMAIN old /\ h[k] = old[at(k)] /\ at(j) < at(k)
      BY <1>4, <1>5, <1>7
    <2> HIDE DEF at
    <2> QED BY <2>1 DEF Follows
  <1> QED BY <1>6, <1>7 DEF Follows, t

\* The character e is one its UART has written, and is not waiting for the lock.
Past(e) ==
    /\ e.seq <= offered[e.src]
    /\ \A c \in calls : c.id = e.src => e.seq < c.seq

\* What a station has to send is its own, in the order it was written.
Queued(s) ==
    /\ Rising(Unsent(s))
    /\ \A e \in Range(Unsent(s)) : e.src = s /\ Past(e)

\* What was aired to x came from others, in the order they wrote it, and ahead of
\* what they still have to send.
Aired(x) ==
    /\ Rising(due[x])
    /\ \A e \in Range(due[x]) :
         /\ e.src # x /\ Past(e)
         /\ \A u \in Range(Unsent(e.src)) : e.seq < u.seq

Ordered == \A a \in Ids : Queued(a) /\ Aired(a) /\ Follows(Got(a), due[a])

\* The parts of an attachment's history that are in its hands.
LEMMA GotParts ==
  ASSUME IInv, Known, NEW a \in Ids
  PROVE  /\ Current(a) => Got(a) = heard[a] \o Inbox(a)
         /\ ~Current(a) => Got(a) = heard[a] \o deferred[a]
         /\ heard[a] \in Seq(Byte) /\ deferred[a] \in Seq(Byte) /\ due[a] \in Seq(Byte)
         /\ Inbox(a) \in Seq(Byte) /\ Unsent(a) \in Seq(Byte) /\ Got(a) \in Seq(Byte)
  <1> DEFINE v == Values(rx[home[a]])
  <1>1. /\ heard[a] \in Seq(Byte) /\ deferred[a] \in Seq(Byte) /\ due[a] \in Seq(Byte)
        /\ rx[home[a]] \in Seq(TimedByte)
    BY DEF IInv, TypeOK
  <1>2. Inbox(a) \in Seq(Byte) /\ Unsent(a) \in Seq(Byte) BY Mapped
  <1>3. v \in Seq(Byte) BY <1>1, ValuesType
  <1>4. heard[a] \o deferred[a] \in Seq(Byte) BY <1>1, ConcatProperties
  <1>5. ASSUME Current(a) PROVE Got(a) = heard[a] \o Inbox(a)
    <2>1. Got(a) = (heard[a] \o deferred[a]) \o v BY <1>5 DEF Got, Current
    <2>2. Inbox(a) = deferred[a] \o v BY <1>5 DEF Inbox, Current
    <2> HIDE DEF v
    <2>3. (heard[a] \o deferred[a]) \o v = heard[a] \o (deferred[a] \o v)
      BY <1>1, <1>3, BytesAssociative
    <2> QED BY <2>1, <2>2, <2>3
  <1>6. ASSUME ~Current(a) PROVE Got(a) = heard[a] \o deferred[a]
    <2>1. Got(a) = (heard[a] \o deferred[a]) \o <<>> BY <1>6 DEF Got, Current
    <2> QED BY <2>1, <1>4, ConcatEmptySeq
  <1>7. heard[a] \o Inbox(a) \in Seq(Byte) BY <1>1, <1>2, ConcatProperties
  <1>8. Got(a) \in Seq(Byte) BY <1>4, <1>5, <1>6, <1>7
  <1> QED BY <1>1, <1>2, <1>5, <1>6, <1>8

\* A step that airs nothing and adds nothing to what is to be sent keeps the order
\* on the way in, provided that what was past stays past.
LEMMA QueuesKept ==
  ASSUME \A a \in Ids : Queued(a) /\ Aired(a),
         due \in [Ids -> Seq(Byte)], due' = due,
         \A e \in Byte : Past(e) => Past(e)',
         \A a \in Ids : /\ Unsent(a) \in Seq(Byte)
                        /\ Unsent(a)' = Unsent(a) \/ Unsent(a)' = <<>>
  PROVE  \A a \in Ids : Queued(a)' /\ Aired(a)'
  <1>1. ASSUME NEW s \in Ids PROVE Range(Unsent(s)') \subseteq Range(Unsent(s))
    <2>1. CASE Unsent(s)' = Unsent(s) BY <2>1
    <2>2. CASE Unsent(s)' = <<>> BY <2>2, EmptyRange
    <2> QED BY <2>1, <2>2
  <1>2. ASSUME NEW a \in Ids PROVE Queued(a)'
    <2>1. Rising(Unsent(a)')
      <3>1. CASE Unsent(a)' = Unsent(a)
        <4>1. Rising(Unsent(a)) BY DEF Queued
        <4> QED BY <3>1, <4>1
      <3>2. CASE Unsent(a)' = <<>> BY <3>2, EmptyRange
      <3> QED BY <3>1, <3>2
    <2>2. ASSUME NEW e \in Range(Unsent(a)') PROVE e.src = a /\ Past(e)'
      <3>1. e \in Range(Unsent(a)) BY <1>1
      <3>2. e \in Byte BY <3>1, RangeOfSeq
      <3> QED BY <3>1, <3>2 DEF Queued
    <2> QED BY <2>1, <2>2 DEF Queued
  <1>3. ASSUME NEW a \in Ids PROVE Aired(a)'
    <2>1. Rising(due'[a]) BY DEF Aired
    <2>2. ASSUME NEW e \in Range(due'[a])
          PROVE  /\ e.src # a /\ Past(e)'
                 /\ \A u \in Range(Unsent(e.src)') : e.seq < u.seq
      <3>1. e \in Range(due[a]) BY <2>2
      <3>2. e \in Byte BY <3>1, RangeOfSeq
      <3>3. e.src \in Ids BY <3>2 DEF Byte
      <3> QED BY <3>1, <3>2, <3>3, <1>1 DEF Aired
    <2> QED BY <2>1, <2>2 DEF Aired
  <1> QED BY <1>2, <1>3

LEMMA PastKept ==
  ASSUME offered' = offered, calls' \subseteq calls, NEW e \in Byte, Past(e)
  PROVE  Past(e)'
  BY DEF Past

\* The parts of what was got, in this state and in the next.
GotInParts ==
    \A a \in Ids :
        /\ Current(a) => Got(a) = heard[a] \o Inbox(a)
        /\ ~Current(a) => Got(a) = heard[a] \o deferred[a]
        /\ Got(a) \in Seq(Byte) /\ Inbox(a) \in Seq(Byte)

LEMMA GotNow == IInv /\ Known => GotInParts
  BY GotParts DEF GotInParts

LEMMA GotNext == IInv' /\ Known' => GotInParts'
  BY GotNow, PTL

LEMMA OrderedAttach ==
  ASSUME IInv, Known, Ordered, IInv', Known',
         NEW i \in Stations, NEW u \in Uarts, Attach(i, u)
  PROVE  Ordered'
  <1>0. TypeOK /\ Unborn BY DEF IInv, Known
  <1>1. /\ UNCHANGED <<due, heard, deferred, calls, offered>>
        /\ home' = [home EXCEPT ![nextId] = i] /\ att' = [att EXCEPT ![i] = nextId]
        /\ att[i] = 0
    BY DEF Attach
  <1>2. \A a \in Ids : Unsent(a)' = Unsent(a) /\ Inbox(a)' = Inbox(a) BY AttachKeeps
  <1>3. \A a \in Ids : Queued(a)' /\ Aired(a)'
    <2>1. \A a \in Ids : Queued(a) /\ Aired(a) BY DEF Ordered
    <2>2. \A e \in Byte : Past(e) => Past(e)' BY <1>1, PastKept
    <2>3. due \in [Ids -> Seq(Byte)] BY <1>0 DEF TypeOK
    <2> QED BY <1>1, <1>2, <2>1, <2>2, <2>3, GotParts, QueuesKept
  <1>4. ASSUME NEW a \in Ids PROVE Follows(Got(a)', due'[a])
    <2>1. Got(a)' = Got(a)
      <3>1. CASE Current(a)' /\ Current(a)
        BY <3>1, <1>1, <1>2, GotNow, GotNext DEF GotInParts
      <3>2. CASE ~Current(a)' /\ ~Current(a)
        BY <3>2, <1>1, <1>2, GotNow, GotNext DEF GotInParts
      <3>3. CASE a = nextId
        <4>1. heard[a] = <<>> /\ deferred[a] = <<>>
          BY <3>3, <1>0, IdsNat DEF Unborn
        <4>2. ~Current(a)
          <5>1. nextId < nextId \/ ~Current(a) BY <3>3, CurrentKnown
          <5> QED BY <5>1, <1>0, IdsNat
        <4>3. Inbox(a) = <<>> BY <4>2 DEF Inbox, Current
        <4>4. <<>> \o <<>> = <<>> BY EmptySeq, ConcatEmptySeq
        <4>5. Got(a) = <<>> BY <4>1, <4>2, <4>4, GotNow DEF GotInParts
        <4>6. Got(a)' = <<>>
          <5>1. heard'[a] = <<>> /\ deferred'[a] = <<>> /\ Inbox(a)' = <<>>
            BY <1>1, <1>2, <4>1, <4>3
          <5> QED BY <5>1, <4>4, GotNext DEF GotInParts
        <4> QED BY <4>5, <4>6
      <3>4. CASE a # nextId
        <4>1. home'[a] = home[a] /\ a # 0 /\ home[a] \in Stations
          BY <3>4, <1>0, <1>1, IdsNat DEF TypeOK
        <4>2. Current(a)' <=> Current(a) BY <3>4, <4>1, <1>0, <1>1 DEF Current, TypeOK
        <4> QED BY <4>2, <3>1, <3>2
      <3> QED BY <3>3, <3>4
    <2> QED BY <2>1, <1>1 DEF Ordered
  <1> QED BY <1>3, <1>4 DEF Ordered

LEMMA OrderedDetach ==
  ASSUME IInv, Known, Ordered, IInv', Known', NEW i \in Stations, DetachFrom(i)
  PROVE  Ordered'
  <1>0. TypeOK BY DEF IInv
  <1>1. /\ UNCHANGED <<due, heard, deferred, calls, offered, home>>
        /\ att' = [att EXCEPT ![i] = 0]
    BY DEF DetachFrom
  <1>2. \A a \in Ids : /\ Unsent(a)' = IF a = att[i] THEN <<>> ELSE Unsent(a)
                       /\ Inbox(a)' = IF a = att[i] THEN <<>> ELSE Inbox(a)
    BY DetachClears
  <1>3. \A a \in Ids : Queued(a)' /\ Aired(a)'
    <2>1. \A a \in Ids : Queued(a) /\ Aired(a) BY DEF Ordered
    <2>2. \A e \in Byte : Past(e) => Past(e)' BY <1>1, PastKept
    <2>3. due \in [Ids -> Seq(Byte)] BY <1>0 DEF TypeOK
    <2>4. \A a \in Ids : Unsent(a)' = Unsent(a) \/ Unsent(a)' = <<>> BY <1>2
    <2> QED BY <1>1, <2>1, <2>2, <2>3, <2>4, GotParts, QueuesKept
  <1>4. ASSUME NEW a \in Ids PROVE Follows(Got(a)', due'[a])
    <2>1. Follows(Got(a), due[a]) BY DEF Ordered
    <2>2. home[a] \in Stations /\ a # 0 BY <1>0, IdsNat DEF TypeOK
    <2>3. CASE Current(a) /\ a = att[i]
      <3> DEFINE g == heard[a] \o deferred[a]
                 v == Values(rx[home[a]])
      <3>1. home[a] = i BY <2>3, DetachClears
      <3>2. ~Current(a)' BY <3>1, <1>0, <1>1, <2>2 DEF Current, TypeOK
      <3>3. Got(a)' = g BY <3>2, <1>1, GotNext DEF GotInParts
      <3>4. Got(a) = g \o v BY <2>3 DEF Got, Current
      <3>5. heard[a] \in Seq(Byte) /\ deferred[a] \in Seq(Byte)
            /\ rx[home[a]] \in Seq(TimedByte)
        BY <1>0, <2>2 DEF TypeOK
      <3>6. g \in Seq(Byte) /\ v \in Seq(Byte) BY <3>5, ConcatProperties, ValuesType
      <3> HIDE DEF g, v
      <3>7. Follows(g, due[a]) BY <3>4, <3>6, <2>1, FollowsStart
      <3> QED BY <3>3, <3>7, <1>1
    <2>4. CASE ~(Current(a) /\ a = att[i])
      <3>1. Current(a)' <=> Current(a)
        BY <2>2, <2>4, <1>0, <1>1 DEF Current, TypeOK
      <3>2. Current(a) => Inbox(a)' = Inbox(a) BY <2>4, <1>2
      <3>3. Got(a)' = Got(a)
        <4>1. CASE Current(a) BY <4>1, <3>1, <3>2, <1>1, GotNow, GotNext DEF GotInParts
        <4>2. CASE ~Current(a) BY <4>2, <3>1, <1>1, GotNow, GotNext DEF GotInParts
        <4> QED BY <4>1, <4>2
      <3> QED BY <3>3, <2>1, <1>1
    <2> QED BY <2>3, <2>4
  <1> QED BY <1>3, <1>4 DEF Ordered

LEMMA OrderedOffer ==
  ASSUME IInv, Known, Ordered, NEW b \in Ids, Offer(b)
  PROVE  Ordered'
  <1>0. TypeOK BY DEF IInv
  <1>1. /\ \A c \in calls : c.id # b
        /\ offered' = [offered EXCEPT ![b] = offered[b] + 1]
        /\ calls' = calls \cup {[id |-> b, seq |-> offered[b] + 1, now |-> clock]}
        /\ UNCHANGED <<att, home, tx, rx, active, deferred, heard, due>>
    BY DEF Offer, station, ingress, egress, air
  <1>2. ASSUME NEW e \in Byte, Past(e) PROVE Past(e)'
    <2>1. /\ offered \in [Ids -> Nat] /\ e.src \in Ids /\ e.seq \in Nat
      BY <1>0 DEF TypeOK, Byte
    <2>2. e.seq <= offered[e.src] /\ \A c \in calls : c.id = e.src => e.seq < c.seq
      BY <1>2 DEF Past
    <2>3. e.seq <= offered'[e.src]
      <3>1. offered[e.src] \in Nat /\ offered[b] \in Nat BY <2>1
      <3>2. CASE e.src = b
        <4>1. offered'[e.src] = offered[e.src] + 1 BY <3>2, <1>1, <2>1
        <4> QED BY <4>1, <2>1, <2>2, <3>1
      <3>3. CASE e.src # b
        <4>1. offered'[e.src] = offered[e.src] BY <3>3, <1>1, <2>1
        <4> QED BY <4>1, <2>2
      <3> QED BY <3>2, <3>3
    <2>4. ASSUME NEW c \in calls', c.id = e.src PROVE e.seq < c.seq
      <3>1. CASE c \in calls BY <3>1, <2>2, <2>4
      <3>2. CASE c = [id |-> b, seq |-> offered[b] + 1, now |-> clock]
        <4>1. c.seq = offered[e.src] + 1 BY <3>2, <2>4
        <4>2. offered[e.src] \in Nat BY <2>1
        <4> QED BY <4>1, <4>2, <2>1, <2>2
      <3> QED BY <3>1, <3>2, <1>1
    <2> QED BY <2>3, <2>4 DEF Past
  <1>3. \A a \in Ids : Unsent(a)' = Unsent(a) /\ Got(a)' = Got(a)
    BY <1>1 DEF Unsent, Got
  <1>4. \A a \in Ids : Queued(a)' /\ Aired(a)'
    <2>1. \A a \in Ids : Queued(a) /\ Aired(a) BY DEF Ordered
    <2>2. due \in [Ids -> Seq(Byte)] BY <1>0 DEF TypeOK
    <2> QED BY <1>1, <1>2, <1>3, <2>1, <2>2, GotParts, QueuesKept
  <1> QED BY <1>1, <1>3, <1>4 DEF Ordered

LEMMA OrderedEnqueue ==
  ASSUME IInv, Known, Ordered, NEW c \in calls, Enqueue(c)
  PROVE  Ordered'
  <1>0. TypeOK BY DEF IInv
  <1>1. /\ calls' = calls \ {c}
        /\ UNCHANGED <<att, home, rx, offered, deferred, heard, due>>
    BY DEF Enqueue, station, egress
  <1>2. \A e \in Byte : Past(e) => Past(e)' BY <1>1, PastKept
  <1>3. \A a \in Ids : Got(a)' = Got(a) BY <1>1 DEF Got
  <1>4. \A a \in Ids : Queued(a) /\ Aired(a) BY DEF Ordered
  <1>5. due \in [Ids -> Seq(Byte)] BY <1>0 DEF TypeOK
  <1>6. CASE \A b \in Ids : Unsent(b)' = Unsent(b)
    <2>1. \A a \in Ids : Queued(a)' /\ Aired(a)'
      BY <1>1, <1>2, <1>4, <1>5, <1>6, GotParts, QueuesKept
    <2> QED BY <2>1, <1>1, <1>3 DEF Ordered
  <1>7. CASE /\ Current(c.id) /\ c.id \in Ids /\ c.seq \in 1 .. MaxOffers
             /\ \A b \in Ids : Unsent(b)' =
                   IF b = c.id THEN Append(Unsent(b), [src |-> b, seq |-> c.seq]) ELSE Unsent(b)
    <2> DEFINE a == c.id
               e0 == [src |-> a, seq |-> c.seq]
    <2>1. a \in Ids /\ c.seq \in Nat \ {0} BY <1>0 DEF TypeOK
    <2>2. e0 \in Byte /\ e0.src = a /\ e0.seq = c.seq BY <2>1 DEF Byte
    <2>3. Past(e0)'
      <3>1. c.seq = offered[a] /\ \A d \in calls : d.id = a => d = c
        BY DEF Known, CallsIssued
      <3>2. offered[a] \in Nat BY <1>0, <2>1 DEF TypeOK
      <3> HIDE DEF e0, a
      <3>3. e0.seq <= offered'[e0.src] BY <3>1, <3>2, <2>2, <1>1
      <3>4. \A d \in calls' : d.id # e0.src BY <3>1, <2>2, <1>1
      <3> QED BY <3>3, <3>4 DEF Past
    <2>4. Unsent(a) \in Seq(Byte) /\ <<e0>> \in Seq(Byte)
      <3>1. \A b \in Ids : Unsent(b) \in Seq(Byte) BY GotParts
      <3> HIDE DEF e0
      <3> QED BY <3>1, <2>1, <2>2
    <2>5. Unsent(a)' = Unsent(a) \o <<e0>>
      <3>1. Unsent(a)' = Append(Unsent(a), e0) BY <1>7
      <3> QED BY <3>1, <2>2, <2>4, AppendIsConcat
    <2>6. Range(<<e0>>) = {e0} /\ Rising(<<e0>>)
      <3>1. DOMAIN <<e0>> = {1} /\ <<e0>>[1] = e0 OBVIOUS
      <3> HIDE DEF e0
      <3>2. Range(<<e0>>) = {e0} BY <3>1 DEF Range
      <3>3. Rising(<<e0>>) BY <3>1 DEF Rising
      <3> QED BY <3>2, <3>3
    <2> HIDE DEF e0
    <2>7. Range(Unsent(a)') = Range(Unsent(a)) \cup {e0}
      <3>1. Range(Unsent(a) \o <<e0>>) = Range(Unsent(a)) \cup Range(<<e0>>)
        BY <2>4, RangeConcatenation
      <3> QED BY <3>1, <2>5, <2>6
    <2>8. \A d \in Range(Unsent(a)) : d \in Byte /\ d.src = a /\ Past(d) /\ d.seq < c.seq
      <3> TAKE d \in Range(Unsent(a))
      <3>1. d \in Byte BY <2>4, RangeOfSeq
      <3>2. d.src = a /\ Past(d) BY <1>4, <2>1 DEF Queued
      <3>3. d.seq < c.seq BY <3>2 DEF Past
      <3> QED BY <3>1, <3>2, <3>3
    <2>9. ASSUME NEW s \in Ids PROVE Queued(s)'
      <3>1. CASE s # a
        <4>1. Unsent(s)' = Unsent(s) BY <3>1, <1>7
        <4>2. \A d \in Range(Unsent(s)) : d \in Byte BY GotParts, RangeOfSeq
        <4> QED BY <4>1, <4>2, <1>2, <1>4 DEF Queued
      <3>2. CASE s = a
        <4>1. Rising(Unsent(a) \o <<e0>>)
          <5>1. Rising(Unsent(a)) BY <1>4, <2>1 DEF Queued
          <5> QED BY <5>1, <2>2, <2>4, <2>6, <2>8, RisingConcat
        <4>2. \A d \in Range(Unsent(a)') : d.src = a /\ Past(d)'
          BY <2>2, <2>3, <2>7, <2>8, <1>2
        <4> QED BY <3>2, <4>1, <4>2, <2>5 DEF Queued
      <3> QED BY <3>1, <3>2
    <2>10. ASSUME NEW x \in Ids PROVE Aired(x)'
      <3>1. Rising(due'[x]) BY <1>1, <1>4 DEF Aired
      <3>2. ASSUME NEW e \in Range(due'[x])
            PROVE  /\ e.src # x /\ Past(e)'
                   /\ \A u \in Range(Unsent(e.src)') : e.seq < u.seq
        <4>1. e \in Range(due[x]) BY <1>1, <3>2
        <4>2. e \in Byte /\ e.src \in Ids
          <5>1. due[x] \in Seq(Byte) BY <1>5
          <5>2. e \in Byte BY <5>1, <4>1, RangeOfSeq
          <5> QED BY <5>2 DEF Byte
        <4>3. /\ e.src # x /\ Past(e)
              /\ \A u \in Range(Unsent(e.src)) : e.seq < u.seq
          BY <4>1, <1>4 DEF Aired
        <4>4. CASE e.src # a
          <5>1. Unsent(e.src)' = Unsent(e.src) BY <4>2, <4>4, <1>7
          <5> QED BY <5>1, <4>2, <4>3, <1>2
        <4>5. CASE e.src = a
          <5>1. e.seq < e0.seq BY <4>3, <4>5, <2>2 DEF Past
          <5> QED BY <5>1, <4>2, <4>3, <4>5, <2>7, <1>2
        <4> QED BY <4>4, <4>5
      <3> QED BY <3>1, <3>2 DEF Aired
    <2> QED BY <2>9, <2>10, <1>1, <1>3 DEF Ordered
  <1> QED BY <1>6, <1>7, EnqueueAppends

\* A burst that ends is ahead of what its sender still has to send, and behind what
\* was aired before; nobody is due its own burst.
LEMMA QueuesTick ==
  ASSUME IInv, Known, Ordered, NEW now \in Nat, Receive(now), AirTick(now),
         UNCHANGED <<att, home, calls, offered>>
  PROVE  \A a \in Ids : Queued(a)' /\ Aired(a)'
  <1> DEFINE s == att[active.sender]
             v == Values(tx[active.sender])
  <1>0. TypeOK /\ due \in [Ids -> Seq(Byte)] BY DEF IInv, TypeOK
  <1>1. \A a \in Ids : Queued(a) /\ Aired(a) BY DEF Ordered
  <1>2. \A e \in Byte : Past(e) => Past(e)' BY PastKept
  <1>3. \A a \in Ids : Unsent(a) \in Seq(Byte) BY GotParts
  <1>4. \A a \in Ids : Unsent(a)' = IF Completes(now) /\ a = s THEN v ELSE Unsent(a)
    BY UnsentStep
  <1>5. due' = [a \in Ids |-> IF Completes(now) /\ a \in Audience
                              THEN due[a] \o active.bytes ELSE due[a]]
    BY DEF Receive
  <1>6. CASE ~Completes(now)
    <2>1. due' = due BY <1>0, <1>5, <1>6
    <2>2. \A a \in Ids : Unsent(a)' = Unsent(a) BY <1>4, <1>6
    <2> QED BY <1>0, <1>1, <1>2, <1>3, <2>1, <2>2, QueuesKept
  <1>7. CASE Completes(now)
    <2> DEFINE b == active.bytes
    <2>1. /\ s \in Ids /\ home[s] = active.sender /\ b \in Seq(Byte) /\ v \in Seq(Byte)
          /\ Unsent(s) = b \o v
      BY <1>7, UnsentStep
    <2> HIDE DEF b, s, v
    <2>2. Queued(s) BY <1>1, <2>1
    <2>3. Range(Unsent(s)) = Range(b) \cup Range(v) BY <2>1, RangeConcatenation
    <2>4. /\ Rising(b) /\ Rising(v)
          /\ \A d \in Range(b), e \in Range(v) : d.src = e.src => d.seq < e.seq
      BY <2>1, <2>2, RisingParts DEF Queued
    <2>5. \A d \in Range(Unsent(s)) : d \in Byte /\ d.src = s /\ Past(d)
      <3> TAKE d \in Range(Unsent(s))
      <3>1. Unsent(s) \in Seq(Byte) BY <1>3, <2>1
      <3>2. d \in Byte BY <3>1, RangeOfSeq
      <3> QED BY <3>2, <2>2 DEF Queued
    <2>6. \A a \in Ids : Range(Unsent(a)') \subseteq Range(Unsent(a))
      BY <1>4, <2>3
    <2>7. ASSUME NEW a \in Ids PROVE Queued(a)'
      <3>1. CASE a = s
        <4>1. Unsent(a)' = v BY <3>1, <1>4, <1>7
        <4>2. \A d \in Range(v) : d.src = a /\ Past(d)' BY <3>1, <2>3, <2>5, <1>2
        <4> QED BY <4>1, <4>2, <2>4 DEF Queued
      <3>2. CASE a # s
        <4>1. Unsent(a)' = Unsent(a) BY <3>2, <1>4
        <4>2. Unsent(a) \in Seq(Byte) BY <1>3
        <4>3. \A d \in Range(Unsent(a)) : d \in Byte BY <4>2, RangeOfSeq
        <4> QED BY <4>1, <4>3, <1>1, <1>2 DEF Queued
      <3> QED BY <3>1, <3>2
    <2>8. ASSUME NEW x \in Ids, x \in Audience PROVE x # s
      <3>1. active # NoBurst BY <1>7 DEF Completes
      <3>2. PICK j \in Stations \ {active.sender} : active.recipients[j] = x
        BY <2>8 DEF Audience
      <3>3. x # 0 BY IdsNat
      <3>4. home[x] = j BY <3>1, <3>2, <3>3 DEF Known, AirIssued
      <3> QED BY <3>2, <3>4, <2>1
    <2>9. ASSUME NEW x \in Ids PROVE Aired(x)'
      <3>1. due[x] \in Seq(Byte) BY <1>0
      <3>2. ASSUME NEW e \in Range(due[x])
            PROVE  /\ e \in Byte /\ e.src # x /\ Past(e)' /\ Past(e)
                   /\ \A u \in Range(Unsent(e.src)) : e.seq < u.seq
                   /\ \A u \in Range(Unsent(e.src)') : e.seq < u.seq
        <4>1. e \in Byte /\ e.src \in Ids
          <5>1. e \in Byte BY <3>1, <3>2, RangeOfSeq
          <5> QED BY <5>1 DEF Byte
        <4>2. e.src # x /\ Past(e) /\ \A u \in Range(Unsent(e.src)) : e.seq < u.seq
          BY <1>1, <3>2 DEF Aired
        <4> QED BY <4>1, <4>2, <2>6, <1>2
      <3>3. CASE x \notin Audience
        <4>1. due'[x] = due[x] BY <3>3, <1>5
        <4>2. Rising(due[x]) BY <1>1 DEF Aired
        <4> QED BY <4>1, <4>2, <3>2 DEF Aired
      <3>4. CASE x \in Audience
        <4>1. due'[x] = due[x] \o b BY <3>4, <1>5, <1>7 DEF b
        <4>2. Range(due'[x]) = Range(due[x]) \cup Range(b)
          BY <4>1, <3>1, <2>1, RangeConcatenation
        <4>3. \A d \in Range(due[x]), e \in Range(b) : d.src = e.src => d.seq < e.seq
          <5> TAKE d \in Range(due[x]), e \in Range(b)
          <5>1. e.src = s /\ e \in Range(Unsent(s)) BY <2>3, <2>5
          <5> QED BY <5>1, <3>2
        <4>4. Rising(due'[x])
          <5>1. Rising(due[x]) BY <1>1 DEF Aired
          <5> QED BY <5>1, <4>1, <4>3, <3>1, <2>1, <2>4, RisingConcat
        <4>5. ASSUME NEW e \in Range(b)
              PROVE  /\ e.src # x /\ Past(e)'
                     /\ \A u \in Range(Unsent(e.src)') : e.seq < u.seq
          <5>1. e \in Byte /\ e.src = s /\ Past(e) BY <2>3, <2>5, <4>5
          <5>2. x # s BY <2>8, <3>4
          <5>3. Unsent(e.src)' = v BY <5>1, <1>4, <1>7, <2>1
          <5>4. \A u \in Range(v) : u.src = s BY <2>3, <2>5
          <5> QED BY <5>1, <5>2, <5>3, <5>4, <2>4, <1>2
        <4> QED BY <4>2, <4>4, <4>5, <3>2 DEF Aired
      <3> QED BY <3>3, <3>4
    <2> QED BY <2>7, <2>9
  <1> QED BY <1>6, <1>7

LEMMA OrderedTick ==
  ASSUME IInv, Known, RxBounded, Ordered, IInv', Known', Tick
  PROVE  Ordered'
  <1> DEFINE now == clock + QuantumUs
  <1>0. TypeOK BY DEF IInv
  <1>1. /\ now \in Nat /\ Receive(now) /\ AirTick(now)
        /\ UNCHANGED <<att, home, calls, offered, heard>>
    BY TickAir
  <1> HIDE DEF now
  <1>2. \A a \in Ids : Queued(a)' /\ Aired(a)' BY <1>1, QueuesTick
  <1>3. ASSUME NEW a \in Ids PROVE Follows(Got(a)', due'[a])
    <2> DEFINE b == active.bytes
               i == home[a]
    <2>1. /\ Follows(Got(a), due[a]) /\ due[a] \in Seq(Byte)
          /\ Got(a) \in Seq(Byte) /\ heard[a] \in Seq(Byte) /\ Inbox(a) \in Seq(Byte)
      BY GotParts DEF Ordered
    <2>2. Current(a)' <=> Current(a) BY <1>1 DEF Current
    <2>3. i \in Stations BY <1>0 DEF TypeOK
    <2>4. Completes(now) => b \in Seq(Byte) BY <1>0, BurstType DEF Completes
    <2>5. \/ due'[a] = due[a]
          \/ Completes(now) /\ due'[a] = due[a] \o b
      BY <1>1 DEF Receive
    <2>6. CASE Current(a) /\ Heard(i, now)
      <3>1. Completes(now) /\ active # NoBurst BY <2>6 DEF Heard, Completes
      <3>2. due'[a] = due[a] \o b BY <2>6, <1>1, DueTick
      <3> DEFINE n == Fits(i)
                 p == SubSeq(b, 1, n)
      <3>3. n \in 0 .. Len(b)
        <4>1. n \in Nat /\ n <= Len(b) BY <3>1, <2>3, <1>0, FitsNat
        <4>2. Len(b) \in Nat BY <2>4, <3>1, LenProperties
        <4> QED BY <4>1, <4>2
      <3>4. Inbox(a)' = Inbox(a) \o p BY <2>6, <1>1, InboxTick
      <3>5. Got(a) = heard[a] \o Inbox(a) BY <2>6, GotParts
      <3>6. Got(a)' = heard[a] \o Inbox(a)' BY <2>2, <2>6, <1>1, GotNext DEF GotInParts
      <3> HIDE DEF b, n
      <3>7. p \in Seq(Byte)
        <4>1. n \in Nat /\ n <= Len(b)
          <5>1. Len(b) \in Nat BY <2>4, <3>1, LenProperties
          <5> QED BY <5>1, <3>3
        <4> QED BY <4>1, <2>4, <3>1, PartOfSeq
      <3>8. Follows(Got(a) \o p, due[a] \o b) BY <2>1, <2>4, <3>1, <3>3, FollowsGrow
      <3> HIDE DEF p
      <3>9. Got(a)' = Got(a) \o p
        <4>1. (heard[a] \o Inbox(a)) \o p = heard[a] \o (Inbox(a) \o p)
          BY <2>1, <3>7, BytesAssociative
        <4> QED BY <4>1, <3>4, <3>5, <3>6
      <3> QED BY <3>2, <3>8, <3>9
    <2>7. CASE ~(Current(a) /\ Heard(i, now))
      <3>1. Got(a)' = Got(a)
        <4>1. CASE Current(a)
          <5>1. Inbox(a)' = Inbox(a) BY <4>1, <2>7, <1>1, InboxTick
          <5> QED BY <4>1, <5>1, <2>2, <1>1, GotNow, GotNext DEF GotInParts
        <4>2. CASE ~Current(a)
          <5>1. deferred'[a] = deferred[a] BY <4>2, <1>0, <1>1, DeferredTick
          <5> QED BY <4>2, <5>1, <2>2, <1>1, GotNow, GotNext DEF GotInParts
        <4> QED BY <4>1, <4>2
      <3>2. CASE due'[a] = due[a] BY <3>1, <3>2, <2>1
      <3>3. CASE Completes(now) /\ due'[a] = due[a] \o b
        <4> HIDE DEF b
        <4>1. Follows(Got(a), due[a] \o b) BY <3>3, <2>1, <2>4, FollowsLonger
        <4> QED BY <3>1, <3>3, <4>1
      <3> QED BY <3>2, <3>3, <2>5
    <2> QED BY <2>6, <2>7
  <1> QED BY <1>2, <1>3 DEF Ordered

LEMMA OrderedDeliver ==
  ASSUME IInv, Known, Ordered, IInv', Known', NEW b \in Ids, Deliver(b)
  PROVE  Ordered'
  <1>0. TypeOK BY DEF IInv
  <1>1. /\ deferred[b] # <<>> /\ deferred' = [deferred EXCEPT ![b] = Tail(deferred[b])]
        /\ UNCHANGED <<att, home, tx, rx, active, calls, offered, due>>
    BY DEF Deliver, station, ingress, egress, air
  <1>2. \/ Current(b) /\ heard' = [heard EXCEPT ![b] = Append(heard[b], Head(deferred[b]))]
        \/ ~Current(b) /\ UNCHANGED heard
    BY DEF Deliver
  <1>3. \A a \in Ids : Queued(a)' /\ Aired(a)'
    <2>1. \A a \in Ids : Queued(a) /\ Aired(a) BY DEF Ordered
    <2>2. \A e \in Byte : Past(e) => Past(e)' BY <1>1, PastKept
    <2>3. due \in [Ids -> Seq(Byte)] BY <1>0 DEF TypeOK
    <2>4. \A a \in Ids : Unsent(a)' = Unsent(a) BY <1>1 DEF Unsent
    <2> QED BY <1>1, <2>1, <2>2, <2>3, <2>4, GotParts, QueuesKept
  <1>4. ASSUME NEW a \in Ids PROVE Follows(Got(a)', due'[a])
    <2>1. Follows(Got(a), due[a]) BY DEF Ordered
    <2>2. Current(a)' <=> Current(a) BY <1>1 DEF Current
    <2> DEFINE h == heard[a]
               d == deferred[a]
               v == Values(rx[home[a]])
    <2>3. h \in Seq(Byte) /\ d \in Seq(Byte) /\ rx[home[a]] \in Seq(TimedByte)
      BY <1>0 DEF TypeOK
    <2>4. v \in Seq(Byte) BY <2>3, ValuesType
    <2>5. CASE a # b
      <3>1. heard'[a] = heard[a] /\ deferred'[a] = deferred[a]
        BY <2>5, <1>0, <1>1, <1>2 DEF TypeOK
      <3>2. Got(a)' = Got(a) BY <3>1, <1>1 DEF Got
      <3> QED BY <3>2, <2>1, <1>1
    <2>6. CASE a = b /\ ~Current(a)
      <3>1. heard'[a] = h /\ deferred'[a] = Tail(d) /\ d # <<>>
        BY <2>6, <1>0, <1>1, <1>2 DEF TypeOK
      <3>2. Got(a) = h \o d BY <2>6, GotParts
      <3>3. Got(a)' = h \o Tail(d) BY <3>1, <2>2, <2>6, GotNext DEF GotInParts
      <3> HIDE DEF h, d
      <3>4. Follows(h \o Tail(d), due[a]) BY <3>1, <3>2, <2>1, <2>3, FollowsWithout
      <3> QED BY <3>3, <3>4, <1>1
    <2>7. CASE a = b /\ Current(a)
      <3>1. heard'[a] = Append(h, Head(d)) /\ deferred'[a] = Tail(d) /\ d # <<>>
        BY <2>7, <1>0, <1>1, <1>2 DEF TypeOK
      <3>2. Got(a) = (h \o d) \o v BY <2>7 DEF Got, Current
      <3>3. Got(a)' = (Append(h, Head(d)) \o Tail(d)) \o v
        BY <3>1, <2>2, <2>7, <1>1 DEF Got, Current
      <3> HIDE DEF h, d, v
      <3>4. Append(h, Head(d)) \o Tail(d) = h \o d
        <4>1. Head(d) \in Byte /\ Tail(d) \in Seq(Byte) BY <3>1, <2>3, HeadTailProperties
        <4>2. <<Head(d)>> \in Seq(Byte) BY <4>1
        <4>3. Append(h, Head(d)) = h \o <<Head(d)>> BY <4>1, <2>3, AppendIsConcat
        <4>4. (h \o <<Head(d)>>) \o Tail(d) = h \o (<<Head(d)>> \o Tail(d))
          BY <4>1, <4>2, <2>3, BytesAssociative
        <4>5. <<Head(d)>> \o Tail(d) = d BY <3>1, <2>3, HeadTailProperties
        <4> QED BY <4>3, <4>4, <4>5
      <3>5. Got(a)' = Got(a) BY <3>2, <3>3, <3>4
      <3> QED BY <3>5, <2>1, <1>1
    <2> QED BY <2>5, <2>6, <2>7
  <1> QED BY <1>3, <1>4 DEF Ordered

\* What a UART receives of the air is what completed while it was present from the
\* start of the burst, in the order of the air, nothing twice and nothing of its own,
\* for every profile and every interleaving of bursts, deliveries and replacements
\* (HeardInAirOrder).
THEOREM OrderHolds == Spec => []HeardInAirOrder
  <1>1. Init => Ordered
    <2> SUFFICES ASSUME Init, NEW a \in Ids
                 PROVE  Queued(a) /\ Aired(a) /\ Follows(Got(a), due[a])
      BY DEF Ordered
    <2>1. home[a] \in Stations /\ a # 0 BY InitInvariant, IdsNat DEF IInv, TypeOK
    <2>2. ~Current(a) BY <2>1 DEF Init, Current
    <2>3. heard[a] = <<>> /\ deferred[a] = <<>> /\ due[a] = <<>> BY DEF Init, InitCallbacks
    <2>4. Unsent(a) = <<>> BY <2>2 DEF Unsent, Current
    <2>5. Got(a) = <<>>
      <3>1. <<>> \o <<>> = <<>> BY EmptySeq, ConcatEmptySeq
      <3> QED BY <3>1, <2>2, <2>3, GotParts, InitInvariant, KnownInit
    <2> QED BY <2>3, <2>4, <2>5, EmptyRange DEF Queued, Aired
  <1>2. IInv /\ Known /\ RxBounded /\ Ordered /\ IInv' /\ Known' /\ [Next]_vars => Ordered'
    <2> SUFFICES ASSUME IInv, Known, RxBounded, Ordered, IInv', Known', [Next]_vars
                 PROVE  Ordered'
      OBVIOUS
    <2>1. ASSUME NEW i \in Stations, NEW u \in Uarts, Attach(i, u) PROVE Ordered'
      BY <2>1, OrderedAttach
    <2>2. ASSUME NEW i \in Stations, DetachFrom(i) PROVE Ordered' BY <2>2, OrderedDetach
    <2>3. ASSUME NEW a \in Ids, Offer(a) PROVE Ordered' BY <2>3, OrderedOffer
    <2>4. ASSUME NEW c \in calls, Enqueue(c) PROVE Ordered' BY <2>4, OrderedEnqueue
    <2>5. CASE Tick BY <2>5, OrderedTick
    <2>6. ASSUME NEW a \in Ids, Deliver(a) PROVE Ordered' BY <2>6, OrderedDeliver
    <2>7. CASE UNCHANGED <<att, home, tx, rx, active, calls, offered, deferred, heard, due>>
      BY <2>7 DEF Ordered, Queued, Aired, Past, Unsent, Got
    <2> QED BY <2>1, <2>2, <2>3, <2>4, <2>5, <2>6, <2>7
         DEF Next, SetLink, vars, station, ingress, egress, air
  <1>3. IInv /\ Known /\ Ordered => HeardInAirOrder
    <2> SUFFICES ASSUME IInv, Known, Ordered, NEW a \in Ids
                 PROVE  /\ \A b \in Range(due[a]) : b.src # a /\ ~Before(due[a], b, b)
                        /\ Range(Got(a)) \subseteq Range(due[a])
                        /\ \A j, k \in DOMAIN Got(a) :
                              j < k => Before(due[a], Got(a)[j], Got(a)[k])
      BY DEF HeardInAirOrder
    <2>1. Queued(a) /\ Aired(a) /\ Follows(Got(a), due[a]) BY DEF Ordered
    <2>2. ASSUME NEW b \in Range(due[a]), Before(due[a], b, b) PROVE FALSE
      <3>1. due[a] \in Seq(Byte) BY GotParts
      <3>2. b \in Byte BY <3>1, RangeOfSeq
      <3>3. b.seq < b.seq BY <2>1, <2>2 DEF Aired, Rising, Before
      <3> QED BY <3>2, <3>3 DEF Byte
    <2> QED BY <2>1, <2>2 DEF Aired, Follows
  <1> QED BY <1>1, <1>2, <1>3, KnownInvariance, ReceptionInvariance, PTL DEF Spec

-----------------------------------------------------------------------------
(* Idle gaps.  Packets of a FIFO are exactly its runs without an idle gap,    *)
(* cut where a run is longer than a burst.                                    *)

GapOf(q, k) == q[k+1].readyUs - UartByteUs - q[k].readyUs

Ends(p, f, k) == \E m \in 1 .. Len(p) : f[m] = k
EndsFull(p, f, k) == \E m \in 1 .. Len(p) : f[m] = k /\ p[m].count = MaxBurst

GapAt(p, q, f, k) ==
    IF Ends(p, f, k) THEN EndsFull(p, f, k) \/ GapOf(q, k) >= IdleUs ELSE GapOf(q, k) < IdleUs

Sealed(p, q) ==
    \E f \in [0 .. Len(p) -> 0 .. Len(q)] :
        Cuts(p, q, f) /\ Spread(p, f) /\ \A k \in 1 .. Len(q) - 1 : GapAt(p, q, f, k)

\* Two functions that start together and grow by the same steps are the same.
LEMMA SameSteps ==
  ASSUME NEW n \in Nat, NEW f \in [0 .. n -> Int], NEW g \in [0 .. n -> Int],
         f[0] = g[0], \A k \in 1 .. n : f[k] - f[k-1] = g[k] - g[k-1]
  PROVE  f = g
  <1> DEFINE T == {k \in 0 .. n : f[k] # g[k]}
             R == OpToRel(<, Nat)
  <1> SUFFICES ASSUME T # {} PROVE FALSE
    <2>1. (\A k \in 0 .. n : f[k] = g[k]) => f = g OBVIOUS
    <2> QED BY <2>1
  <1>1. PICK x \in T : \A y \in T : ~(<<y, x>> \in R)
    <2>1. T \subseteq Nat OBVIOUS
    <2> HIDE DEF R, T
    <2>2. IsWellFoundedOn(R, Nat) BY NatLessThanWellFounded DEF R
    <2> QED BY <2>1, <2>2, WFMin, Zenon
  <1>2. x \in 1 .. n /\ x - 1 \in 0 .. n OBVIOUS
  <1>3. f[x] - f[x-1] = g[x] - g[x-1] BY <1>2
  <1>4. f[x] \in Int /\ f[x-1] \in Int /\ g[x] \in Int /\ g[x-1] \in Int BY <1>2
  <1>5. x - 1 \in T
    <2>1. f[x] # g[x] OBVIOUS
    <2>2. f[x-1] # g[x-1] BY <1>3, <1>4, <2>1
    <2> QED BY <1>2, <2>2
  <1>6. <<x - 1, x>> \in R BY <1>2 DEF OpToRel
  <1> QED BY <1>1, <1>5, <1>6

LEMMA CutsFacts ==
  ASSUME NEW p \in Seq(TxPacket), NEW q \in Seq(TimedByte),
         NEW f \in [0 .. Len(p) -> Nat], Cuts(p, q, f)
  PROVE  /\ f[0] = 0 /\ f[Len(p)] = Len(q)
         /\ \A k \in 1 .. Len(p) : f[k] \in Nat /\ f[k-1] \in Nat /\ p[k].count \in Nat
                                   /\ f[k] - f[k-1] = p[k].count
  <1>1. f[0] = 0 /\ f[Len(p)] = Len(q) BY DEF Cuts
  <1>2. ASSUME NEW k \in 1 .. Len(p)
        PROVE  f[k] \in Nat /\ f[k-1] \in Nat /\ p[k].count \in Nat /\ f[k] - f[k-1] = p[k].count
    <2>1. Len(p) \in Nat /\ p[k] \in TxPacket BY LenProperties, ElementOfSeq
    <2>2. f[k] \in Nat /\ f[k-1] \in Nat
      <3>1. k \in 0 .. Len(p) /\ k - 1 \in 0 .. Len(p) BY <2>1
      <3> QED BY <3>1
    <2>3. p[k].count \in Nat BY <2>1 DEF TxPacket
    <2>4. f[k] = f[k-1] + p[k].count BY DEF Cuts
    <2> QED BY <2>2, <2>3, <2>4
  <1> QED BY <1>1, <1>2

\* Descriptors cut a FIFO in one way only.
LEMMA CutsUnique ==
  ASSUME NEW p \in Seq(TxPacket), NEW q \in Seq(TimedByte),
         NEW f \in [0 .. Len(p) -> Nat], NEW g \in [0 .. Len(p) -> Nat],
         Cuts(p, q, f), Cuts(p, q, g)
  PROVE  f = g
  <1>1. Len(p) \in Nat BY LenProperties
  <1>5. f[0] = 0 /\ \A k \in 1 .. Len(p) : f[k] - f[k-1] = p[k].count
    BY CutsFacts
  <1>6. g[0] = 0 /\ \A k \in 1 .. Len(p) : g[k] - g[k-1] = p[k].count
    BY CutsFacts
  <1>2. f[0] = g[0] /\ \A k \in 1 .. Len(p) : f[k] - f[k-1] = g[k] - g[k-1]
    BY <1>5, <1>6
  <1>3. f \in [0 .. Len(p) -> Int] /\ g \in [0 .. Len(p) -> Int] OBVIOUS
  <1> QED BY <1>1, <1>2, <1>3, SameSteps

LEMMA SealedOwned ==
  ASSUME NEW p, NEW q, Sealed(p, q)
  PROVE  Owned(p, q)
  BY DEF Sealed, Owned

\* A byte that opens a packet: the last one was full or an idle gap is over.
LEMMA SealedNew ==
  ASSUME NEW p \in Seq(TxPacket), NEW q \in Seq(TimedByte), NEW e \in TimedByte,
         Sealed(p, q),
         \/ p = <<>>
         \/ p[Len(p)].count = MaxBurst
         \/ e.readyUs - UartByteUs - p[Len(p)].lastReadyUs >= IdleUs
  PROVE  Sealed(Append(p, [count |-> 1, lastReadyUs |-> e.readyUs]), Append(q, e))
  <1> DEFINE n == Len(p)
             l == Len(q)
             d == [count |-> 1, lastReadyUs |-> e.readyUs]
             pp == Append(p, d)
             qq == Append(q, e)
  <1>1. PICK f \in [0 .. n -> 0 .. l] :
            Cuts(p, q, f) /\ Spread(p, f) /\ \A k \in 1 .. l - 1 : GapAt(p, q, f, k)
    BY DEF Sealed
  <1>2. Owned(p, q) BY SealedOwned
  <1>3. d \in TxPacket BY DEF TxPacket, TimedByte
  <1>4. Owned(pp, qq) BY <1>2, OwnedNew
  <1>5. PICK g \in [0 .. Len(pp) -> 0 .. Len(qq)] : Cuts(pp, qq, g) /\ Spread(pp, g)
    BY <1>4 DEF Owned
  <1>6. /\ n \in Nat /\ l \in Nat
        /\ pp \in Seq(TxPacket) /\ Len(pp) = n + 1 /\ pp[n+1] = d /\ \A k \in 1 .. n : pp[k] = p[k]
        /\ qq \in Seq(TimedByte) /\ Len(qq) = l + 1 /\ qq[l+1] = e /\ \A k \in 1 .. l : qq[k] = q[k]
    BY <1>3, AppendProperties, LenProperties
  <1> HIDE DEF n, l, d, pp, qq
  <1>7. /\ f[0] = 0 /\ f[n] = l
        /\ \A k \in 1 .. n : f[k] - f[k-1] = p[k].count
    <2>1. f \in [0 .. n -> Nat] BY <1>1, <1>6
    <2> QED BY <2>1, <1>1, CutsFacts DEF n, l
  <1>8. /\ g[0] = 0 /\ g[n+1] = l + 1
        /\ \A k \in 1 .. n + 1 : g[k] - g[k-1] = pp[k].count
    <2>1. g \in [0 .. Len(pp) -> Nat]
      <3>1. g \in [0 .. Len(pp) -> 0 .. Len(qq)] BY <1>5
      <3>2. 0 .. Len(qq) \subseteq Nat OBVIOUS
      <3> QED BY <3>1, <3>2
    <2>2. /\ g[0] = 0 /\ g[Len(pp)] = Len(qq)
          /\ \A k \in 1 .. Len(pp) : g[k] - g[k-1] = pp[k].count
      <3>1. pp \in Seq(TxPacket) /\ qq \in Seq(TimedByte) BY <1>6
      <3> QED BY <2>1, <3>1, <1>5, CutsFacts
    <2>3. Len(pp) = n + 1 /\ Len(qq) = l + 1 BY <1>6
    <2> QED BY <2>2, <2>3
  <1>9. \A k \in 0 .. n : f[k] = g[k]
    <2>0. n \in Nat /\ f[0] = g[0] BY <1>6, <1>7, <1>8
    <2>1. ASSUME NEW k \in 1 .. n PROVE f[k] - f[k-1] = g[k] - g[k-1]
      <3>1. f[k] - f[k-1] = p[k].count BY <1>7
      <3>2. k \in 1 .. n + 1 BY <2>0
      <3>3. g[k] - g[k-1] = pp[k].count BY <3>2, <1>8
      <3>4. pp[k] = p[k] BY <1>6
      <3> QED BY <3>1, <3>3, <3>4
    <2>2. ASSUME NEW k \in 0 .. n PROVE f[k] \in Int /\ g[k] \in Int
      <3>1. f[k] \in 0 .. l BY <1>1
      <3>2. k \in 0 .. Len(pp) BY <1>6
      <3>3. g[k] \in 0 .. Len(qq) BY <3>2, <1>5
      <3> QED BY <3>1, <3>3
    <2>3. \A k \in 0 .. n : f[k] \in Int /\ g[k] \in Int BY <2>2
    <2>4. \A k \in 1 .. n : f[k] - f[k-1] = g[k] - g[k-1] BY <2>1
    <2> DEFINE F == [k \in 0 .. n |-> f[k]]
               G == [k \in 0 .. n |-> g[k]]
    <2>5. F \in [0 .. n -> Int] /\ G \in [0 .. n -> Int] BY <2>3
    <2>6. F[0] = G[0] BY <2>0
    <2>7. \A k \in 1 .. n : F[k] - F[k-1] = G[k] - G[k-1]
      <3> TAKE k \in 1 .. n
      <3>1. k \in 0 .. n /\ k - 1 \in 0 .. n BY <2>0
      <3>2. F[k] = f[k] /\ F[k-1] = f[k-1] /\ G[k] = g[k] /\ G[k-1] = g[k-1] BY <3>1
      <3> QED BY <3>2, <2>4
    <2>8. \A k \in 0 .. n : F[k] = f[k] /\ G[k] = g[k] OBVIOUS
    <2> HIDE DEF F, G
    <2>9. F = G BY <2>0, <2>5, <2>6, <2>7, SameSteps
    <2> QED BY <2>8, <2>9
  <1>10. ASSUME NEW k \in 1 .. l PROVE GapAt(pp, qq, g, k)
    <2>1. CASE k < l
      <3>0. k \in 1 .. l - 1 /\ k + 1 \in 1 .. l
        <4>1. l \in Nat BY <1>6
        <4> QED BY <2>1, <4>1
      <3>1. qq[k] = q[k] /\ qq[k+1] = q[k+1] BY <3>0, <1>6
      <3>2. Ends(pp, g, k) <=> Ends(p, f, k)
        <4>0. n \in Nat /\ l \in Nat BY <1>6
        <4>1. g[n+1] # k BY <4>0, <1>8, <2>1
        <4>3. \A m \in 1 .. n : m \in 1 .. n + 1 /\ g[m] = f[m] BY <4>0, <1>9
        <4>2. \A m \in 1 .. n + 1 : m = n + 1 \/ (m \in 1 .. n /\ g[m] = f[m]) BY <4>0, <4>3
        <4> QED BY <1>6, <4>1, <4>2, <4>3 DEF Ends, n
      <3>3. EndsFull(pp, g, k) <=> EndsFull(p, f, k)
        <4>0. n \in Nat /\ l \in Nat BY <1>6
        <4>1. g[n+1] # k BY <4>0, <1>8, <2>1
        <4>3. \A m \in 1 .. n : m \in 1 .. n + 1 /\ g[m] = f[m] /\ pp[m] = p[m]
          <5>1. \A m \in 1 .. n : m \in 1 .. n + 1 /\ g[m] = f[m] BY <4>0, <1>9
          <5>2. \A m \in 1 .. n : pp[m] = p[m] BY <1>6
          <5> QED BY <5>1, <5>2
        <4>2. \A m \in 1 .. n + 1 : m = n + 1 \/ (m \in 1 .. n /\ g[m] = f[m] /\ pp[m] = p[m])
          BY <4>0, <4>3
        <4> QED BY <1>6, <4>1, <4>2, <4>3 DEF EndsFull, n
      <3>4. GapAt(p, q, f, k) BY <3>0, <1>1
      <3>5. GapOf(qq, k) = GapOf(q, k) BY <3>1 DEF GapOf
      <3> QED BY <3>2, <3>3, <3>4, <3>5 DEF GapAt
    <2>2. CASE k = l
      <3>1. n >= 1
        <4>1. n # 0 BY <1>6, <1>7, <2>2
        <4> QED BY <4>1, <1>6
      <3>2. n \in 1 .. n + 1 /\ g[n] = k /\ pp[n] = p[n] BY <3>1, <2>2, <1>6, <1>7, <1>9
      <3>3. Ends(pp, g, k) BY <3>2, <1>6 DEF Ends
      <3>4. CASE p[n].count = MaxBurst
        <4>1. EndsFull(pp, g, k) BY <3>2, <3>4, <1>6 DEF EndsFull
        <4> QED BY <3>3, <4>1 DEF GapAt
      <3>5. CASE e.readyUs - UartByteUs - p[n].lastReadyUs >= IdleUs
        <4>1. p[n].lastReadyUs = q[f[n]].readyUs
          <5>1. n \in 1 .. Len(p) BY <3>1, <1>6 DEF n
          <5>2. Cuts(p, q, f) BY <1>1
          <5> QED BY <5>1, <5>2 DEF Cuts
        <4>2. q[l].readyUs = p[n].lastReadyUs BY <4>1, <1>7
        <4>3. qq[k] = q[l] /\ qq[k+1] = e BY <2>2, <1>6
        <4>4. GapOf(qq, k) = e.readyUs - UartByteUs - p[n].lastReadyUs BY <4>2, <4>3 DEF GapOf
        <4> QED BY <3>3, <3>5, <4>4 DEF GapAt
      <3>6. p # <<>> BY <3>1 DEF n
      <3> QED BY <3>4, <3>5, <3>6 DEF n
    <2> QED BY <2>1, <2>2, <1>6
  <1>11. \A k \in 1 .. Len(qq) - 1 : GapAt(pp, qq, g, k) BY <1>6, <1>10
  <1>12. Sealed(pp, qq) BY <1>5, <1>11 DEF Sealed
  <1> QED BY <1>12 DEF pp, qq, d

\* A byte that joins the last packet: it has room and no idle gap is over.
LEMMA SealedExtend ==
  ASSUME NEW p \in Seq(TxPacket), NEW q \in Seq(TimedByte), NEW e \in TimedByte,
         Sealed(p, q), p # <<>>, p[Len(p)].count # MaxBurst,
         e.readyUs - UartByteUs - p[Len(p)].lastReadyUs < IdleUs
  PROVE  Sealed([p EXCEPT ![Len(p)] = [count |-> p[Len(p)].count + 1,
                                       lastReadyUs |-> e.readyUs]], Append(q, e))
  <1> DEFINE n == Len(p)
             l == Len(q)
             d == [count |-> p[n].count + 1, lastReadyUs |-> e.readyUs]
             pp == [p EXCEPT ![n] = d]
             qq == Append(q, e)
  <1>1. PICK f \in [0 .. n -> 0 .. l] :
            Cuts(p, q, f) /\ Spread(p, f) /\ \A k \in 1 .. l - 1 : GapAt(p, q, f, k)
    BY DEF Sealed
  <1>2. Owned(p, q) BY SealedOwned
  <1>3. n \in Nat /\ n >= 1 /\ l \in Nat BY LenProperties, EmptySeq
  <1>4. d \in TxPacket
    <2>1. p[n] \in TxPacket BY <1>3, ElementOfSeq
    <2>2. p[n].count + 1 \in Nat \ {0} BY <2>1 DEF TxPacket
    <2> QED BY <2>2 DEF TxPacket, TimedByte
  <1>5. Owned(pp, qq) BY <1>2, OwnedExtend
  <1>6. PICK g \in [0 .. Len(pp) -> 0 .. Len(qq)] : Cuts(pp, qq, g) /\ Spread(pp, g)
    BY <1>5 DEF Owned
  <1>7. pp \in Seq(TxPacket) /\ Len(pp) = n /\ \A k \in 1 .. n - 1 : pp[k] = p[k]
    BY <1>3, <1>4, ExceptSeq
  <1>8. qq \in Seq(TimedByte) /\ Len(qq) = l + 1 /\ qq[l+1] = e /\ \A k \in 1 .. l : qq[k] = q[k]
    BY AppendProperties
  <1>9. p[n].lastReadyUs = q[f[n]].readyUs BY <1>1, <1>3 DEF Cuts
  <1>10. \A k \in 0 .. n : f[n] - f[k] >= n - k BY <1>1, <1>3 DEF Spread
  <1>21. e.readyUs - UartByteUs - p[n].lastReadyUs < IdleUs OBVIOUS
  <1> HIDE DEF n, l, d, pp, qq
  <1>11. f[0] = 0 /\ f[n] = l /\ \A k \in 1 .. n : f[k] - f[k-1] = p[k].count
    <2>1. f \in [0 .. n -> Nat] BY <1>1, <1>3
    <2> QED BY <2>1, <1>1, CutsFacts DEF n, l
  <1>12. g[0] = 0 /\ g[n] = l + 1 /\ \A k \in 1 .. n : g[k] - g[k-1] = pp[k].count
    <2>1. g \in [0 .. Len(pp) -> Nat] BY <1>6, <1>8
    <2>2. /\ g[0] = 0 /\ g[Len(pp)] = Len(qq)
          /\ \A k \in 1 .. Len(pp) : g[k] - g[k-1] = pp[k].count
      BY <2>1, <1>6, <1>7, <1>8, CutsFacts
    <2> QED BY <2>2, <1>7, <1>8
  <1>13. \A k \in 0 .. n - 1 : f[k] = g[k]
    <2>0. n - 1 \in Nat /\ f[0] = g[0] BY <1>3, <1>11, <1>12
    <2>1. ASSUME NEW k \in 1 .. n - 1 PROVE f[k] - f[k-1] = g[k] - g[k-1]
      <3>1. k \in 1 .. n BY <1>3
      <3>2. f[k] - f[k-1] = p[k].count BY <3>1, <1>11
      <3>3. g[k] - g[k-1] = pp[k].count BY <3>1, <1>12
      <3>4. pp[k] = p[k] BY <1>7
      <3> QED BY <3>2, <3>3, <3>4
    <2>2. ASSUME NEW k \in 0 .. n - 1 PROVE f[k] \in Int /\ g[k] \in Int
      <3>0. k \in 0 .. n BY <1>3
      <3>1. f[k] \in 0 .. l BY <3>0, <1>1
      <3>2. k \in 0 .. Len(pp) BY <3>0, <1>7
      <3>3. g[k] \in 0 .. Len(qq) BY <3>2, <1>6
      <3> QED BY <3>1, <3>3
    <2>3. \A k \in 0 .. n - 1 : f[k] \in Int /\ g[k] \in Int BY <2>2
    <2>4. \A k \in 1 .. n - 1 : f[k] - f[k-1] = g[k] - g[k-1] BY <2>1
    <2> DEFINE F == [k \in 0 .. n - 1 |-> f[k]]
               G == [k \in 0 .. n - 1 |-> g[k]]
    <2>5. F \in [0 .. n - 1 -> Int] /\ G \in [0 .. n - 1 -> Int] BY <2>3
    <2>6. F[0] = G[0] BY <2>0
    <2>7. \A k \in 1 .. n - 1 : F[k] - F[k-1] = G[k] - G[k-1] BY <2>0, <2>4
    <2>8. \A k \in 0 .. n - 1 : F[k] = f[k] /\ G[k] = g[k] OBVIOUS
    <2> HIDE DEF F, G
    <2>9. F = G BY <2>0, <2>5, <2>6, <2>7, SameSteps
    <2> QED BY <2>8, <2>9
  <1>14. \A m \in 1 .. n - 1 : g[m] = f[m] /\ pp[m] = p[m] /\ m \in 1 .. n /\ f[m] < l
    <2> TAKE m \in 1 .. n - 1
    <2>1. m \in 0 .. n - 1 /\ m \in 0 .. n /\ m \in 1 .. n /\ n - m >= 1 BY <1>3
    <2>2. f[n] - f[m] >= n - m /\ f[m] \in 0 .. l BY <2>1, <1>10, <1>1
    <2>3. f[m] < l BY <2>1, <2>2, <1>3, <1>11
    <2> QED BY <2>1, <2>3, <1>13, <1>7
  <1>15. \A m \in 1 .. n : m = n \/ m \in 1 .. n - 1 BY <1>3
  <1>16. ASSUME NEW k \in 1 .. l PROVE GapAt(pp, qq, g, k)
    <2>0. g[n] # k BY <1>3, <1>12
    <2>1. CASE k < l
      <3>0. k \in 1 .. l - 1 /\ k + 1 \in 1 .. l BY <2>1, <1>3
      <3>1. qq[k] = q[k] /\ qq[k+1] = q[k+1] BY <3>0, <1>8
      <3>6. f[n] # k BY <1>3, <1>11, <2>1
      <3>2. Ends(pp, g, k) <=> Ends(p, f, k)
        BY <2>0, <3>6, <1>7, <1>14, <1>15 DEF Ends, n
      <3>3. EndsFull(pp, g, k) <=> EndsFull(p, f, k)
        BY <2>0, <3>6, <1>7, <1>14, <1>15 DEF EndsFull, n
      <3>4. GapAt(p, q, f, k) BY <3>0, <1>1
      <3>5. GapOf(qq, k) = GapOf(q, k) BY <3>1 DEF GapOf
      <3> QED BY <3>2, <3>3, <3>4, <3>5 DEF GapAt
    <2>2. CASE k = l
      <3>1. ~Ends(pp, g, k)
        <4>1. \A m \in 1 .. n - 1 : g[m] # k
          <5> TAKE m \in 1 .. n - 1
          <5>1. f[m] < l /\ g[m] = f[m] BY <1>14
          <5>2. m \in 0 .. n BY <1>3
          <5>3. f[m] \in 0 .. l BY <5>2, <1>1
          <5> QED BY <5>1, <5>3, <2>2, <1>3
        <4> QED BY <2>0, <4>1, <1>7, <1>15 DEF Ends
      <3>2. q[l].readyUs = p[n].lastReadyUs BY <1>9, <1>11
      <3>3. qq[k] = q[l] /\ qq[k+1] = e BY <2>2, <1>8
      <3>4. GapOf(qq, k) = e.readyUs - UartByteUs - p[n].lastReadyUs
        BY <3>2, <3>3 DEF GapOf
      <3> QED BY <3>1, <3>4, <1>21 DEF GapAt
    <2> QED BY <2>1, <2>2, <1>3
  <1>17. \A k \in 1 .. Len(qq) - 1 : GapAt(pp, qq, g, k)
    <2>1. Len(qq) - 1 = l BY <1>3, <1>8
    <2> QED BY <2>1, <1>16
  <1>18. Sealed(pp, qq) BY <1>6, <1>17 DEF Sealed
  <1> QED BY <1>18 DEF pp, qq, d, n

\* The head packet leaves with its bytes.
LEMMA SealedTake ==
  ASSUME NEW p \in Seq(TxPacket), NEW q \in Seq(TimedByte), Sealed(p, q), p # <<>>
  PROVE  Sealed(Tail(p), SubSeq(q, Head(p).count + 1, Len(q)))
  <1> DEFINE n == Len(p)
             l == Len(q)
             h == Head(p).count
             pp == Tail(p)
             qq == SubSeq(q, h + 1, l)
  <1>1. PICK f \in [0 .. n -> 0 .. l] :
            Cuts(p, q, f) /\ Spread(p, f) /\ \A k \in 1 .. l - 1 : GapAt(p, q, f, k)
    BY DEF Sealed
  <1>2. Owned(p, q) BY SealedOwned
  <1>3. n \in Nat /\ n >= 1 /\ l \in Nat BY LenProperties, EmptySeq
  <1>4. h \in 1 .. l /\ Owned(pp, qq) BY <1>2, OwnedTake
  <1>5. PICK g \in [0 .. Len(pp) -> 0 .. Len(qq)] : Cuts(pp, qq, g) /\ Spread(pp, g)
    BY <1>4 DEF Owned
  <1>6. /\ pp \in Seq(TxPacket) /\ Len(pp) = n - 1 /\ Head(p) = p[1]
        /\ \A k \in 1 .. n - 1 : pp[k] = p[k+1]
    BY HeadTailProperties
  <1>7. /\ qq \in Seq(TimedByte) /\ Len(qq) = l - h
        /\ \A k \in 1 .. l - h : qq[k] = q[h + k]
    <2>1. h + 1 \in Nat \ {0} /\ l <= Len(q) BY <1>3, <1>4
    <2>2. qq \in Seq(TimedByte) /\ Len(qq) = IF h + 1 <= l THEN l - (h + 1) + 1 ELSE 0
      BY <2>1, <1>3, PartOfSeq
    <2>0. h \in Nat /\ h <= l /\ h + 1 \in Nat BY <1>3, <1>4
    <2> HIDE DEF l, h, qq
    <2>3. Len(qq) = l - h
      <3>1. CASE h + 1 <= l BY <3>1, <2>2, <2>0, <1>3
      <3>2. CASE ~(h + 1 <= l) BY <3>2, <2>2, <2>0, <1>3
      <3> QED BY <3>1, <3>2
    <2>4. \A k \in h + 1 .. l : q[k] \in TimedByte
      <3> TAKE k \in h + 1 .. l
      <3>1. k \in 1 .. Len(q) BY <2>0, <1>3 DEF l
      <3> QED BY <3>1, ElementOfSeq
    <2>7. h + 1 \in Nat \ {0} /\ l \in Nat BY <2>1, <1>3
    <2>5. \A k \in 1 .. (l - (h + 1) + 1) : qq[k] = q[(h + 1) + k - 1]
      BY <2>7, <2>4, SubSeqProperties DEF qq
    <2>6. \A k \in 1 .. l - h : qq[k] = q[h + k]
      <3> TAKE k \in 1 .. l - h
      <3>1. k \in 1 .. (l - (h + 1) + 1) /\ (h + 1) + k - 1 = h + k BY <1>3, <2>0
      <3> QED BY <3>1, <2>5
    <2> QED BY <2>2, <2>3, <2>6
  <1>10. \A k \in 0 .. n : f[k] - f[0] >= k BY <1>1, <1>3 DEF Spread
  <1>11. f[0] = 0 /\ f[n] = l /\ \A k \in 1 .. n : f[k] - f[k-1] = p[k].count
    <2>1. f \in [0 .. n -> Nat] BY <1>1, <1>3
    <2> QED BY <2>1, <1>1, CutsFacts
  <1> HIDE DEF n, l, pp, qq
  <1>12. g[0] = 0 /\ \A k \in 1 .. n - 1 : g[k] - g[k-1] = pp[k].count
    <2>1. g \in [0 .. Len(pp) -> Nat] BY <1>3, <1>4, <1>5, <1>7
    <2>2. g[0] = 0 /\ \A k \in 1 .. Len(pp) : g[k] - g[k-1] = pp[k].count
      BY <2>1, <1>5, <1>6, <1>7, CutsFacts
    <2> QED BY <2>2, <1>6
  <1>13. f[1] = h
    <2>1. f[1] - f[0] = p[1].count /\ h = p[1].count BY <1>3, <1>6, <1>11
    <2>2. f[1] \in 0 .. l /\ f[0] = 0 BY <1>1, <1>3, <1>11
    <2> QED BY <2>1, <2>2, <1>4
  <1> HIDE DEF h
  <1> DEFINE e == [k \in 0 .. n - 1 |-> f[k+1] - h]
  <1>14. \A k \in 0 .. n - 1 : e[k] = g[k]
    <2>0. n - 1 \in Nat /\ e[0] = g[0]
      <3>1. e[0] = f[1] - h BY <1>3
      <3> QED BY <3>1, <1>3, <1>4, <1>12, <1>13
    <2>2. ASSUME NEW k \in 0 .. n - 1 PROVE e[k] \in Int /\ g[k] \in Int
      <3>0. k + 1 \in 0 .. n BY <1>3
      <3>1. f[k+1] \in 0 .. l BY <3>0, <1>1
      <3>2. k \in 0 .. Len(pp) BY <1>6
      <3>3. g[k] \in 0 .. Len(qq) BY <3>2, <1>5
      <3> QED BY <3>1, <3>3, <1>4
    <2>1. ASSUME NEW k \in 1 .. n - 1 PROVE e[k] - e[k-1] = g[k] - g[k-1]
      <3>1. k + 1 \in 1 .. n /\ k + 1 \in 0 .. n /\ k \in 0 .. n /\ k - 1 \in 0 .. n - 1
            /\ k \in 0 .. n - 1 /\ (k + 1) - 1 = k /\ (k - 1) + 1 = k
        BY <1>3
      <3>2. f[k+1] - f[k] = p[k+1].count
        <4>1. f[k+1] - f[(k+1)-1] = p[k+1].count BY <3>1, <1>11, Zenon
        <4> QED BY <4>1, <3>1
      <3>3. g[k] - g[k-1] = pp[k].count BY <1>12
      <3>4. pp[k] = p[k+1] BY <1>6
      <3>5. e[k] = f[k+1] - h /\ e[k-1] = f[k] - h BY <3>1
      <3>6. f[k+1] \in 0 .. l /\ f[k] \in 0 .. l BY <3>1, <1>1
      <3> HIDE DEF e
      <3> QED BY <3>2, <3>3, <3>4, <3>5, <3>6, <1>4
    <2>3. \A k \in 0 .. n - 1 : e[k] \in Int /\ g[k] \in Int BY <2>2
    <2>4. \A k \in 1 .. n - 1 : e[k] - e[k-1] = g[k] - g[k-1] BY <2>1
    <2> HIDE DEF e
    <2> DEFINE F == [k \in 0 .. n - 1 |-> e[k]]
               G == [k \in 0 .. n - 1 |-> g[k]]
    <2>5. F \in [0 .. n - 1 -> Int] /\ G \in [0 .. n - 1 -> Int] BY <2>3
    <2>6. F[0] = G[0] BY <2>0
    <2>7. \A k \in 1 .. n - 1 : F[k] - F[k-1] = G[k] - G[k-1] BY <2>0, <2>4
    <2>8. \A k \in 0 .. n - 1 : F[k] = e[k] /\ G[k] = g[k] OBVIOUS
    <2> HIDE DEF F, G
    <2>9. F = G BY <2>0, <2>5, <2>6, <2>7, SameSteps
    <2> QED BY <2>8, <2>9
  <1>15. \A m \in 1 .. n - 1 : /\ g[m] = f[m+1] - h /\ pp[m] = p[m+1]
                               /\ m + 1 \in 1 .. n /\ f[m+1] \in 0 .. l
    <2> TAKE m \in 1 .. n - 1
    <2>1. m \in 0 .. n - 1 /\ m + 1 \in 1 .. n /\ m + 1 \in 0 .. n BY <1>3
    <2>2. f[m+1] \in 0 .. l BY <2>1, <1>1
    <2>3. e[m] = g[m] /\ e[m] = f[m+1] - h BY <2>1, <1>14
    <2> QED BY <2>1, <2>2, <2>3, <1>6
  <1> HIDE DEF e
  <1>16. ASSUME NEW k \in 1 .. (l - h) - 1 PROVE GapAt(pp, qq, g, k)
    <2>1. h + k \in 1 .. l - 1 /\ k \in 1 .. l - h /\ k + 1 \in 1 .. l - h
          /\ h + (k + 1) = (h + k) + 1 /\ h + k \in Nat /\ h \in Nat
      BY <1>3, <1>4
    <2>2. qq[k] = q[h + k] /\ qq[k+1] = q[(h + k) + 1]
      BY <2>1, <1>7
    <2>3. GapOf(qq, k) = GapOf(q, h + k) BY <2>2 DEF GapOf
    <2>4. \A m \in 1 .. n : m = 1 \/ m - 1 \in 1 .. n - 1 BY <1>3
    <2>5. f[1] # h + k BY <1>13, <2>1
    <2>6. \A m \in 1 .. n - 1 : g[m] = k <=> f[m+1] = h + k
      <3> TAKE m \in 1 .. n - 1
      <3>1. g[m] = f[m+1] - h /\ f[m+1] \in 0 .. l BY <1>15
      <3>2. f[m+1] \in Int /\ h \in Int /\ k \in Int BY <3>1, <2>1, <1>3
      <3> QED BY <3>1, <3>2
    <2>7. Ends(pp, g, k) <=> Ends(p, f, h + k)
      <3>1. ASSUME NEW m \in 1 .. n - 1, g[m] = k PROVE Ends(p, f, h + k)
        <4>1. f[m+1] = h + k /\ m + 1 \in 1 .. n BY <3>1, <2>6, <1>15
        <4> QED BY <4>1 DEF Ends, n
      <3>2. ASSUME NEW m \in 1 .. n, f[m] = h + k PROVE Ends(pp, g, k)
        <4>1. m - 1 \in 1 .. n - 1 BY <3>2, <2>4, <2>5
        <4>2. (m - 1) + 1 = m BY <3>2, <1>3
        <4>3. g[m-1] = k BY <4>1, <4>2, <3>2, <2>6
        <4> QED BY <4>1, <4>3, <1>6 DEF Ends
      <3> QED BY <3>1, <3>2, <1>6 DEF Ends, n
    <2>8. EndsFull(pp, g, k) <=> EndsFull(p, f, h + k)
      <3>1. ASSUME NEW m \in 1 .. n - 1, g[m] = k, pp[m].count = MaxBurst
            PROVE  EndsFull(p, f, h + k)
        <4>1. f[m+1] = h + k /\ m + 1 \in 1 .. n /\ pp[m] = p[m+1] BY <3>1, <2>6, <1>15
        <4> QED BY <3>1, <4>1 DEF EndsFull, n
      <3>2. ASSUME NEW m \in 1 .. n, f[m] = h + k, p[m].count = MaxBurst
            PROVE  EndsFull(pp, g, k)
        <4>1. m - 1 \in 1 .. n - 1 BY <3>2, <2>4, <2>5
        <4>2. (m - 1) + 1 = m BY <3>2, <1>3
        <4>3. g[m-1] = k BY <4>1, <4>2, <3>2, <2>6
        <4>4. pp[m-1] = p[m] BY <4>1, <4>2, <1>15
        <4> QED BY <3>2, <4>1, <4>3, <4>4, <1>6 DEF EndsFull
      <3> QED BY <3>1, <3>2, <1>6 DEF EndsFull, n
    <2>9. GapAt(p, q, f, h + k) BY <2>1, <1>1
    <2> QED BY <2>3, <2>7, <2>8, <2>9 DEF GapAt
  <1>17. \A k \in 1 .. Len(qq) - 1 : GapAt(pp, qq, g, k)
    <2>1. Len(qq) = l - h BY <1>7
    <2> QED BY <2>1, <1>16
  <1>18. Sealed(pp, qq) BY <1>5, <1>17 DEF Sealed
  <1> QED BY <1>18 DEF pp, qq, h, l

\* Packets are cut at idle gaps in every FIFO.
Sealing == \A i \in Stations : Sealed(packets[i], tx[i])

LEMMA SealedEmpty == Sealed(<<>>, <<>>)
  <1>1. PICK f \in [0 .. Len(<<>>) -> 0 .. Len(<<>>)] : Cuts(<<>>, <<>>, f) /\ Spread(<<>>, f)
    BY OwnedEmpty DEF Owned
  <1>2. \A k \in 1 .. Len(<<>>) - 1 : GapAt(<<>>, <<>>, f, k) OBVIOUS
  <1> QED BY <1>1, <1>2 DEF Sealed

\* A step that leaves the FIFOs of all indexes or gives one a fresh node.
LEMMA SealingKept ==
  ASSUME Sealing, UNCHANGED <<tx, packets>>
  PROVE  Sealing'
  BY DEF Sealing

LEMMA SealingFresh ==
  ASSUME IInv, Sealing, NEW i \in Stations, FreshNode(i)
  PROVE  Sealing'
  <1>1. ASSUME NEW j \in Stations PROVE Sealed(packets'[j], tx'[j])
    <2>1. CASE j = i
      <3>1. packets'[j] = <<>> /\ tx'[j] = <<>> BY <2>1 DEF FreshNode, IInv, TypeOK
      <3> QED BY <3>1, SealedEmpty
    <2>2. CASE j # i
      <3>1. packets'[j] = packets[j] /\ tx'[j] = tx[j] BY <2>2 DEF FreshNode, IInv, TypeOK
      <3> QED BY <3>1 DEF Sealing
    <2> QED BY <2>1, <2>2
  <1> QED BY <1>1 DEF Sealing

\* A byte that is accepted.
LEMMA SealingEnqueue ==
  ASSUME IInv, Sealing, NEW c \in calls, Enqueue(c)
  PROVE  Sealing'
  <1>1. CASE UNCHANGED ingress BY <1>1, SealingKept DEF ingress
  <1>2. CASE Accept(c, home[c.id])
    <2> DEFINE i == home[c.id]
               p == packets[i]
               q == tx[i]
               ready == InputStart(i, c.now) + UartByteUs
               b == [src |-> c.id, seq |-> c.seq]
               e == [value |-> b, readyUs |-> ready]
    <2>1. CASE i \in Stations
      <3>1. /\ tx \in [Stations -> Seq(TimedByte)] /\ packets \in [Stations -> Seq(TxPacket)]
            /\ inputReady \in [Stations -> Nat]
            /\ c.id \in Ids /\ c.seq \in Nat \ {0} /\ c.now \in Nat
        BY DEF IInv, TypeOK
      <3>2. p \in Seq(TxPacket) /\ q \in Seq(TimedByte) /\ inputReady[i] \in Nat
        BY <2>1, <3>1
      <3>3. InputStart(i, c.now) \in Nat BY <3>1, <3>2 DEF InputStart, Later
      <3>4. ready \in Nat /\ ready - UartByteUs = InputStart(i, c.now)
        BY <3>3, UartByteUsNat
      <3>5. e \in TimedByte BY <3>1, <3>4 DEF TimedByte, Byte
      <3>6. Sealed(p, q) BY <2>1 DEF Sealing
      <3>7. /\ packets' = [packets EXCEPT ![i] = Describe(i, c.now)]
            /\ tx' = [tx EXCEPT ![i] = Append(@, e)]
        BY <1>2 DEF Accept
      <3>8. Sealed(Describe(i, c.now), Append(q, e))
        <4>1. CASE NeedsPacket(i, c.now)
          <5>1. Describe(i, c.now) = Append(p, [count |-> 1, lastReadyUs |-> e.readyUs])
            BY <4>1 DEF Describe
          <5>2. \/ p = <<>>
                \/ p[Len(p)].count = MaxBurst
                \/ InputStart(i, c.now) >= p[Len(p)].lastReadyUs + IdleUs
            BY <4>1 DEF NeedsPacket, Last
          <5>3. p # <<>> => p[Len(p)].lastReadyUs \in Nat
            <6>1. p # <<>> => p[Len(p)] \in TxPacket
              <7>1. p # <<>> => Len(p) \in 1 .. Len(p) BY <3>2, EmptySeq, LenProperties
              <7> QED BY <7>1, <3>2, ElementOfSeq
            <6> QED BY <6>1 DEF TxPacket
          <5>4. \/ p = <<>>
                \/ p[Len(p)].count = MaxBurst
                \/ e.readyUs - UartByteUs - p[Len(p)].lastReadyUs >= IdleUs
            <6>1. IdleUs \in Nat BY ProfileAssumption
            <6>2. e.readyUs = ready OBVIOUS
            <6> HIDE DEF p, e, ready
            <6> QED BY <6>1, <6>2, <5>2, <5>3, <3>3, <3>4
          <5> HIDE DEF p, q, e
          <5>5. Sealed(Append(p, [count |-> 1, lastReadyUs |-> e.readyUs]), Append(q, e))
            BY <3>2, <3>5, <3>6, <5>4, SealedNew
          <5> QED BY <5>1, <5>5
        <4>2. CASE ~NeedsPacket(i, c.now)
          <5>1. /\ p # <<>> /\ p[Len(p)].count # MaxBurst
                /\ ~(InputStart(i, c.now) >= p[Len(p)].lastReadyUs + IdleUs)
            BY <4>2 DEF NeedsPacket, Last
          <5>2. Describe(i, c.now) = [p EXCEPT ![Len(p)] = [count |-> @.count + 1, lastReadyUs |-> ready]]
            BY <4>2 DEF Describe
          <5>3. p[Len(p)].lastReadyUs \in Nat
            <6>1. p[Len(p)] \in TxPacket
              <7>1. Len(p) \in 1 .. Len(p) BY <5>1, <3>2, EmptySeq, LenProperties
              <7> QED BY <7>1, <3>2, ElementOfSeq
            <6> QED BY <6>1 DEF TxPacket
          <5>4. e.readyUs - UartByteUs - p[Len(p)].lastReadyUs < IdleUs
            <6>1. IdleUs \in Nat BY ProfileAssumption
            <6>2. e.readyUs = ready OBVIOUS
            <6> HIDE DEF p, e, ready
            <6> QED BY <6>1, <6>2, <5>1, <5>3, <3>3, <3>4
          <5>5. Describe(i, c.now) = [p EXCEPT ![Len(p)] = [count |-> p[Len(p)].count + 1,
                                                          lastReadyUs |-> e.readyUs]]
            BY <5>2
          <5> HIDE DEF p, q, e
          <5>6. Sealed([p EXCEPT ![Len(p)] = [count |-> p[Len(p)].count + 1,
                                             lastReadyUs |-> e.readyUs]], Append(q, e))
            BY <3>2, <3>5, <3>6, <5>1, <5>4, SealedExtend
          <5> QED BY <5>5, <5>6
        <4> QED BY <4>1, <4>2
      <3> HIDE DEF e
      <3>9. ASSUME NEW j \in Stations PROVE Sealed(packets'[j], tx'[j])
        <4>1. CASE j = i BY <4>1, <3>1, <3>7, <3>8, <2>1
        <4>2. CASE j # i
          <5>1. packets'[j] = packets[j] /\ tx'[j] = tx[j] BY <4>2, <3>1, <3>7
          <5> QED BY <5>1 DEF Sealing
        <4> QED BY <4>1, <4>2
      <3> QED BY <3>9 DEF Sealing
    <2>2. CASE i \notin Stations
      <3>1. UNCHANGED <<tx, packets>>
        BY <1>2, <2>2 DEF Accept, IInv, TypeOK
      <3> QED BY <3>1, SealingKept
    <2> QED BY <2>1, <2>2
  <1> QED BY <1>1, <1>2 DEF Enqueue

\* A burst that starts takes the head packet of its sender.
LEMMA SealingTick ==
  ASSUME IInv, Sealing, Tick
  PROVE  Sealing'
  <1> DEFINE now == clock + QuantumUs
  <1>1. \/ AirFree(now) /\ \E step \in 0 .. MaxNodes - 1 : StartBurst(step, now)
        \/ NoStart(now)
    BY DEF Tick
  <1>2. now \in Nat BY ProfileAssumption DEF IInv, TypeOK
  <1> HIDE DEF now
  <1>3. CASE NoStart(now) BY <1>3, SealingKept DEF NoStart
  <1>4. ASSUME AirFree(now), NEW step \in 0 .. MaxNodes - 1, StartBurst(step, now)
        PROVE  Sealing'
    <2> DEFINE i == Turn(step)
               n == Head(packets[i]).count
    <2>1. i \in Stations BY <1>2, <1>4, StartBurstTakes
    <2>2. /\ packets' = [packets EXCEPT ![i] = Tail(@)]
          /\ tx' = [tx EXCEPT ![i] = SubSeq(@, n + 1, Len(@))]
          /\ packets[i] # <<>>
      BY <1>4 DEF StartBurst, Ready
    <2>3. tx \in [Stations -> Seq(TimedByte)] /\ packets \in [Stations -> Seq(TxPacket)]
      BY DEF IInv, TypeOK
    <2>4. Sealed(Tail(packets[i]), SubSeq(tx[i], n + 1, Len(tx[i])))
      <3>1. Sealed(packets[i], tx[i]) BY <2>1 DEF Sealing
      <3>2. packets[i] \in Seq(TxPacket) /\ tx[i] \in Seq(TimedByte) BY <2>1, <2>3
      <3> QED BY <2>2, <3>1, <3>2, SealedTake
    <2> HIDE DEF i, n
    <2>5. ASSUME NEW j \in Stations PROVE Sealed(packets'[j], tx'[j])
      <3>1. CASE j = i BY <3>1, <2>1, <2>2, <2>3, <2>4
      <3>2. CASE j # i
        <4>1. packets'[j] = packets[j] /\ tx'[j] = tx[j] BY <3>2, <2>2, <2>3
        <4> QED BY <4>1 DEF Sealing
      <3> QED BY <3>1, <3>2
    <2> QED BY <2>5 DEF Sealing
  <1> QED BY <1>1, <1>3, <1>4

\* A FIFO that is cut at its idle gaps is cut so by every choice of the cuts.
LEMMA SealingSeals == IInv /\ Sealing => IdleGapSeals
  <1> SUFFICES ASSUME IInv, Sealing, NEW i \in Stations,
                      NEW f \in [0 .. Len(packets[i]) -> 0 .. TxFifo],
                      Cuts(packets[i], tx[i], f), NEW k \in 1 .. Len(tx[i]) - 1
               PROVE  GapAt(packets[i], tx[i], f, k)
    BY DEF IdleGapSeals, GapAt, Ends, EndsFull, GapOf, Gap
  <1> DEFINE p == packets[i]
             q == tx[i]
  <1>1. p \in Seq(TxPacket) /\ q \in Seq(TimedByte) BY DEF IInv, TypeOK
  <1>2. PICK g \in [0 .. Len(p) -> 0 .. Len(q)] :
            Cuts(p, q, g) /\ \A m \in 1 .. Len(q) - 1 : GapAt(p, q, g, m)
    BY DEF Sealing, Sealed
  <1>3. f \in [0 .. Len(p) -> Nat] /\ g \in [0 .. Len(p) -> Nat]
    <2>1. TxFifo \in Nat /\ Len(q) \in Nat BY <1>1, ProfileAssumption, LenProperties
    <2>2. 0 .. TxFifo \subseteq Nat /\ 0 .. Len(q) \subseteq Nat BY <2>1
    <2> HIDE DEF p, q
    <2>3. f \in [0 .. Len(p) -> 0 .. TxFifo] BY DEF p
    <2> QED BY <2>2, <2>3, <1>2
  <1>4. f = g BY <1>1, <1>2, <1>3, CutsUnique
  <1> QED BY <1>2, <1>4

\* A completed idle gap seals the packet for ever: for every profile, two
\* neighbouring bytes of a FIFO share a packet exactly if no idle gap lies between
\* them and the packet has room (Enqueue, Tick).
THEOREM GapsSeal == Spec => []IdleGapSeals
  <1>1. Init => Sealing
    <2>1. ASSUME Init PROVE \A i \in Stations : packets[i] = <<>> /\ tx[i] = <<>>
      BY <2>1 DEF Init, InitNodes
    <2> QED BY <2>1, SealedEmpty DEF Sealing
  <1>2. IInv /\ Sealing /\ [Next]_vars => Sealing'
    <2> SUFFICES ASSUME IInv, Sealing, [Next]_vars PROVE Sealing'
      OBVIOUS
    <2>1. ASSUME NEW i \in Stations, NEW u \in Uarts, Attach(i, u) PROVE Sealing'
      BY <2>1, SealingFresh DEF Attach
    <2>2. ASSUME NEW i \in Stations, DetachFrom(i) PROVE Sealing'
      BY <2>2, SealingFresh DEF DetachFrom
    <2>3. ASSUME NEW l \in Fading, SetLink(l) PROVE Sealing'
      BY <2>3, SealingKept DEF SetLink, ingress
    <2>4. ASSUME NEW a \in Ids, Offer(a) \/ Deliver(a) PROVE Sealing'
      <3>1. UNCHANGED <<tx, packets>> BY <2>4 DEF Offer, Deliver, ingress
      <3> QED BY <3>1, SealingKept
    <2>5. ASSUME NEW c \in calls, Enqueue(c) PROVE Sealing'
      BY <2>5, SealingEnqueue
    <2>6. CASE Tick BY <2>6, SealingTick
    <2>7. CASE UNCHANGED vars BY <2>7, SealingKept DEF vars, ingress
    <2> QED BY <2>1, <2>2, <2>3, <2>4, <2>5, <2>6, <2>7 DEF Next
  <1> QED BY <1>1, <1>2, Invariance, SealingSeals, PTL DEF Spec

=============================================================================
