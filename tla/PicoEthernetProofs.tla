-------------------------- MODULE PicoEthernetProofs --------------------------
(* The Pico-Fi bridge with its TCP sessions, for any limits, any cuts of the      *)
(* streams and any number of sessions: no frame is lost, torn or reordered in     *)
(* either direction, and the UART never costs the session.  The first half is     *)
(* what the recursive definitions of PicoBridge compute.                          *)
EXTENDS PicoEthernet, ListTheorems

-----------------------------------------------------------------------------
(* Sequences of sequences. *)

LEMMA Associative ==
    ASSUME NEW S, NEW a, NEW b, NEW c, a \in Seq(S) /\ b \in Seq(S) /\ c \in Seq(S)
    PROVE  (a \o b) \o c = a \o (b \o c)
BY ConcatAssociative

\* f[i] is the first i sequences of ss in one.
JoinsLeft(ss, f) ==
    f[1] = ss[1] /\ \A i \in 1 .. Len(ss) - 1 : f[i + 1] = f[i] \o ss[i + 1]

\* FlattenSeq is the last of such an f.
LEMMA FlattenJoins ==
    ASSUME NEW S, NEW ss \in Seq(Seq(S)), ss # <<>>
    PROVE  \E f \in [1 .. Len(ss) -> Seq(S)] : JoinsLeft(ss, f) /\ FlattenSeq(ss) = f[Len(ss)]
<1> DEFINE n == Len(ss)
           Q == Seq(S)
           J(f) == [i \in 1 .. n |-> IF i = 1 THEN ss[i] ELSE f[i - 1] \o ss[i]]
<1>1. n \in Nat \ {0} /\ \A i \in 1 .. n : ss[i] \in Q
  BY EmptySeq, ElementOfSeq
<1>2. \E f : f = J(f)
  <2> DEFINE g == [i \in Nat |-> [x \in Q |-> IF i + 1 \in 1 .. n THEN x \o ss[i + 1] ELSE x]]
  <2>1. g \in [Nat -> [Q -> Q]]
    <3>1. ASSUME NEW i \in Nat, NEW x \in Q
          PROVE  (IF i + 1 \in 1 .. n THEN x \o ss[i + 1] ELSE x) \in Q
      <4>1. ASSUME i + 1 \in 1 .. n PROVE x \o ss[i + 1] \in Q
        <5>1. ss[i + 1] \in Q
          BY <1>1, <4>1
        <5> QED
          BY <5>1, ConcatProperties
      <4> QED
        BY <4>1
    <3> HIDE DEF Q, n
    <3> QED
      BY <3>1
  <2>2. \A i \in 0 .. n - 1 : \A x \in Q : g[i][x] = x \o ss[i + 1]
    BY <1>1
  <2> HIDE DEF g
  <2>3. PICK h : Repeats(h, Q, <<>>, g, n)
    <3>1. <<>> \in Q
      BY EmptySeq
    <3> HIDE DEF Q, n
    <3> QED
      BY <1>1, <2>1, <3>1, Repeated
  <2>4. h \in [0 .. n -> Q] /\ h[0] = <<>> /\ \A i \in 0 .. n - 1 : h[i + 1] = h[i] \o ss[i + 1]
    <3> HIDE DEF Q, n
    <3>1. h \in [0 .. n -> Q] /\ h[0] = <<>> /\ \A i \in 0 .. n - 1 : h[i + 1] = g[i][h[i]]
      BY <2>3 DEF Repeats
    <3>2. \A i \in 0 .. n - 1 : h[i] \in Q
      BY <1>1, <3>1
    <3> QED
      BY <2>2, <3>1, <3>2
  <2> DEFINE f == [i \in 1 .. n |-> h[i]]
             fj == J(f)
  <2>5. ASSUME NEW i \in 1 .. n PROVE f[i] = fj[i]
    <3>1. CASE i = 1
      <4>1. h[1] = <<>> \o ss[1] /\ ss[1] \in Q
        <5>1. 0 \in 0 .. n - 1 /\ 0 + 1 = 1 /\ 1 \in 1 .. n
          BY <1>1
        <5> QED
          BY <1>1, <2>4, <5>1
      <4>2. h[1] = ss[1]
        BY <4>1, ConcatEmptySeq
      <4> QED
        BY <3>1, <4>2
    <3>2. CASE i # 1
      <4>1. i - 1 \in 0 .. n - 1 /\ i - 1 \in 1 .. n /\ (i - 1) + 1 = i
        BY <3>2
      <4>2. h[i] = h[i - 1] \o ss[i]
        BY <2>4, <4>1
      <4> QED
        BY <3>2, <4>1, <4>2
    <3> QED
      BY <3>1, <3>2
  <2>6. f = [i \in 1 .. n |-> f[i]] /\ fj = [i \in 1 .. n |-> fj[i]]
    OBVIOUS
  <2>7. f = fj
    <3> HIDE DEF f, fj
    <3>1. [i \in 1 .. n |-> f[i]] = [i \in 1 .. n |-> fj[i]]
      BY <2>5, Zenon
    <3> QED
      BY <2>6, <3>1, Zenon
  <2> QED
    BY <2>7
<1> DEFINE f == CHOOSE f0 : f0 = J(f0)
<1>3. f = J(f)
  <2> HIDE DEF J
  <2> QED
    BY <1>2, Zenon
<1>4. FlattenSeq(ss) = f[n]
  BY <1>1 DEF FlattenSeq
<1> HIDE DEF f
<1>5. /\ f[1] = ss[1]
      /\ \A i \in 1 .. n - 1 : f[i + 1] = f[i] \o ss[i + 1]
  <2> DEFINE fj == J(f)
  <2>1. fj[1] = ss[1]
    BY <1>1
  <2>2. ASSUME NEW i \in 1 .. n - 1 PROVE fj[i + 1] = f[i] \o ss[i + 1]
    <3>1. i + 1 \in 1 .. n /\ i + 1 # 1 /\ (i + 1) - 1 = i
      BY <1>1
    <3> QED
      BY <3>1
  <2> HIDE DEF fj
  <2>3. f = fj
    BY <1>3 DEF fj
  <2> QED
    BY <2>1, <2>2, <2>3
<1>6. f \in [1 .. n -> Q]
  <2> DEFINE T == {i \in Nat : f[i] \in Q}
  <2>1. 1 \in T
    <3>1. 1 \in 1 .. n
      BY <1>1
    <3> QED
      BY <1>1, <1>5, <3>1
  <2>2. ASSUME NEW i \in 1 .. n, i \in T, i + 1 \in 1 .. n PROVE i + 1 \in T
    <3>1. i \in 1 .. n - 1 /\ i + 1 \in Nat
      BY <1>1, <2>2
    <3>2. f[i + 1] = f[i] \o ss[i + 1] /\ f[i] \in Q /\ ss[i + 1] \in Q
      BY <1>1, <1>5, <2>2, <3>1
    <3>3. f[i + 1] \in Q
      BY <3>2, ConcatProperties
    <3> QED
      BY <3>1, <3>3
  <2> HIDE DEF T
  <2>3. 1 .. n \subseteq T
    BY <1>1, <2>1, <2>2, EveryFrom
  <2>4. \A i \in 1 .. n : f[i] \in Q
    BY <2>3 DEF T
  <2>5. f = [i \in 1 .. n |-> f[i]]
    <3> DEFINE fj == J(f)
    <3>1. fj = [i \in 1 .. n |-> fj[i]]
      OBVIOUS
    <3> HIDE DEF fj
    <3>2. f = fj
      BY <1>3 DEF fj
    <3> QED
      BY <3>1, <3>2, Zenon
  <2> HIDE DEF n, Q
  <2>6. [i \in 1 .. n |-> f[i]] \in [1 .. n -> Q]
    BY <2>4, Zenon
  <2> QED
    BY <2>5, <2>6, Zenon
<1> QED
  BY <1>4, <1>5, <1>6 DEF JoinsLeft

LEMMA FlattenEmpty == FlattenSeq(<<>>) = <<>>
BY EmptySeq DEF FlattenSeq

LEMMA FlattenType ==
    ASSUME NEW S, NEW ss \in Seq(Seq(S))
    PROVE  FlattenSeq(ss) \in Seq(S)
<1>1. CASE ss = <<>>
  BY <1>1, FlattenEmpty, EmptySeq
<1>2. CASE ss # <<>>
  <2>1. Len(ss) \in 1 .. Len(ss)
    BY <1>2, EmptySeq
  <2>2. PICK f \in [1 .. Len(ss) -> Seq(S)] : FlattenSeq(ss) = f[Len(ss)]
    BY <1>2, FlattenJoins
  <2> QED
    BY <2>1, <2>2
<1> QED
  BY <1>1, <1>2

\* Two that join the same sequences at one end after another, and at the other.
LEMMA FlattenAppend ==
    ASSUME NEW S, NEW ss \in Seq(Seq(S)), NEW s \in Seq(S)
    PROVE  FlattenSeq(Append(ss, s)) = FlattenSeq(ss) \o s
<1> DEFINE tt == Append(ss, s)
           n == Len(ss)
<1>1. /\ tt \in Seq(Seq(S)) /\ tt # <<>> /\ Len(tt) = n + 1 /\ n \in Nat
      /\ tt[n + 1] = s /\ \A i \in 1 .. n : tt[i] = ss[i]
  BY AppendProperties, LenProperties
<1>0. n = Len(ss)
  OBVIOUS
<1> HIDE DEF tt, n
<1>2. PICK g \in [1 .. n + 1 -> Seq(S)] : JoinsLeft(tt, g) /\ FlattenSeq(tt) = g[n + 1]
  BY <1>1, FlattenJoins
<1>3. g[1] = tt[1] /\ \A i \in 1 .. n : g[i + 1] = g[i] \o tt[i + 1]
  <2>1. (n + 1) - 1 = n
    BY <1>1
  <2> QED
    BY <1>1, <1>2, <2>1, Zenon DEF JoinsLeft
<1>4. CASE ss = <<>>
  <2>1. n = 0
    BY <1>0, <1>4, EmptySeq
  <2>2. FlattenSeq(tt) = s
    BY <1>1, <1>2, <1>3, <2>1
  <2> QED
    BY <1>4, <2>2, FlattenEmpty, ConcatEmptySeq DEF tt
<1>5. CASE ss # <<>>
  <2>1. n \in Nat \ {0}
    BY <1>0, <1>5, EmptySeq
  <2>2. PICK f \in [1 .. n -> Seq(S)] : JoinsLeft(ss, f) /\ FlattenSeq(ss) = f[n]
    BY <1>0, <1>5, FlattenJoins
  <2>3. f[1] = ss[1] /\ \A i \in 1 .. n - 1 : f[i + 1] = f[i] \o ss[i + 1]
    BY <1>0, <2>2, Zenon DEF JoinsLeft
  <2> DEFINE T == {i \in Nat : f[i] = g[i]}
  <2>4. 1 \in T
    <3>1. 1 \in 1 .. n
      BY <2>1
    <3> QED
      BY <1>1, <1>3, <2>3, <3>1
  <2>5. ASSUME NEW i \in 1 .. n, i \in T, i + 1 \in 1 .. n PROVE i + 1 \in T
    <3>1. i \in 1 .. n - 1 /\ i + 1 \in Nat
      BY <2>1, <2>5
    <3>2. f[i + 1] = f[i] \o ss[i + 1] /\ g[i + 1] = g[i] \o tt[i + 1] /\ tt[i + 1] = ss[i + 1]
      BY <1>1, <1>3, <2>3, <2>5, <3>1
    <3> QED
      BY <2>5, <3>1, <3>2
  <2> HIDE DEF T
  <2>6. 1 .. n \subseteq T
    BY <2>1, <2>4, <2>5, EveryFrom
  <2>7. f[n] = g[n]
    <3>1. n \in 1 .. n
      BY <2>1
    <3> QED
      BY <2>6, <3>1 DEF T
  <2>8. g[n + 1] = g[n] \o tt[n + 1]
    <3>1. n \in 1 .. n
      BY <2>1
    <3> QED
      BY <1>3, <3>1, Zenon
  <2> QED
    BY <1>1, <1>2, <2>2, <2>7, <2>8 DEF tt
<1> QED
  BY <1>4, <1>5

LEMMA FlattenHeadTail ==
    ASSUME NEW S, NEW ss \in Seq(Seq(S)), ss # <<>>
    PROVE  FlattenSeq(ss) = Head(ss) \o FlattenSeq(Tail(ss))
<1> DEFINE tt == Tail(ss)
           n == Len(ss)
<1>1. /\ tt \in Seq(Seq(S)) /\ Len(tt) = n - 1 /\ n \in Nat \ {0}
      /\ Head(ss) = ss[1] /\ ss[1] \in Seq(S) /\ \A i \in 1 .. n - 1 : tt[i] = ss[i + 1]
  <2>1. n \in Nat \ {0} /\ 1 \in 1 .. n
    BY EmptySeq
  <2> QED
    BY <2>1, HeadTailProperties, ElementOfSeq
<1>0. n = Len(ss)
  OBVIOUS
<1> HIDE DEF tt, n
<1>2. PICK f \in [1 .. n -> Seq(S)] : JoinsLeft(ss, f) /\ FlattenSeq(ss) = f[n]
  BY <1>0, FlattenJoins
<1>3. f[1] = ss[1] /\ \A i \in 1 .. n - 1 : f[i + 1] = f[i] \o ss[i + 1]
  BY <1>0, <1>2, Zenon DEF JoinsLeft
<1>4. CASE tt = <<>>
  <2>1. n = 1
    BY <1>1, <1>4, EmptySeq
  <2> QED
    BY <1>1, <1>2, <1>3, <1>4, <2>1, FlattenEmpty, ConcatEmptySeq DEF tt
<1>5. CASE tt # <<>>
  <2>1. n - 1 \in Nat \ {0}
    BY <1>1, <1>5, EmptySeq
  <2>2. PICK g \in [1 .. n - 1 -> Seq(S)] : JoinsLeft(tt, g) /\ FlattenSeq(tt) = g[n - 1]
    <3>1. \E g \in [1 .. Len(tt) -> Seq(S)] : JoinsLeft(tt, g) /\ FlattenSeq(tt) = g[Len(tt)]
      BY <1>1, <1>5, FlattenJoins
    <3> QED
      BY <1>1, <3>1
  <2>3. g[1] = tt[1] /\ \A i \in 1 .. n - 2 : g[i + 1] = g[i] \o tt[i + 1]
    <3>1. (n - 1) - 1 = n - 2
      BY <1>1
    <3> QED
      BY <1>1, <2>2, <3>1, Zenon DEF JoinsLeft
  <2> DEFINE T == {i \in Nat : f[i + 1] = ss[1] \o g[i]}
  <2>4. 1 \in T
    <3>1. 1 \in 1 .. n - 1
      BY <1>1, <2>1
    <3>2. f[1 + 1] = f[1] \o ss[1 + 1] /\ tt[1] = ss[1 + 1]
      BY <1>1, <1>3, <3>1
    <3> QED
      BY <1>3, <2>3, <3>2
  <2>5. ASSUME NEW i \in 1 .. n - 1, i \in T, i + 1 \in 1 .. n - 1 PROVE i + 1 \in T
    <3>1. i \in 1 .. n - 2 /\ i + 1 \in Nat
      BY <1>1, <2>1, <2>5
    <3>2. /\ f[(i + 1) + 1] = f[i + 1] \o ss[(i + 1) + 1] /\ g[i + 1] = g[i] \o tt[i + 1]
          /\ tt[i + 1] = ss[(i + 1) + 1] /\ f[i + 1] = ss[1] \o g[i]
      BY <1>1, <1>3, <2>3, <2>5, <3>1
    <3>3. g[i] \in Seq(S) /\ tt[i + 1] \in Seq(S) /\ ss[1] \in Seq(S)
      BY <1>1, <2>5, ElementOfSeq
    <3>4. (ss[1] \o g[i]) \o tt[i + 1] = ss[1] \o (g[i] \o tt[i + 1])
      <4> DEFINE a == ss[1]
                 b == g[i]
                 c == tt[i + 1]
      <4>1. a \in Seq(S) /\ b \in Seq(S) /\ c \in Seq(S)
        BY <3>3
      <4> HIDE DEF a, b, c
      <4>2. (a \o b) \o c = a \o (b \o c)
        BY <4>1, Associative, SMTT(60)
      <4> QED
        BY <4>2 DEF a, b, c
    <3> QED
      BY <3>1, <3>2, <3>4
  <2> HIDE DEF T
  <2>6. 1 .. n - 1 \subseteq T
    BY <2>1, <2>4, <2>5, EveryFrom
  <2>7. n - 1 \in T /\ (n - 1) + 1 = n
    <3>1. n - 1 \in 1 .. n - 1 /\ (n - 1) + 1 = n
      BY <1>1, <2>1
    <3> QED
      BY <2>6, <3>1
  <2>8. f[n] = ss[1] \o g[n - 1]
    BY <2>7 DEF T
  <2> QED
    BY <1>1, <1>2, <2>2, <2>8 DEF tt
<1> QED
  BY <1>4, <1>5

-----------------------------------------------------------------------------
(* Mailboxes. *)

\* What an empty mailbox, a further frame and a taken one cost.
LEMMA CostEmpty == Cost(<<>>) = 0
BY FlattenEmpty, EmptySeq DEF Cost

LEMMA CostAppend ==
    ASSUME NEW frames \in Seq(Seq(Nat)), NEW frame \in Seq(Nat)
    PROVE  Cost(Append(frames, frame)) = Cost(frames) + PacketCost(frame)
<1>1. FlattenSeq(Append(frames, frame)) = FlattenSeq(frames) \o frame
  BY FlattenAppend
<1>2. FlattenSeq(frames) \in Seq(Nat)
  BY FlattenType
<1>3. /\ Len(FlattenSeq(frames) \o frame) = Len(FlattenSeq(frames)) + Len(frame)
      /\ Len(Append(frames, frame)) = Len(frames) + 1
  BY <1>2, ConcatProperties, AppendProperties
<1>4. Len(FlattenSeq(frames)) \in Nat /\ Len(frame) \in Nat /\ Len(frames) \in Nat
  BY <1>2, LenProperties
<1> QED
  BY <1>1, <1>3, <1>4 DEF Cost, PacketCost

LEMMA CostTail ==
    ASSUME NEW frames \in Seq(Seq(Nat)), frames # <<>>
    PROVE  Cost(Tail(frames)) = Cost(frames) - PacketCost(Head(frames))
<1>1. FlattenSeq(frames) = Head(frames) \o FlattenSeq(Tail(frames))
  BY FlattenHeadTail
<1>2. /\ Head(frames) \in Seq(Nat) /\ Tail(frames) \in Seq(Seq(Nat))
      /\ Len(Tail(frames)) = Len(frames) - 1
  BY HeadTailProperties
<1>3. FlattenSeq(Tail(frames)) \in Seq(Nat)
  BY <1>2, FlattenType
<1>4. Len(FlattenSeq(frames)) = Len(Head(frames)) + Len(FlattenSeq(Tail(frames)))
  BY <1>1, <1>2, <1>3, ConcatProperties
<1>5. /\ Len(Head(frames)) \in Nat /\ Len(FlattenSeq(Tail(frames))) \in Nat
      /\ Len(frames) \in Nat
  BY <1>2, <1>3, LenProperties
<1>6. Cost(Tail(frames)) = Len(FlattenSeq(Tail(frames))) - 3 * (Len(frames) - 1)
  BY <1>2 DEF Cost
<1>7. Cost(frames) = Len(Head(frames)) + Len(FlattenSeq(Tail(frames))) - 3 * Len(frames)
  BY <1>4 DEF Cost
<1> DEFINE a == Len(Head(frames))
           b == Len(FlattenSeq(Tail(frames)))
           c == Len(frames)
<1>8. a \in Nat /\ b \in Nat /\ c \in Nat
  BY <1>5
<1>9. PacketCost(Head(frames)) = a - 3
  BY DEF PacketCost
<1> HIDE DEF a, b, c
<1>10. Cost(Tail(frames)) = b - 3 * (c - 1) /\ Cost(frames) = a + b - 3 * c
  BY <1>6, <1>7 DEF a, b, c
<1> QED
  BY <1>8, <1>9, <1>10

\* A frame costs its kind and payload, so a mailbox costs no less than nothing.
LEMMA CostNat ==
    ASSUME NEW frames \in Seq(Seq(Nat)), \A i \in 1 .. Len(frames) : Len(frames[i]) >= 4
    PROVE  Cost(frames) \in Nat
<1>1. CASE frames = <<>>
  BY <1>1, CostEmpty
<1>2. CASE frames # <<>>
  <2> DEFINE n == Len(frames)
  <2>1. n \in Nat \ {0} /\ \A i \in 1 .. n : frames[i] \in Seq(Nat) /\ Len(frames[i]) \in Nat
    BY <1>2, EmptySeq, ElementOfSeq
  <2>2. PICK f \in [1 .. n -> Seq(Nat)] : JoinsLeft(frames, f) /\ FlattenSeq(frames) = f[n]
    BY <1>2, FlattenJoins
  <2>3. \A i \in 1 .. n : Len(frames[i]) >= 4
    OBVIOUS
  <2>4. f[1] = frames[1] /\ \A i \in 1 .. n - 1 : f[i + 1] = f[i] \o frames[i + 1]
    BY <2>2 DEF JoinsLeft
  <2>5. n = Len(frames)
    OBVIOUS
  <2> HIDE DEF n
  <2> DEFINE T == {i \in Nat : Len(f[i]) >= 3 * i}
  <2>6. 1 \in T
    <3>1. 1 \in 1 .. n
      BY <2>1
    <3>2. Len(frames[1]) >= 4 /\ Len(frames[1]) \in Nat
      BY <2>1, <2>3, <3>1
    <3> QED
      BY <2>4, <3>2
  <2>7. ASSUME NEW i \in 1 .. n, i \in T, i + 1 \in 1 .. n PROVE i + 1 \in T
    <3>1. i \in 1 .. n - 1 /\ i + 1 \in Nat /\ i \in Nat
      BY <2>1, <2>7
    <3>2. f[i + 1] = f[i] \o frames[i + 1] /\ f[i] \in Seq(Nat) /\ frames[i + 1] \in Seq(Nat)
      BY <2>1, <2>4, <2>7, <3>1
    <3>3. Len(f[i + 1]) = Len(f[i]) + Len(frames[i + 1]) /\ Len(f[i]) \in Nat
      BY <3>2, ConcatProperties, LenProperties
    <3>4. Len(f[i]) >= 3 * i /\ Len(frames[i + 1]) >= 4 /\ Len(frames[i + 1]) \in Nat
      BY <2>1, <2>3, <2>7
    <3>5. Len(f[i + 1]) >= 3 * (i + 1)
      BY <3>1, <3>3, <3>4
    <3> QED
      BY <3>1, <3>5
  <2> HIDE DEF T
  <2>8. 1 .. n \subseteq T
    BY <2>1, <2>6, <2>7, EveryFrom
  <2>9. n \in 1 .. n
    BY <2>1
  <2>10. Len(f[n]) >= 3 * n
    BY <2>8, <2>9 DEF T
  <2>11. Len(f[n]) \in Nat
    BY <2>9, LenProperties
  <2>12. Cost(frames) = Len(f[n]) - 3 * n
    BY <2>2, <2>5 DEF Cost
  <2> QED
    BY <2>1, <2>10, <2>11, <2>12
<1> QED
  BY <1>1, <1>2

\* A mailbox to the host, and one that only gained frames of F, within its limits.
Box(F) == [packets : Seq(F), bytes : Int]

Gained(box, F, before) ==
    /\ box \in Box(F)
    /\ box.bytes = Cost(box.packets) /\ box.bytes <= HostBytes /\ Len(box.packets) <= HostDepth
    /\ \E more \in Seq(F) : box.packets = before \o more

LEMMA EnqueueTyped ==
    ASSUME NEW F, F \subseteq Seq(Nat), NEW box \in Box(F), NEW frame \in F, NEW connected
    PROVE  EnqueueHost(box, frame, connected) \in Box(F)
<1>1. Append(box.packets, frame) \in Seq(F)
  BY AppendProperties DEF Box
<1>2. box.bytes + PacketCost(frame) \in Int
  BY LenProperties DEF Box, PacketCost
<1> QED
  BY <1>1, <1>2 DEF EnqueueHost, Box

\* enqueue_host_packet appends within the limits or leaves the mailbox alone.
LEMMA EnqueueGains ==
    ASSUME NEW F, F \subseteq Seq(Nat), NEW before \in Seq(F), NEW box, NEW frame \in F,
           NEW connected, Gained(box, F, before)
    PROVE  Gained(EnqueueHost(box, frame, connected), F, before)
<1> DEFINE r == EnqueueHost(box, frame, connected)
<1>1. /\ box \in Box(F) /\ box.packets \in Seq(F) /\ box.bytes \in Int
      /\ box.bytes = Cost(box.packets) /\ box.bytes <= HostBytes /\ Len(box.packets) <= HostDepth
  BY DEF Gained, Box
<1>2. PICK more \in Seq(F) : box.packets = before \o more
  BY DEF Gained
<1>3. CASE HostRefuses(box, frame, connected)
  BY <1>3 DEF EnqueueHost
<1>4. CASE ~HostRefuses(box, frame, connected)
  <2>1. r.packets = Append(box.packets, frame) /\ r.bytes = box.bytes + PacketCost(frame)
    BY <1>4 DEF EnqueueHost
  <2>2. r \in Box(F)
    BY <1>1, EnqueueTyped
  <2>3. box.packets \in Seq(Seq(Nat)) /\ frame \in Seq(Nat)
    BY <1>1, SeqMonotonic
  <2>4. r.bytes = Cost(r.packets)
    BY <1>1, <2>1, <2>3, CostAppend
  <2>5. Len(r.packets) = Len(box.packets) + 1 /\ Len(box.packets) \in Nat
    BY <1>1, <2>1, AppendProperties, LenProperties
  <2>6. ~(Len(box.packets) >= HostDepth) /\ ~(PacketCost(frame) > HostBytes - box.bytes)
    BY <1>4 DEF HostRefuses
  <2>7. PacketCost(frame) \in Int /\ HostBytes \in Nat /\ HostDepth \in Nat
    BY <2>3, PicoAssumption, LenProperties DEF PacketCost
  <2>8. r.bytes <= HostBytes /\ Len(r.packets) <= HostDepth
    BY <1>1, <2>1, <2>5, <2>6, <2>7
  <2>9. Append(more, frame) \in Seq(F) /\ r.packets = before \o Append(more, frame)
    <3>1. <<frame>> \in Seq(F) /\ before \in Seq(F) /\ more \in Seq(F)
      OBVIOUS
    <3>2. r.packets = (before \o more) \o <<frame>>
      BY <1>1, <1>2, <2>1, AppendIsConcat
    <3>3. Append(more, frame) = more \o <<frame>> /\ Append(more, frame) \in Seq(F)
      BY AppendIsConcat, AppendProperties
    <3>4. (before \o more) \o <<frame>> = before \o (more \o <<frame>>)
      BY <3>1, Associative
    <3> QED
      BY <3>2, <3>3, <3>4
  <2> HIDE DEF r
  <2> QED
    BY <2>2, <2>4, <2>8, <2>9 DEF Gained, r
<1> QED
  BY <1>3, <1>4

\* EnqueueEach is the last of the mailboxes after each frame.
LEMMA EachIs ==
    ASSUME NEW F, F \subseteq Seq(Nat), NEW box \in Box(F), NEW frames \in Seq(F), NEW connected
    PROVE  \E f : /\ f[0] = box
                  /\ \A i \in 0 .. Len(frames) - 1 :
                        f[i + 1] = EnqueueHost(f[i], frames[i + 1], connected)
                  /\ EnqueueEach(box, frames, connected) = f[Len(frames)]
<1> DEFINE n == Len(frames)
           B == Box(F)
           J(f) == [i \in 0 .. n |-> IF i = 0 THEN box ELSE EnqueueHost(f[i - 1], frames[i], connected)]
<1>1. n \in Nat /\ \A i \in 1 .. n : frames[i] \in F
  BY LenProperties, ElementOfSeq
<1>2. \E f : f = J(f)
  <2> DEFINE g == [i \in Nat |-> [b \in B |->
                     IF i + 1 \in 1 .. n THEN EnqueueHost(b, frames[i + 1], connected) ELSE b]]
  <2>1. g \in [Nat -> [B -> B]]
    <3>1. ASSUME NEW i \in Nat, NEW b \in B
          PROVE  (IF i + 1 \in 1 .. n THEN EnqueueHost(b, frames[i + 1], connected) ELSE b) \in B
      <4>1. ASSUME i + 1 \in 1 .. n PROVE EnqueueHost(b, frames[i + 1], connected) \in B
        <5>1. frames[i + 1] \in F
          BY <1>1, <4>1
        <5> QED
          BY <5>1, EnqueueTyped
      <4> QED
        BY <4>1
    <3> HIDE DEF B, n
    <3> QED
      BY <3>1
  <2>2. \A i \in 0 .. n - 1 : \A b \in B : g[i][b] = EnqueueHost(b, frames[i + 1], connected)
    BY <1>1
  <2> HIDE DEF g
  <2>3. PICK h : Repeats(h, B, box, g, n)
    <3>1. box \in B
      OBVIOUS
    <3> HIDE DEF B, n
    <3> QED
      BY <1>1, <2>1, <3>1, Repeated
  <2>4. /\ h \in [0 .. n -> B] /\ h[0] = box
        /\ \A i \in 0 .. n - 1 : h[i + 1] = EnqueueHost(h[i], frames[i + 1], connected)
    <3> HIDE DEF B, n
    <3>1. h \in [0 .. n -> B] /\ h[0] = box /\ \A i \in 0 .. n - 1 : h[i + 1] = g[i][h[i]]
      BY <2>3 DEF Repeats
    <3>2. \A i \in 0 .. n - 1 : h[i] \in B
      BY <1>1, <3>1
    <3> QED
      BY <2>2, <3>1, <3>2
  <2> DEFINE hj == J(h)
  <2>5. ASSUME NEW i \in 0 .. n PROVE h[i] = hj[i]
    <3>1. CASE i = 0
      BY <2>4, <3>1
    <3>2. CASE i # 0
      <4>1. i - 1 \in 0 .. n - 1 /\ (i - 1) + 1 = i
        BY <3>2
      <4>2. h[i] = EnqueueHost(h[i - 1], frames[i], connected)
        BY <2>4, <4>1
      <4> QED
        BY <3>2, <4>2
    <3> QED
      BY <3>1, <3>2
  <2>6. h = [i \in 0 .. n |-> h[i]] /\ hj = [i \in 0 .. n |-> hj[i]]
    BY <2>4
  <2>7. h = hj
    <3> HIDE DEF hj
    <3>1. [i \in 0 .. n |-> h[i]] = [i \in 0 .. n |-> hj[i]]
      BY <2>5, Zenon
    <3> QED
      BY <2>6, <3>1, Zenon
  <2> QED
    BY <2>7
<1> DEFINE f == CHOOSE f0 : f0 = J(f0)
<1>3. f = J(f)
  <2> HIDE DEF J
  <2> QED
    BY <1>2, Zenon
<1>4. EnqueueEach(box, frames, connected) = f[n]
  BY <1>1 DEF EnqueueEach
<1> HIDE DEF f
<1> DEFINE fj == J(f)
<1>5. fj[0] = box
  BY <1>1
<1>6. ASSUME NEW i \in 0 .. n - 1 PROVE fj[i + 1] = EnqueueHost(f[i], frames[i + 1], connected)
  <2>1. i + 1 \in 0 .. n /\ i + 1 # 0 /\ (i + 1) - 1 = i
    BY <1>1
  <2> QED
    BY <2>1
<1>7. f = fj
  BY <1>3
<1> HIDE DEF fj
<1> QED
  BY <1>4, <1>5, <1>6, <1>7

\* So a read only adds frames at the end, within the limits, and adds none while no
\* session is up.
LEMMA EachGains ==
    ASSUME NEW F, F \subseteq Seq(Nat), NEW before \in Seq(F), NEW box, NEW frames \in Seq(F),
           NEW connected, Gained(box, F, before)
    PROVE  /\ Gained(EnqueueEach(box, frames, connected), F, before)
           /\ ~connected => EnqueueEach(box, frames, connected) = box
<1>1. box \in Box(F)
  BY DEF Gained
<1> DEFINE n == Len(frames)
<1>2. PICK f : /\ f[0] = box
               /\ \A i \in 0 .. n - 1 : f[i + 1] = EnqueueHost(f[i], frames[i + 1], connected)
               /\ EnqueueEach(box, frames, connected) = f[n]
  BY <1>1, EachIs
<1>3. n \in Nat /\ \A i \in 1 .. n : frames[i] \in F
  BY LenProperties, ElementOfSeq
<1> HIDE DEF n
<1> DEFINE T == {i \in Nat : Gained(f[i], F, before) /\ (~connected => f[i] = box)}
<1>4. 0 \in T
  BY <1>2
<1>5. ASSUME NEW i \in 0 .. n, i \in T, i + 1 \in 0 .. n PROVE i + 1 \in T
  <2>1. i \in 0 .. n - 1 /\ i + 1 \in 1 .. n /\ i + 1 \in Nat
    BY <1>3, <1>5
  <2>2. f[i + 1] = EnqueueHost(f[i], frames[i + 1], connected) /\ frames[i + 1] \in F
    BY <1>2, <1>3, <2>1
  <2>3. Gained(f[i], F, before) /\ (~connected => f[i] = box)
    BY <1>5
  <2>4. Gained(f[i + 1], F, before)
    BY <2>2, <2>3, EnqueueGains
  <2>5. ~connected => f[i + 1] = f[i]
    BY <2>2 DEF EnqueueHost, HostRefuses
  <2> QED
    BY <2>1, <2>3, <2>4, <2>5
<1> HIDE DEF T
<1>6. 0 .. n \subseteq T
  BY <1>3, <1>4, <1>5, EveryFrom
<1>7. n \in T
  BY <1>3, <1>6
<1> QED
  BY <1>2, <1>7 DEF T

-----------------------------------------------------------------------------
(* Bytes. *)

\* What is dropped from the front, and what is left.
LEMMA DropIs ==
    ASSUME NEW S, NEW s \in Seq(S), NEW n \in 0 .. Len(s)
    PROVE  /\ Drop(s, n) \in Seq(S) /\ Len(Drop(s, n)) = Len(s) - n
           /\ \A i \in 1 .. Len(s) - n : Drop(s, n)[i] = s[n + i]
<1>1. Len(s) \in Nat /\ \A i \in n + 1 .. Len(s) : s[i] \in S
  BY LenProperties, ElementOfSeq
<1>2. /\ SubSeq(s, n + 1, Len(s)) \in Seq(S)
      /\ Len(SubSeq(s, n + 1, Len(s))) = IF n + 1 <= Len(s) THEN Len(s) - (n + 1) + 1 ELSE 0
      /\ \A i \in 1 .. Len(s) - (n + 1) + 1 : SubSeq(s, n + 1, Len(s))[i] = s[(n + 1) + i - 1]
  <2>1. n + 1 \in Int /\ Len(s) \in Int
    BY <1>1
  <2> QED
    BY <1>1, <2>1, SubSeqProperties
<1> DEFINE d == SubSeq(s, n + 1, Len(s))
           l == Len(s)
<1>3. /\ d \in Seq(S) /\ Len(d) = IF n + 1 <= l THEN l - (n + 1) + 1 ELSE 0
      /\ \A i \in 1 .. l - (n + 1) + 1 : d[i] = s[(n + 1) + i - 1]
  BY <1>2
<1>4. Drop(s, n) = d /\ l \in Nat /\ n \in 0 .. l
  BY <1>1 DEF Drop
<1>5. l = Len(s)
  OBVIOUS
<1> HIDE DEF d, l
<1>6. Len(d) = l - n
  BY <1>3, <1>4
<1>7. ASSUME NEW i \in 1 .. l - n PROVE d[i] = s[n + i]
  <2>1. i \in 1 .. l - (n + 1) + 1 /\ (n + 1) + i - 1 = n + i
    BY <1>4
  <2> QED
    BY <1>3, <2>1
<1> QED
  BY <1>3, <1>4, <1>5, <1>6, <1>7

\* The same of what is taken.
LEMMA TakeIs ==
    ASSUME NEW S, NEW s \in Seq(S), NEW n \in 0 .. Len(s)
    PROVE  /\ SubSeq(s, 1, n) \in Seq(S) /\ Len(SubSeq(s, 1, n)) = n
           /\ \A i \in 1 .. n : SubSeq(s, 1, n)[i] = s[i]
<1>1. Len(s) \in Nat /\ \A i \in 1 .. n : s[i] \in S
  BY LenProperties, ElementOfSeq
<1>2. /\ SubSeq(s, 1, n) \in Seq(S)
      /\ Len(SubSeq(s, 1, n)) = IF 1 <= n THEN n - 1 + 1 ELSE 0
      /\ \A i \in 1 .. n - 1 + 1 : SubSeq(s, 1, n)[i] = s[1 + i - 1]
  <2>1. n \in Int /\ 1 \in Int
    BY <1>1
  <2> QED
    BY <1>1, <2>1, SubSeqProperties
<1> DEFINE d == SubSeq(s, 1, n)
<1>3. /\ d \in Seq(S) /\ Len(d) = IF 1 <= n THEN n - 1 + 1 ELSE 0
      /\ \A i \in 1 .. n - 1 + 1 : d[i] = s[1 + i - 1]
  BY <1>2
<1> HIDE DEF d
<1>4. n \in Nat
  BY <1>1
<1>5. Len(d) = n
  BY <1>3, <1>4
<1>6. ASSUME NEW i \in 1 .. n PROVE d[i] = s[i]
  <2>1. i \in 1 .. n - 1 + 1 /\ 1 + i - 1 = i
    BY <1>4
  <2> QED
    BY <1>3, <2>1
<1> QED
  BY <1>3, <1>5, <1>6 DEF d

LEMMA DropNone ==
    ASSUME NEW S, NEW s \in Seq(S)
    PROVE  Drop(s, 0) = s
BY SubSeqFull DEF Drop

LEMMA DropAll ==
    ASSUME NEW S, NEW s \in Seq(S)
    PROVE  Drop(s, Len(s)) = <<>>
<1>1. Len(s) \in Nat
  BY LenProperties
<1> QED
  BY <1>1, SubSeqEmpty DEF Drop

\* A cut in the first of two.
LEMMA DropConcat ==
    ASSUME NEW S, NEW a \in Seq(S), NEW b \in Seq(S), NEW n \in 0 .. Len(a)
    PROVE  Drop(a \o b, n) = Drop(a, n) \o b
<1> DEFINE l == Drop(a \o b, n)
           r == Drop(a, n) \o b
           d == Drop(a, n)
           c == a \o b
<1>1. /\ c \in Seq(S) /\ Len(c) = Len(a) + Len(b) /\ Len(a) \in Nat /\ Len(b) \in Nat
      /\ \A i \in 1 .. Len(a) + Len(b) : c[i] = IF i <= Len(a) THEN a[i] ELSE b[i - Len(a)]
  BY ConcatProperties, LenProperties
<1>2. /\ d \in Seq(S) /\ Len(d) = Len(a) - n
      /\ \A i \in 1 .. Len(a) - n : d[i] = a[n + i]
  BY DropIs
<1>3. /\ l \in Seq(S) /\ Len(l) = Len(c) - n
      /\ \A i \in 1 .. Len(c) - n : l[i] = c[n + i]
  <2>1. n \in 0 .. Len(c)
    BY <1>1
  <2> HIDE DEF c
  <2> QED
    BY <1>1, <2>1, DropIs DEF c
<1>4. /\ r \in Seq(S) /\ Len(r) = Len(d) + Len(b)
      /\ \A i \in 1 .. Len(d) + Len(b) : r[i] = IF i <= Len(d) THEN d[i] ELSE b[i - Len(d)]
  BY <1>2, ConcatProperties
<1> DEFINE la == Len(a)
           lb == Len(b)
<1>5. /\ la \in Nat /\ lb \in Nat /\ n \in 0 .. la
      /\ Len(c) = la + lb /\ Len(d) = la - n
      /\ \A i \in 1 .. la + lb : c[i] = IF i <= la THEN a[i] ELSE b[i - la]
      /\ \A i \in 1 .. la - n : d[i] = a[n + i]
  BY <1>1, <1>2
<1> HIDE DEF la, lb, l, r, c, d
<1>6. Len(l) = la + lb - n /\ Len(r) = la + lb - n
  BY <1>3, <1>4, <1>5 DEF lb
<1>7. ASSUME NEW i \in 1 .. la + lb - n PROVE l[i] = r[i]
  <2>1. i \in 1 .. Len(c) - n /\ i \in 1 .. Len(d) + Len(b) /\ n + i \in 1 .. la + lb
    BY <1>5 DEF lb
  <2>2. l[i] = c[n + i] /\ r[i] = IF i <= la - n THEN d[i] ELSE b[i - (la - n)]
    BY <1>3, <1>4, <1>5, <2>1
  <2>3. CASE i <= la - n
    <3>1. n + i <= la /\ i \in 1 .. la - n
      BY <1>5, <2>3
    <3> QED
      BY <1>5, <2>1, <2>2, <2>3, <3>1
  <2>4. CASE ~(i <= la - n)
    <3>1. ~(n + i <= la) /\ (n + i) - la = i - (la - n)
      BY <1>5, <2>4
    <3> QED
      BY <1>5, <2>1, <2>2, <2>4, <3>1
  <2> QED
    BY <2>3, <2>4
<1>8. l = r
  <2>1. \A i \in 1 .. Len(l) : l[i] = r[i]
    BY <1>6, <1>7
  <2> QED
    BY <1>3, <1>4, <1>6, <2>1, SeqEqual
<1> QED
  BY <1>8 DEF l, r

LEMMA TakeConcat ==
    ASSUME NEW S, NEW a \in Seq(S), NEW b \in Seq(S), NEW n \in 1 .. Len(a)
    PROVE  SubSeq(a \o b, 1, n) = SubSeq(a, 1, n)
<1>1. Len(a) \in Nat /\ 1 \in 1 .. Len(a)
  BY LenProperties
<1> QED
  BY <1>1, SubSeqOfConcat1

-----------------------------------------------------------------------------
(* Looking for a sync pair. *)

Bytes == Seq(Nat)
Begins(x) == x \in {pair[1] : pair \in Sync}

LEMMA SyncAtIs ==
    ASSUME NEW s \in Bytes
    PROVE  SyncAt(s) = {i \in 1 .. Len(s) - 1 : <<s[i], s[i + 1]>> \in Sync}
<1>1. ASSUME NEW i \in 1 .. Len(s) - 1 PROVE SubSeq(s, i, i + 1) = <<s[i], s[i + 1]>>
  <2> DEFINE t == SubSeq(s, i, i + 1)
             u == <<s[i], s[i + 1]>>
  <2>1. Len(s) \in Nat /\ i \in Int /\ i + 1 \in Int /\ \A j \in 1 .. Len(s) : s[j] \in Nat
    BY LenProperties, ElementOfSeq DEF Bytes
  <2>2. /\ t \in Seq(Nat) /\ Len(t) = IF i <= i + 1 THEN (i + 1) - i + 1 ELSE 0
        /\ \A j \in 1 .. (i + 1) - i + 1 : t[j] = s[i + j - 1]
    <3>1. \A j \in i .. i + 1 : s[j] \in Nat
      BY <2>1
    <3> QED
      BY <2>1, <3>1, SubSeqProperties
  <2> HIDE DEF t
  <2>3. t \in Seq(Nat) /\ Len(t) = 2 /\ t[1] = s[i] /\ t[2] = s[i + 1]
    <3>1. (i + 1) - i + 1 = 2 /\ i <= i + 1 /\ i + 1 - 1 = i /\ i + 2 - 1 = i + 1
      BY <2>1
    <3>2. 1 \in 1 .. (i + 1) - i + 1 /\ 2 \in 1 .. (i + 1) - i + 1
      BY <3>1
    <3>3. t[1] = s[i + 1 - 1] /\ t[2] = s[i + 2 - 1]
      BY <2>2, <3>2
    <3> QED
      BY <2>2, <3>1, <3>3
  <2>4. u \in Seq(Nat) /\ Len(u) = 2 /\ u[1] = s[i] /\ u[2] = s[i + 1]
    BY <2>1
  <2> HIDE DEF u
  <2>5. t = u
    <3>1. \A j \in 1 .. Len(t) : t[j] = u[j]
      BY <2>3, <2>4
    <3> QED
      BY <2>3, <2>4, <3>1, SeqEqual
  <2> QED
    BY <2>5 DEF t, u
<1> QED
  BY <1>1 DEF SyncAt

LEMMA SyncAtIn ==
    ASSUME NEW s \in Bytes
    PROVE  SyncAt(s) \subseteq 1 .. Len(s) - 1 /\ Len(s) \in Nat
<1>1. Len(s) \in Nat
  BY LenProperties DEF Bytes
<1> QED
  BY <1>1 DEF SyncAt

LEMMA SyncBegins ==
    ASSUME NEW x, NEW y, <<x, y>> \in Sync
    PROVE  Begins(x)
BY DEF Begins, Sync, DataSync, CommandSync

\* The first is the one no other is before.
LEMMA FirstSyncIs ==
    ASSUME NEW s \in Bytes
    PROVE  /\ SyncAt(s) # {} => /\ FirstSync(s) \in SyncAt(s)
                                /\ \A j \in SyncAt(s) : FirstSync(s) <= j
           /\ \A i \in SyncAt(s) : (\A j \in SyncAt(s) : i <= j) => FirstSync(s) = i
<1>1. SyncAt(s) \subseteq Nat
  <2>1. SyncAt(s) \subseteq 1 .. Len(s) - 1 /\ Len(s) \in Nat
    BY SyncAtIn
  <2> QED
    BY <2>1
<1>2. ASSUME SyncAt(s) # {}
      PROVE  FirstSync(s) \in SyncAt(s) /\ \A j \in SyncAt(s) : FirstSync(s) <= j
  <2>1. \E i \in SyncAt(s) : \A j \in SyncAt(s) : i <= j
    BY <1>1, <1>2, Smallest
  <2> QED
    BY <2>1 DEF FirstSync
<1>3. ASSUME NEW i \in SyncAt(s), \A j \in SyncAt(s) : i <= j PROVE FirstSync(s) = i
  <2>1. FirstSync(s) \in SyncAt(s) /\ \A j \in SyncAt(s) : FirstSync(s) <= j
    BY <1>2
  <2>2. FirstSync(s) <= i /\ i <= FirstSync(s) /\ i \in Nat /\ FirstSync(s) \in Nat
    BY <1>1, <1>3, <2>1
  <2> QED
    BY <2>2
<1> QED
  BY <1>2, <1>3

LEMMA TrailingIs ==
    ASSUME NEW s \in Bytes
    PROVE  /\ Trailing(s) \in Bytes /\ Len(Trailing(s)) <= 1 /\ Len(Trailing(s)) <= Len(s)
           /\ s # <<>> /\ Begins(s[Len(s)]) => Trailing(s) = <<s[Len(s)]>>
           /\ ~(s # <<>> /\ Begins(s[Len(s)])) => Trailing(s) = <<>>
<1>1. s # <<>> => Len(s) \in Nat \ {0} /\ s[Len(s)] \in Nat
  <2> SUFFICES ASSUME s # <<>> PROVE Len(s) \in Nat \ {0} /\ s[Len(s)] \in Nat
    OBVIOUS
  <2>1. Len(s) \in Nat \ {0}
    BY EmptySeq DEF Bytes
  <2>2. Len(s) \in 1 .. Len(s)
    BY <2>1
  <2> QED
    BY <2>1, <2>2, ElementOfSeq DEF Bytes
<1>2. /\ s # <<>> /\ Begins(s[Len(s)]) => Trailing(s) = <<s[Len(s)]>>
      /\ ~(s # <<>> /\ Begins(s[Len(s)])) => Trailing(s) = <<>>
  BY DEF Trailing, Begins, Last
<1>3. CASE s # <<>> /\ Begins(s[Len(s)])
  <2>1. Trailing(s) = <<s[Len(s)]>> /\ s[Len(s)] \in Nat /\ Len(s) \in Nat \ {0}
    BY <1>1, <1>2, <1>3
  <2>2. <<s[Len(s)]>> \in Seq(Nat) /\ Len(<<s[Len(s)]>>) = 1
    BY <2>1
  <2> QED
    BY <1>2, <2>1, <2>2 DEF Bytes
<1>4. CASE ~(s # <<>> /\ Begins(s[Len(s)]))
  <2>1. Trailing(s) = <<>> /\ <<>> \in Seq(Nat) /\ Len(<<>>) = 0 /\ Len(s) \in Nat
    BY <1>2, <1>4, EmptySeq, LenProperties DEF Bytes
  <2> QED
    BY <1>2, <2>1 DEF Bytes
<1> QED
  BY <1>3, <1>4

\* What is kept is at most what there was; two bytes of it are a sync pair.
LEMMA SyncedTyped ==
    ASSUME NEW s \in Bytes
    PROVE  /\ Synced(s) \in Bytes /\ Len(Synced(s)) <= Len(s)
           /\ Len(Synced(s)) >= 2 => /\ SyncAt(s) # {} /\ FirstSync(s) \in 1 .. Len(s) - 1
                                     /\ Synced(s) = Drop(s, FirstSync(s) - 1)
           /\ SyncAt(s) # {} => Len(Synced(s)) >= 2 /\ 1 \in SyncAt(Synced(s))
<1>0. Len(s) \in Nat
  BY LenProperties DEF Bytes
<1>1. CASE SyncAt(s) = {}
  BY <1>0, <1>1, TrailingIs DEF Synced
<1>2. CASE SyncAt(s) # {}
  <2> DEFINE i == FirstSync(s)
             d == Drop(s, i - 1)
  <2>1. i \in 1 .. Len(s) - 1 /\ <<s[i], s[i + 1]>> \in Sync
    BY <1>2, FirstSyncIs, SyncAtIs
  <2> HIDE DEF i
  <2>2. i - 1 \in 0 .. Len(s) /\ (i - 1) + 1 = i /\ (i - 1) + 2 = i + 1
    BY <1>0, <2>1
  <2>3. /\ d \in Bytes /\ Len(d) = Len(s) - (i - 1)
        /\ \A j \in 1 .. Len(s) - (i - 1) : d[j] = s[(i - 1) + j]
    BY <2>2, DropIs DEF Bytes
  <2> HIDE DEF d
  <2>4. Len(d) >= 2 /\ Len(d) <= Len(s)
    BY <1>0, <2>1, <2>3
  <2>5. d[1] = s[i] /\ d[2] = s[i + 1]
    <3>1. 1 \in 1 .. Len(s) - (i - 1) /\ 2 \in 1 .. Len(s) - (i - 1)
      BY <1>0, <2>1
    <3> QED
      BY <2>2, <2>3, <3>1
  <2>6. 1 \in SyncAt(d)
    <3>1. 1 \in 1 .. Len(d) - 1
      BY <1>0, <2>1, <2>3
    <3>2. 1 + 1 = 2
      OBVIOUS
    <3> QED
      BY <2>1, <2>3, <2>5, <3>1, <3>2, SyncAtIs
  <2>7. Synced(s) = d
    BY <1>2 DEF Synced, d, i
  <2> QED
    BY <1>2, <2>1, <2>3, <2>4, <2>6, <2>7 DEF d, i
<1> QED
  BY <1>1, <1>2

\* A sync pair that was found stays the first when more bytes come.
LEMMA SyncedLong ==
    ASSUME NEW a \in Bytes, NEW b \in Bytes, Len(Synced(a)) >= 2
    PROVE  Synced(a \o b) = Synced(a) \o b
<1> DEFINE i == FirstSync(a)
           c == a \o b
           n == Len(a)
<1>1. SyncAt(a) # {} /\ i \in 1 .. n - 1 /\ Synced(a) = Drop(a, i - 1)
  BY SyncedTyped
<1>2. i \in SyncAt(a) /\ \A j \in SyncAt(a) : i <= j
  BY <1>1, FirstSyncIs
<1>3. /\ c \in Bytes /\ Len(c) = n + Len(b) /\ n \in Nat /\ Len(b) \in Nat
      /\ \A j \in 1 .. n + Len(b) : c[j] = IF j <= n THEN a[j] ELSE b[j - n]
  BY ConcatProperties, LenProperties DEF Bytes
<1>4. /\ SyncAt(a) = {j \in 1 .. n - 1 : <<a[j], a[j + 1]>> \in Sync}
      /\ SyncAt(c) = {j \in 1 .. Len(c) - 1 : <<c[j], c[j + 1]>> \in Sync}
  <2>1. SyncAt(a) = {j \in 1 .. n - 1 : <<a[j], a[j + 1]>> \in Sync}
    BY SyncAtIs
  <2> HIDE DEF c
  <2> QED
    BY <1>3, <2>1, SyncAtIs
<1>5. Drop(c, i - 1) = Drop(a, i - 1) \o b
  <2>1. i - 1 \in 0 .. n
    BY <1>1, <1>3
  <2> HIDE DEF i
  <2> QED
    BY <2>1, DropConcat DEF Bytes
<1> HIDE DEF i, c, n
<1>6. ASSUME NEW j \in 1 .. n - 1 PROVE j \in SyncAt(a) <=> j \in SyncAt(c)
  <2>1. j \in 1 .. n + Len(b) /\ j <= n /\ j + 1 \in 1 .. n + Len(b) /\ j + 1 <= n
    BY <1>3
  <2>2. c[j] = a[j] /\ c[j + 1] = a[j + 1] /\ j \in 1 .. Len(c) - 1
    BY <1>3, <2>1
  <2> QED
    BY <1>4, <2>2
<1>7. FirstSync(c) = i
  <2>1. i \in SyncAt(c)
    BY <1>1, <1>2, <1>6
  <2>2. ASSUME NEW j \in SyncAt(c) PROVE i <= j
    <3>1. CASE j \in 1 .. n - 1
      BY <1>2, <1>6, <3>1
    <3>2. CASE j \notin 1 .. n - 1
      BY <1>1, <1>3, <1>4, <3>2
    <3> QED
      BY <3>1, <3>2
  <2> QED
    BY <1>3, <2>1, <2>2, FirstSyncIs
<1>8. SyncAt(c) # {}
  BY <1>1, <1>2, <1>6
<1> QED
  BY <1>1, <1>5, <1>7, <1>8 DEF Synced, c

\* k bytes without a sync pair that begins in them do not count.
LEMMA SyncedShift ==
    ASSUME NEW c \in Bytes, NEW d \in Bytes, NEW k \in Nat, Len(c) = Len(d) + k,
           \A j \in 1 .. Len(d) : c[j + k] = d[j],
           \A i \in SyncAt(c) : i > k,
           Len(d) = 0 => Trailing(c) = <<>>
    PROVE  Synced(c) = Synced(d)
<1> DEFINE n == Len(d)
<1>1. n \in Nat /\ Len(c) = n + k /\ \A j \in 1 .. n : c[j + k] = d[j]
  BY LenProperties DEF Bytes
<1>2. /\ SyncAt(c) = {j \in 1 .. n + k - 1 : <<c[j], c[j + 1]>> \in Sync}
      /\ SyncAt(d) = {j \in 1 .. n - 1 : <<d[j], d[j + 1]>> \in Sync}
  <2>1. /\ SyncAt(c) = {j \in 1 .. Len(c) - 1 : <<c[j], c[j + 1]>> \in Sync}
        /\ SyncAt(d) = {j \in 1 .. Len(d) - 1 : <<d[j], d[j + 1]>> \in Sync}
    BY SyncAtIs
  <2> QED
    BY <1>1, <2>1
<1>0. n = Len(d)
  OBVIOUS
<1> HIDE DEF n
<1>3. ASSUME NEW j \in 1 .. n - 1 PROVE j \in SyncAt(d) <=> j + k \in SyncAt(c)
  <2>1. j \in 1 .. n /\ j + 1 \in 1 .. n /\ (j + 1) + k = (j + k) + 1 /\ j + k \in 1 .. n + k - 1
    BY <1>1
  <2>2. c[j + k] = d[j] /\ c[(j + k) + 1] = d[j + 1]
    BY <1>1, <2>1
  <2> QED
    BY <1>2, <2>1, <2>2
<1>4. ASSUME NEW i \in SyncAt(c) PROVE i - k \in 1 .. n - 1 /\ i - k \in SyncAt(d)
  <2>1. i > k /\ i \in 1 .. n + k - 1
    BY <1>2
  <2>2. i - k \in 1 .. n - 1 /\ (i - k) + k = i
    BY <1>1, <2>1
  <2> QED
    BY <1>3, <2>2
<1>5. SyncAt(d) \subseteq 1 .. n - 1
  BY <1>2
<1>6. CASE SyncAt(c) = {}
  <2>1. SyncAt(d) = {}
    BY <1>3, <1>5, <1>6
  <2>2. Trailing(c) = Trailing(d)
    <3>1. CASE n = 0
      <4>1. d = <<>>
        BY <1>0, <3>1, EmptySeq DEF Bytes
      <4> QED
        BY <1>0, <3>1, <4>1 DEF Trailing
    <3>2. CASE n # 0
      <4>1. n \in 1 .. n /\ Len(c) # 0
        BY <1>1, <3>2
      <4>2. c[Len(c)] = d[Len(d)]
        BY <1>0, <1>1, <4>1
      <4>3. c # <<>> /\ d # <<>>
        BY <1>0, <3>2, <4>1, EmptySeq
      <4> QED
        BY <4>2, <4>3 DEF Trailing, Last
    <3> QED
      BY <3>1, <3>2
  <2> QED
    BY <1>6, <2>1, <2>2 DEF Synced
<1>7. CASE SyncAt(c) # {}
  <2>1. PICK i \in SyncAt(c) : \A j \in SyncAt(c) : i <= j
    BY <1>7, FirstSyncIs
  <2>2. i - k \in SyncAt(d) /\ i - k \in 1 .. n - 1 /\ i \in Int
    BY <1>2, <1>4, <2>1
  <2>3. ASSUME NEW j \in SyncAt(d) PROVE i - k <= j
    <3>1. j + k \in SyncAt(c) /\ j \in Int
      BY <1>3, <1>5
    <3>2. i <= j + k
      BY <2>1, <3>1
    <3> QED
      BY <2>2, <3>1, <3>2
  <2>4. FirstSync(c) = i /\ FirstSync(d) = i - k /\ SyncAt(d) # {}
    BY <2>1, <2>2, <2>3, FirstSyncIs
  <2> DEFINE l == Drop(c, i - 1)
             r == Drop(d, (i - k) - 1)
  <2>5. /\ l \in Bytes /\ Len(l) = (n + k) - (i - 1)
        /\ \A j \in 1 .. (n + k) - (i - 1) : l[j] = c[(i - 1) + j]
    <3>1. i - 1 \in 0 .. Len(c)
      BY <1>1, <2>2
    <3>2. /\ l \in Bytes /\ Len(l) = Len(c) - (i - 1)
          /\ \A j \in 1 .. Len(c) - (i - 1) : l[j] = c[(i - 1) + j]
      BY <3>1, DropIs DEF Bytes
    <3> HIDE DEF l
    <3> QED
      BY <1>1, <3>2
  <2>6. /\ r \in Bytes /\ Len(r) = n - ((i - k) - 1)
        /\ \A j \in 1 .. n - ((i - k) - 1) : r[j] = d[((i - k) - 1) + j]
    <3>1. (i - k) - 1 \in 0 .. Len(d)
      BY <1>0, <1>1, <2>2
    <3> QED
      BY <1>0, <3>1, DropIs DEF Bytes
  <2> HIDE DEF l, r
  <2>7. Len(l) = Len(r)
    BY <1>1, <2>2, <2>5, <2>6
  <2>8. ASSUME NEW j \in 1 .. Len(l) PROVE l[j] = r[j]
    <3>1. /\ j \in 1 .. (n + k) - (i - 1) /\ j \in 1 .. n - ((i - k) - 1)
          /\ ((i - k) - 1) + j \in 1 .. n /\ (((i - k) - 1) + j) + k = (i - 1) + j
      BY <1>1, <2>2, <2>5
    <3> QED
      BY <1>1, <2>5, <2>6, <3>1
  <2>9. l = r
    BY <2>5, <2>6, <2>7, <2>8, SeqEqual DEF Bytes
  <2> QED
    BY <1>7, <2>4, <2>9 DEF Synced, l, r
<1> QED
  BY <1>6, <1>7

\* A read that ends anywhere loses no sync pair: looking through a first and keeping
\* what Synced keeps finds the same in what follows.
LEMMA SyncedSplit ==
    ASSUME NEW a \in Bytes, NEW b \in Bytes
    PROVE  Synced(a \o b) = Synced(Synced(a) \o b)
<1>1. CASE SyncAt(a) # {}
  <2> DEFINE r == Synced(a)
  <2>1. r \in Bytes /\ Len(r) >= 2 /\ 1 \in SyncAt(r)
    BY <1>1, SyncedTyped
  <2>2. Synced(a \o b) = r \o b
    BY <2>1, SyncedLong
  <2> HIDE DEF r
  <2>3. FirstSync(r) = 1 /\ SyncAt(r) # {}
    <3>1. \A j \in SyncAt(r) : 1 <= j
      BY <2>1, SyncAtIn
    <3> QED
      BY <2>1, <3>1, FirstSyncIs
  <2>4. Synced(r) = r
    <3>1. 1 - 1 = 0
      OBVIOUS
    <3> QED
      BY <2>1, <2>3, <3>1, DropNone DEF Synced, Bytes
  <2>5. Synced(r \o b) = r \o b
    BY <2>1, <2>4, SyncedLong
  <2> QED
    BY <2>2, <2>5 DEF r
<1>2. CASE SyncAt(a) = {}
  <2> DEFINE t == Trailing(a)
             c == a \o b
             d == t \o b
             k == Len(a) - Len(t)
             n == Len(a)
  <2>1. /\ t \in Bytes /\ Len(t) <= 1 /\ Len(t) <= n
        /\ a # <<>> /\ Begins(a[n]) => t = <<a[n]>>
        /\ ~(a # <<>> /\ Begins(a[n])) => t = <<>>
    BY TrailingIs
  <2>2. n \in Nat /\ Len(t) \in Nat /\ Len(b) \in Nat
    <3> HIDE DEF t
    <3> QED
      BY <2>1, LenProperties DEF Bytes
  <2>3. /\ c \in Bytes /\ Len(c) = n + Len(b)
        /\ \A j \in 1 .. n + Len(b) : c[j] = IF j <= n THEN a[j] ELSE b[j - n]
    BY ConcatProperties DEF Bytes
  <2>4. /\ d \in Bytes /\ Len(d) = Len(t) + Len(b)
        /\ \A j \in 1 .. Len(t) + Len(b) : d[j] = IF j <= Len(t) THEN t[j] ELSE b[j - Len(t)]
    <3> HIDE DEF t
    <3> QED
      BY <2>1, ConcatProperties DEF Bytes
  <2>5. Synced(a) = t
    BY <1>2 DEF Synced
  <2>6. SyncAt(a) = {j \in 1 .. n - 1 : <<a[j], a[j + 1]>> \in Sync}
    BY SyncAtIs
  <2>7. SyncAt(c) = {j \in 1 .. Len(c) - 1 : <<c[j], c[j + 1]>> \in Sync}
    <3> HIDE DEF c
    <3> QED
      BY <2>3, SyncAtIs
  <2>8. k = n - Len(t) /\ n = Len(a)
    OBVIOUS
  <2>9. a = <<>> <=> n = 0
    BY EmptySeq DEF Bytes
  <2> HIDE DEF t, c, d, k, n
  <2>10. k \in Nat /\ Len(c) = Len(d) + k
    BY <2>1, <2>2, <2>3, <2>4, <2>8
  <2>11. ASSUME NEW j \in 1 .. Len(d) PROVE c[j + k] = d[j]
    <3>1. j + k \in 1 .. n + Len(b) /\ j \in 1 .. Len(t) + Len(b)
      BY <2>2, <2>3, <2>4, <2>10
    <3>2. CASE j <= Len(t)
      <4>1. j = 1 /\ Len(t) = 1
        BY <2>1, <2>2, <3>1, <3>2
      <4>2. t = <<a[n]>>
        <5>1. t # <<>>
          BY <4>1, EmptySeq
        <5> QED
          BY <2>1, <5>1
      <4>3. j + k = n /\ n <= n
        BY <2>2, <2>8, <4>1
      <4> QED
        BY <2>3, <2>4, <3>1, <3>2, <4>1, <4>2, <4>3
    <3>3. CASE ~(j <= Len(t))
      <4>1. ~(j + k <= n) /\ (j + k) - n = j - Len(t)
        BY <2>2, <2>8, <3>1, <3>3
      <4> QED
        BY <2>3, <2>4, <3>1, <3>3, <4>1
    <3> QED
      BY <3>2, <3>3
  <2>12. ASSUME NEW i \in SyncAt(c) PROVE i > k
    <3>1. i \in 1 .. Len(c) - 1 /\ <<c[i], c[i + 1]>> \in Sync
      BY <2>7
    <3> SUFFICES ASSUME i <= k PROVE FALSE
      BY <2>2, <2>10, <3>1
    <3>2. i <= n /\ i \in 1 .. n + Len(b) /\ i + 1 \in 1 .. n + Len(b)
      BY <2>1, <2>2, <2>3, <2>8, <3>1
    <3>3. c[i] = a[i]
      BY <2>3, <3>2
    <3>4. CASE i < n
      <4>1. i + 1 <= n /\ i \in 1 .. n - 1
        BY <2>2, <3>1, <3>4
      <4>2. c[i + 1] = a[i + 1]
        BY <2>3, <3>2, <4>1
      <4> QED
        BY <1>2, <2>6, <3>1, <3>3, <4>1, <4>2
    <3>5. CASE i = n
      <4>1. Begins(a[n])
        BY <3>1, <3>3, <3>5, SyncBegins
      <4>2. t = <<a[n]>>
        BY <2>1, <2>9, <3>1, <3>5, <4>1
      <4>3. Len(t) = 1
        BY <4>2
      <4> QED
        BY <2>2, <2>8, <3>1, <3>5, <4>3
    <3> QED
      BY <2>2, <3>1, <3>2, <3>4, <3>5
  <2>13. Len(d) = 0 => Trailing(c) = <<>>
    <3> SUFFICES ASSUME Len(d) = 0 PROVE Trailing(c) = <<>>
      OBVIOUS
    <3>1. Len(t) = 0 /\ Len(b) = 0
      BY <2>2, <2>4
    <3>2. t = <<>> /\ b = <<>>
      BY <2>1, <3>1, EmptySeq DEF Bytes
    <3>3. c = a
      BY <3>2, ConcatEmptySeq DEF c, Bytes
    <3> QED
      BY <3>2, <3>3 DEF t
  <2>14. Synced(c) = Synced(d)
    BY <2>3, <2>4, <2>10, <2>11, <2>12, <2>13, SyncedShift
  <2> QED
    BY <2>5, <2>14 DEF c, d
<1> QED
  BY <1>1, <1>2

-----------------------------------------------------------------------------
(* Parse. *)

Result == [rest : Bytes, frames : Seq(Bytes)]

\* What Parse is of a sequence, when P is what it is of shorter ones.
Step(P, s) ==
    LET rest   == Synced(s)
        length == FrameLength(rest)
    IN  IF Len(rest) < 4 THEN [rest |-> rest, frames |-> <<>>]
        ELSE IF length > UartMaxFrame THEN P[Drop(rest, 4)]
        ELSE IF Len(rest) < length THEN [rest |-> rest, frames |-> <<>>]
        ELSE LET more == P[Drop(rest, length)]
             IN  [more EXCEPT !.frames = Response(SubSeq(rest, 1, length)) \o @]

\* The cases of a step, each with what it says of its sequences.
LEMMA LengthIs ==
    ASSUME NEW r \in Bytes, Len(r) >= 4
    PROVE  FrameLength(r) \in Nat /\ FrameLength(r) >= 4 /\ Len(r) \in Nat
<1>1. Len(r) \in Nat /\ 3 \in 1 .. Len(r) /\ 4 \in 1 .. Len(r)
  BY LenProperties DEF Bytes
<1>2. r[3] \in Nat /\ r[4] \in Nat
  BY <1>1, ElementOfSeq DEF Bytes
<1>3. 256 * r[4] \in Nat
  BY <1>2
<1> QED
  BY <1>1, <1>2, <1>3 DEF FrameLength

Incomplete(r) ==
    Len(r) < 4 \/ (FrameLength(r) <= UartMaxFrame /\ Len(r) < FrameLength(r))

Oversize(r) == Len(r) >= 4 /\ FrameLength(r) > UartMaxFrame

Whole(r) == Len(r) >= 4 /\ FrameLength(r) <= UartMaxFrame /\ FrameLength(r) <= Len(r)

LEMMA StepCases ==
    ASSUME NEW s \in Bytes
    PROVE  Incomplete(Synced(s)) \/ Oversize(Synced(s)) \/ Whole(Synced(s))
<1> DEFINE r == Synced(s)
<1>1. r \in Bytes /\ Len(r) \in Nat
  BY SyncedTyped, LenProperties DEF Bytes
<1> HIDE DEF r
<1>2. CASE Len(r) < 4
  BY <1>2 DEF Incomplete, r
<1>3. CASE Len(r) >= 4
  <2>1. FrameLength(r) \in Nat /\ UartMaxFrame \in Nat
    BY <1>1, <1>3, LengthIs, PicoAssumption
  <2>2. \/ FrameLength(r) <= UartMaxFrame /\ Len(r) < FrameLength(r)
        \/ FrameLength(r) > UartMaxFrame
        \/ FrameLength(r) <= UartMaxFrame /\ FrameLength(r) <= Len(r)
    BY <1>1, <2>1
  <2> QED
    BY <1>3, <2>2 DEF Incomplete, Oversize, Whole, r
<1> QED
  BY <1>1, <1>2, <1>3

LEMMA StepIncomplete ==
    ASSUME NEW P, NEW s \in Bytes, Incomplete(Synced(s))
    PROVE  Step(P, s) = [rest |-> Synced(s), frames |-> <<>>]
<1> DEFINE r == Synced(s)
<1>1. r \in Bytes
  BY SyncedTyped
<1> HIDE DEF r
<1>2. CASE Len(r) < 4
  BY <1>2 DEF Step, r
<1>3. CASE ~(Len(r) < 4)
  <2>1. Len(r) \in Nat
    BY <1>1, LenProperties DEF Bytes
  <2>2. FrameLength(r) \in Nat /\ UartMaxFrame \in Nat
    BY <1>1, <1>3, <2>1, LengthIs, PicoAssumption
  <2>3. FrameLength(r) <= UartMaxFrame /\ Len(r) < FrameLength(r)
    BY <1>3 DEF Incomplete, r
  <2>4. ~(FrameLength(r) > UartMaxFrame)
    BY <2>2, <2>3
  <2> QED
    BY <1>3, <2>3, <2>4 DEF Step, r
<1> QED
  BY <1>2, <1>3

LEMMA StepOversize ==
    ASSUME NEW P, NEW s \in Bytes, Oversize(Synced(s))
    PROVE  /\ Step(P, s) = P[Drop(Synced(s), 4)]
           /\ Drop(Synced(s), 4) \in Bytes /\ Len(Drop(Synced(s), 4)) < Len(s)
<1> DEFINE r == Synced(s)
<1>1. r \in Bytes /\ Len(r) <= Len(s) /\ Len(s) \in Nat /\ Len(r) \in Nat
  BY SyncedTyped, LenProperties DEF Bytes
<1>2. Len(r) >= 4 /\ FrameLength(r) > UartMaxFrame
  BY DEF Oversize
<1> HIDE DEF r
<1>3. 4 \in 0 .. Len(r) /\ ~(Len(r) < 4)
  BY <1>1, <1>2
<1>4. Drop(r, 4) \in Bytes /\ Len(Drop(r, 4)) = Len(r) - 4
  BY <1>1, <1>3, DropIs DEF Bytes
<1>5. Len(Drop(r, 4)) < Len(s)
  BY <1>1, <1>2, <1>4
<1>6. Step(P, s) = P[Drop(r, 4)]
  BY <1>2, <1>3 DEF Step, r
<1> QED
  BY <1>4, <1>5, <1>6 DEF r

LEMMA StepWhole ==
    ASSUME NEW P, NEW s \in Bytes, Whole(Synced(s))
    PROVE  LET r == Synced(s)
               n == FrameLength(r)
           IN  /\ Step(P, s) = [P[Drop(r, n)] EXCEPT !.frames = Response(SubSeq(r, 1, n)) \o @]
               /\ Drop(r, n) \in Bytes /\ Len(Drop(r, n)) < Len(s)
               /\ Response(SubSeq(r, 1, n)) \in Seq(Bytes)
               /\ n \in 4 .. Len(r) /\ r \in Bytes
<1> DEFINE r == Synced(s)
           n == FrameLength(r)
<1>1. r \in Bytes /\ Len(r) <= Len(s) /\ Len(s) \in Nat /\ Len(r) \in Nat
  BY SyncedTyped, LenProperties DEF Bytes
<1>2. Len(r) >= 4 /\ n <= UartMaxFrame /\ n <= Len(r)
  BY DEF Whole
<1> HIDE DEF r
<1>3. n \in Nat /\ n >= 4 /\ UartMaxFrame \in Nat
  BY <1>1, <1>2, LengthIs, PicoAssumption
<1> HIDE DEF n
<1>4. n \in 0 .. Len(r) /\ n \in 4 .. Len(r) /\ ~(Len(r) < 4) /\ ~(n > UartMaxFrame) /\ ~(Len(r) < n)
  BY <1>1, <1>2, <1>3
<1>5. Drop(r, n) \in Bytes /\ Len(Drop(r, n)) = Len(r) - n
  BY <1>1, <1>4, DropIs DEF Bytes
<1>6. Len(Drop(r, n)) < Len(s)
  BY <1>1, <1>3, <1>5
<1>7. SubSeq(r, 1, n) \in Bytes
  BY <1>1, <1>4, TakeIs DEF Bytes
<1>8. Response(SubSeq(r, 1, n)) \in Seq(Bytes)
  <2> DEFINE f == SubSeq(r, 1, n)
  <2>1. f \in Bytes
    BY <1>7
  <2> HIDE DEF f
  <2>2. <<f>> \in Seq(Bytes) /\ <<>> \in Seq(Bytes)
    BY <2>1
  <2>3. Response(f) \in Seq(Bytes)
    BY <2>2 DEF Response
  <2> QED
    BY <2>3 DEF f
<1>9. Step(P, s) = [P[Drop(r, n)] EXCEPT !.frames = Response(SubSeq(r, 1, n)) \o @]
  BY <1>4 DEF Step, r, n
<1> QED
  BY <1>1, <1>4, <1>5, <1>6, <1>8, <1>9 DEF r, n

LEMMA StepTyped ==
    ASSUME NEW P \in [Bytes -> Result], NEW s \in Bytes
    PROVE  Step(P, s) \in Result
<1>1. CASE Incomplete(Synced(s))
  <2> DEFINE r == Synced(s)
  <2>1. r \in Bytes /\ <<>> \in Seq(Bytes)
    BY SyncedTyped
  <2>2. Step(P, s) = [rest |-> r, frames |-> <<>>]
    BY <1>1, StepIncomplete
  <2> HIDE DEF r
  <2> QED
    BY <2>1, <2>2 DEF Result
<1>2. CASE Oversize(Synced(s))
  <2>1. Step(P, s) = P[Drop(Synced(s), 4)] /\ Drop(Synced(s), 4) \in Bytes
    BY <1>2, StepOversize
  <2> QED
    BY <2>1
<1>3. CASE Whole(Synced(s))
  <2> DEFINE r == Synced(s)
             n == FrameLength(r)
             t == Response(SubSeq(r, 1, n))
             q == P[Drop(r, n)]
  <2>1. /\ Step(P, s) = [q EXCEPT !.frames = t \o @] /\ Drop(r, n) \in Bytes /\ t \in Seq(Bytes)
    BY <1>3, StepWhole
  <2>2. q \in Result
    BY <2>1
  <2> HIDE DEF q, t
  <2>3. q.frames \in Seq(Bytes) /\ t \o q.frames \in Seq(Bytes)
    BY <2>1, <2>2, ConcatProperties DEF Result
  <2>4. [q EXCEPT !.frames = t \o @] \in Result
    BY <2>2, <2>3 DEF Result
  <2> QED
    BY <2>1, <2>4
<1> QED
  BY <1>1, <1>2, <1>3, StepCases

LEMMA StepSame ==
    ASSUME NEW P, NEW Q, NEW s \in Bytes, \A c \in Bytes : Len(c) < Len(s) => P[c] = Q[c]
    PROVE  Step(P, s) = Step(Q, s)
<1>1. CASE Incomplete(Synced(s))
  BY <1>1, StepIncomplete
<1>2. CASE Oversize(Synced(s))
  <2> DEFINE d == Drop(Synced(s), 4)
  <2>1. Step(P, s) = P[d] /\ Step(Q, s) = Q[d] /\ d \in Bytes /\ Len(d) < Len(s)
    BY <1>2, StepOversize
  <2> HIDE DEF d
  <2> QED
    BY <2>1
<1>3. CASE Whole(Synced(s))
  <2> DEFINE r == Synced(s)
             n == FrameLength(r)
             t == Response(SubSeq(r, 1, n))
             d == Drop(r, n)
  <2>1. /\ Step(P, s) = [P[d] EXCEPT !.frames = t \o @]
        /\ Step(Q, s) = [Q[d] EXCEPT !.frames = t \o @] /\ d \in Bytes /\ Len(d) < Len(s)
    BY <1>3, StepWhole
  <2> HIDE DEF d, t
  <2>2. P[d] = Q[d]
    BY <2>1
  <2> QED
    BY <2>1, <2>2
<1> QED
  BY <1>1, <1>2, <1>3, StepCases

\* P is right about sequences of up to n bytes.
Right(P, n) == \A s \in Bytes : Len(s) <= n => P[s] = Step(P, s)

LEMMA SomeRight ==
    ASSUME NEW n \in Nat
    PROVE  \E P \in [Bytes -> Result] : Right(P, n)
<1> DEFINE T == {i \in Nat : \E P \in [Bytes -> Result] : Right(P, i)}
           none == [s \in Bytes |-> [rest |-> s, frames |-> <<>>]]
<1>0. \A s \in Bytes : Len(s) \in Nat
  BY LenProperties DEF Bytes
<1>1. none \in [Bytes -> Result]
  <2>1. <<>> \in Seq(Bytes)
    OBVIOUS
  <2>2. \A s \in Bytes : [rest |-> s, frames |-> <<>>] \in Result
    BY <2>1 DEF Result
  <2> QED
    BY <2>2
<1> HIDE DEF none
<1>2. ASSUME NEW P \in [Bytes -> Result], NEW i \in Nat,
             \A s \in Bytes : Len(s) < i => P[s] = Step(P, s)
      PROVE  \E Q \in [Bytes -> Result] : Right(Q, i)
  <2> DEFINE Q == [s \in Bytes |-> Step(P, s)]
  <2>1. Q \in [Bytes -> Result]
    <3>1. \A s \in Bytes : Step(P, s) \in Result
      BY StepTyped
    <3> QED
      BY <3>1
  <2>2. \A s \in Bytes : Q[s] = Step(P, s)
    OBVIOUS
  <2> HIDE DEF Q
  <2>3. ASSUME NEW s \in Bytes, Len(s) <= i PROVE Q[s] = Step(Q, s)
    <3>1. ASSUME NEW c \in Bytes, Len(c) < Len(s) PROVE P[c] = Q[c]
      <4>1. Len(c) < i
        BY <1>0, <2>3, <3>1
      <4> QED
        BY <1>2, <2>2, <4>1
    <3>2. Step(P, s) = Step(Q, s)
      BY <3>1, StepSame
    <3> QED
      BY <2>2, <3>2
  <2> QED
    BY <2>1, <2>3 DEF Right
<1>3. 0 \in T
  <2>1. \A s \in Bytes : Len(s) < 0 => none[s] = Step(none, s)
    BY <1>0
  <2> QED
    BY <1>1, <1>2, <2>1
<1>4. ASSUME NEW i \in 0 .. n, i \in T PROVE i + 1 \in T
  <2>1. PICK P \in [Bytes -> Result] : Right(P, i)
    BY <1>4
  <2>2. P \in [Bytes -> Result] /\ \A s \in Bytes : Len(s) <= i => P[s] = Step(P, s)
    BY <2>1 DEF Right
  <2>3. \A s \in Bytes : Len(s) < i + 1 => P[s] = Step(P, s)
    BY <1>0, <2>2
  <2>4. i + 1 \in Nat
    OBVIOUS
  <2> QED
    BY <1>2, <2>2, <2>3, <2>4
<1> HIDE DEF T
<1>5. 0 .. n \subseteq T
  BY <1>3, <1>4, EveryFrom
<1>6. n \in T
  BY <1>5
<1> QED
  BY <1>6 DEF T

\* Two that are right agree where both are.
LEMMA RightAgree ==
    ASSUME NEW P, NEW Q, NEW m \in Nat, NEW n \in Nat, Right(P, m), Right(Q, n),
           NEW s \in Bytes, Len(s) <= m, Len(s) <= n
    PROVE  P[s] = Q[s]
<1> DEFINE T == {i \in Nat : \E c \in Bytes : Len(c) = i /\ i <= m /\ i <= n /\ P[c] # Q[c]}
<1>0. \A c \in Bytes : Len(c) \in Nat
  BY LenProperties DEF Bytes
<1> SUFFICES ASSUME T # {} PROVE FALSE
  BY <1>0
<1>1. PICK i \in T : \A j \in T : i <= j
  <2>1. T \subseteq Nat
    OBVIOUS
  <2> HIDE DEF T
  <2> QED
    BY <2>1, Smallest
<1>2. PICK c \in Bytes : Len(c) = i /\ i <= m /\ i <= n /\ P[c] # Q[c]
  BY <1>1
<1>3. ASSUME NEW d \in Bytes, Len(d) < Len(c) PROVE P[d] = Q[d]
  <2>1. Len(d) \notin T /\ Len(d) <= m /\ Len(d) <= n /\ Len(d) \in Nat
    BY <1>0, <1>1, <1>2, <1>3
  <2> QED
    BY <2>1
<1>4. Step(P, c) = Step(Q, c)
  BY <1>3, StepSame
<1>5. P[c] = Step(P, c) /\ Q[c] = Step(Q, c)
  BY <1>2 DEF Right
<1> QED
  BY <1>2, <1>4, <1>5

\* There is a function that is right about all sequences.
LEMMA AllRight == \E P : P = [s \in Bytes |-> Step(P, s)]
<1>0. \A c \in Bytes : Len(c) \in Nat
  BY LenProperties DEF Bytes
<1> DEFINE A(n) == CHOOSE P : Right(P, n)
           F == [s \in Bytes |-> A(Len(s))[s]]
<1>1. \A n \in Nat : Right(A(n), n)
  BY SomeRight
<1> HIDE DEF A
<1>2. \A s \in Bytes : F[s] = A(Len(s))[s]
  OBVIOUS
<1>3. F = [s \in Bytes |-> F[s]]
  OBVIOUS
<1> HIDE DEF F
<1>4. ASSUME NEW s \in Bytes PROVE F[s] = Step(F, s)
  <2> DEFINE P == A(Len(s))
  <2>1. Right(P, Len(s)) /\ Len(s) \in Nat
    BY <1>0, <1>1
  <2>2. F[s] = P[s]
    BY <1>2
  <2> HIDE DEF P
  <2>3. P[s] = Step(P, s)
    BY <2>1 DEF Right
  <2>4. ASSUME NEW c \in Bytes, Len(c) < Len(s) PROVE P[c] = F[c]
    <3>1. Len(c) \in Nat /\ Len(c) <= Len(s) /\ Len(c) <= Len(c)
      BY <1>0, <2>4
    <3>2. Right(A(Len(c)), Len(c)) /\ F[c] = A(Len(c))[c]
      BY <1>1, <1>2, <3>1
    <3> QED
      BY <2>1, <3>1, <3>2, RightAgree
  <2> QED
    BY <2>2, <2>3, <2>4, StepSame
<1> DEFINE G == [s \in Bytes |-> Step(F, s)]
<1>5. G = [s \in Bytes |-> G[s]] /\ \A s \in Bytes : G[s] = F[s]
  BY <1>4
<1> HIDE DEF G
<1>6. [s \in Bytes |-> F[s]] = [s \in Bytes |-> G[s]]
  BY <1>5, Zenon
<1>7. F = G
  BY <1>3, <1>5, <1>6, Zenon
<1> QED
  BY <1>7 DEF G

\* Parse is right about all sequences.
LEMMA ParseIs ==
    /\ Parse \in [Bytes -> Result]
    /\ \A s \in Bytes : Parse[s] = Step(Parse, s)
<1> DEFINE P == CHOOSE P0 : P0 = [s \in Bytes |-> Step(P0, s)]
<1>1. P = [s \in Bytes |-> Step(P, s)]
  BY AllRight
<1>2. Parse = P
  BY DEF Parse, Step, Bytes
<1> HIDE DEF P
<1>3. \A s \in Bytes : P[s] = Step(P, s)
  <2> DEFINE G == [s \in Bytes |-> Step(P, s)]
  <2>1. \A s \in Bytes : G[s] = Step(P, s)
    OBVIOUS
  <2>2. P = G
    BY <1>1
  <2> HIDE DEF G
  <2> QED
    BY <2>1, <2>2, Zenon
<1>4. P = [s \in Bytes |-> P[s]]
  <2> DEFINE G == [s \in Bytes |-> Step(P, s)]
  <2>1. G = [s \in Bytes |-> G[s]]
    OBVIOUS
  <2>2. P = G
    BY <1>1
  <2> HIDE DEF G
  <2> QED
    BY <2>1, <2>2, Zenon
<1>5. ASSUME NEW s \in Bytes PROVE P[s] \in Result
  <2>1. Len(s) \in Nat /\ Len(s) <= Len(s)
    BY LenProperties DEF Bytes
  <2>2. PICK Q \in [Bytes -> Result] : Right(Q, Len(s))
    BY <2>1, SomeRight
  <2>3. Right(P, Len(s))
    BY <1>3 DEF Right
  <2>4. P[s] = Q[s]
    BY <2>1, <2>2, <2>3, RightAgree
  <2> QED
    BY <2>2, <2>4
<1>6. P \in [Bytes -> Result]
  BY <1>4, <1>5
<1> QED
  BY <1>2, <1>3, <1>6

LEMMA ParseTyped ==
    ASSUME NEW s \in Bytes
    PROVE  Parse[s] \in Result /\ Parse[s].rest \in Bytes /\ Parse[s].frames \in Seq(Bytes)
BY ParseIs DEF Result

\* Parse, case by case.
LEMMA ParseIncomplete ==
    ASSUME NEW s \in Bytes, Incomplete(Synced(s))
    PROVE  Parse[s].rest = Synced(s) /\ Parse[s].frames = <<>>
<1>1. Parse[s] = [rest |-> Synced(s), frames |-> <<>>]
  BY ParseIs, StepIncomplete
<1> QED
  BY <1>1

LEMMA ParseOversize ==
    ASSUME NEW s \in Bytes, Oversize(Synced(s))
    PROVE  LET d == Drop(Synced(s), 4)
           IN  Parse[s] = Parse[d] /\ d \in Bytes /\ Len(d) < Len(s)
BY ParseIs, StepOversize

LEMMA ParseWhole ==
    ASSUME NEW s \in Bytes, Whole(Synced(s))
    PROVE  LET r == Synced(s)
               n == FrameLength(r)
               d == Drop(r, n)
           IN  /\ Parse[s].rest = Parse[d].rest
               /\ Parse[s].frames = Response(SubSeq(r, 1, n)) \o Parse[d].frames
               /\ d \in Bytes /\ Len(d) < Len(s) /\ n \in 4 .. Len(r) /\ r \in Bytes
               /\ Response(SubSeq(r, 1, n)) \in Seq(Bytes)
<1> DEFINE r == Synced(s)
           n == FrameLength(r)
           d == Drop(r, n)
           t == Response(SubSeq(r, 1, n))
<1>1. /\ Step(Parse, s) = [Parse[d] EXCEPT !.frames = t \o @]
      /\ d \in Bytes /\ Len(d) < Len(s) /\ n \in 4 .. Len(r) /\ r \in Bytes /\ t \in Seq(Bytes)
  BY StepWhole
<1>2. Parse[s] = Step(Parse, s) /\ Parse[d] \in Result
  BY <1>1, ParseIs
<1> HIDE DEF d, t, n, r
<1>3. /\ [Parse[d] EXCEPT !.frames = t \o @].rest = Parse[d].rest
      /\ [Parse[d] EXCEPT !.frames = t \o @].frames = t \o Parse[d].frames
  BY <1>2 DEF Result
<1>4. Parse[s].rest = Parse[d].rest /\ Parse[s].frames = t \o Parse[d].frames
  BY <1>1, <1>2, <1>3
<1> QED
  BY <1>1, <1>4 DEF d, t, n, r

\* It only looks at what is kept.
LEMMA ParseSynced ==
    ASSUME NEW s \in Bytes, NEW t \in Bytes, Synced(s) = Synced(t)
    PROVE  Parse[s] = Parse[t]
<1>1. Step(Parse, s) = Step(Parse, t)
  BY DEF Step
<1> QED
  BY <1>1, ParseIs

\* Parsing a and later what is left of it with b is parsing both at once.
Splits(a, b) ==
    LET p == Parse[a]
        q == Parse[p.rest \o b]
    IN  Parse[a \o b].rest = q.rest /\ Parse[a \o b].frames = p.frames \o q.frames

LEMMA SplitNow ==
    ASSUME NEW a \in Bytes, NEW b \in Bytes, Incomplete(Synced(a))
    PROVE  Splits(a, b)
<1> DEFINE r == Synced(a)
<1>1. Parse[a].rest = r /\ Parse[a].frames = <<>>
  BY ParseIncomplete
<1>2. Synced(a \o b) = Synced(r \o b)
  BY SyncedSplit
<1>3. r \in Bytes /\ a \o b \in Bytes
  BY SyncedTyped, ConcatProperties DEF Bytes
<1> HIDE DEF r
<1>4. r \o b \in Bytes
  BY <1>3, ConcatProperties DEF Bytes
<1>5. Parse[a \o b] = Parse[r \o b]
  BY <1>2, <1>3, <1>4, ParseSynced
<1>6. <<>> \o Parse[r \o b].frames = Parse[r \o b].frames
  BY <1>4, ParseTyped, ConcatEmptySeq
<1> QED
  BY <1>1, <1>5, <1>6 DEF Splits

LEMMA LengthStays ==
    ASSUME NEW r \in Bytes, NEW b \in Bytes, Len(r) >= 4
    PROVE  /\ FrameLength(r \o b) = FrameLength(r)
           /\ Len(r \o b) \in Nat /\ Len(r \o b) >= Len(r) /\ Len(r) \in Nat
<1>1. /\ Len(r) \in Nat /\ Len(b) \in Nat /\ Len(r \o b) = Len(r) + Len(b)
      /\ \A i \in 1 .. Len(r) + Len(b) : (r \o b)[i] = IF i <= Len(r) THEN r[i] ELSE b[i - Len(r)]
  BY ConcatProperties, LenProperties DEF Bytes
<1>2. (r \o b)[3] = r[3] /\ (r \o b)[4] = r[4]
  BY <1>1
<1> QED
  BY <1>1, <1>2 DEF FrameLength

LEMMA SplitOversize ==
    ASSUME NEW a \in Bytes, NEW b \in Bytes, Oversize(Synced(a)),
           \A c \in Bytes : Len(c) < Len(a) => Splits(c, b)
    PROVE  Splits(a, b)
<1> DEFINE r == Synced(a)
           d == Drop(r, 4)
<1>1. r \in Bytes /\ Len(r) >= 4 /\ FrameLength(r) > UartMaxFrame
  BY SyncedTyped DEF Oversize
<1>2. Parse[a] = Parse[d] /\ d \in Bytes /\ Len(d) < Len(a)
  BY ParseOversize
<1>3. Synced(a \o b) = r \o b
  <2>1. Len(r) >= 2
    BY <1>1, LenProperties DEF Bytes
  <2> QED
    BY <2>1, SyncedLong
<1>4. a \o b \in Bytes
  BY ConcatProperties DEF Bytes
<1> HIDE DEF r
<1>5. Oversize(Synced(a \o b))
  BY <1>1, <1>3, LengthStays DEF Oversize
<1>6. Parse[a \o b] = Parse[Drop(r \o b, 4)]
  BY <1>3, <1>4, <1>5, ParseOversize
<1>7. Drop(r \o b, 4) = d \o b
  <2>1. 4 \in 0 .. Len(r)
    BY <1>1, LenProperties DEF Bytes
  <2> QED
    BY <1>1, <2>1, DropConcat DEF Bytes
<1> HIDE DEF d
<1>8. Splits(d, b)
  BY <1>2
<1> QED
  BY <1>2, <1>6, <1>7, <1>8 DEF Splits

LEMMA SplitWhole ==
    ASSUME NEW a \in Bytes, NEW b \in Bytes, Whole(Synced(a)),
           \A c \in Bytes : Len(c) < Len(a) => Splits(c, b)
    PROVE  Splits(a, b)
<1> DEFINE r == Synced(a)
           n == FrameLength(r)
           d == Drop(r, n)
           t == Response(SubSeq(r, 1, n))
           c == a \o b
<1>1. r \in Bytes /\ Len(r) >= 4 /\ n <= UartMaxFrame /\ n <= Len(r)
  BY SyncedTyped DEF Whole
<1>2. /\ Parse[a].rest = Parse[d].rest /\ Parse[a].frames = t \o Parse[d].frames
      /\ d \in Bytes /\ Len(d) < Len(a) /\ n \in 4 .. Len(r) /\ t \in Seq(Bytes)
  BY ParseWhole
<1>3. Synced(c) = r \o b
  <2>1. Len(r) >= 2
    BY <1>1, LenProperties DEF Bytes
  <2> QED
    BY <2>1, SyncedLong
<1>4. c \in Bytes
  BY ConcatProperties DEF Bytes
<1>5. n = FrameLength(r)
  OBVIOUS
<1> HIDE DEF r, c, n
<1>6. FrameLength(r \o b) = n /\ Len(r \o b) \in Nat /\ Len(r \o b) >= Len(r) /\ Len(r) \in Nat
  BY <1>1, <1>5, LengthStays
<1>7. n <= Len(r \o b) /\ Len(r \o b) >= 4
  BY <1>1, <1>2, <1>6
<1>8. Whole(Synced(c))
  BY <1>1, <1>3, <1>6, <1>7 DEF Whole
<1>9. /\ Parse[c].rest = Parse[Drop(r \o b, n)].rest
      /\ Parse[c].frames = Response(SubSeq(r \o b, 1, n)) \o Parse[Drop(r \o b, n)].frames
  BY <1>3, <1>4, <1>6, <1>8, ParseWhole
<1>10. Drop(r \o b, n) = d \o b
  <2>1. n \in 0 .. Len(r)
    BY <1>2
  <2> QED
    BY <1>1, <2>1, DropConcat DEF Bytes
<1>11. SubSeq(r \o b, 1, n) = SubSeq(r, 1, n)
  <2>1. n \in 1 .. Len(r)
    BY <1>2
  <2> QED
    BY <1>1, <2>1, TakeConcat DEF Bytes
<1> DEFINE p == Parse[d]
           q == Parse[p.rest \o b]
<1>12. /\ Parse[c].rest = Parse[d \o b].rest
       /\ Parse[c].frames = t \o Parse[d \o b].frames
  BY <1>9, <1>10, <1>11
<1> HIDE DEF d, t
<1>13. p.rest \in Bytes /\ p.frames \in Seq(Bytes)
  BY <1>2, ParseTyped
<1>14. Splits(d, b)
  BY <1>2
<1>15. Parse[d \o b].rest = q.rest /\ Parse[d \o b].frames = p.frames \o q.frames
  BY <1>14 DEF Splits
<1>16. q.frames \in Seq(Bytes)
  <2>1. p.rest \o b \in Bytes
    BY <1>13, ConcatProperties DEF Bytes
  <2> QED
    BY <2>1, ParseTyped
<1> HIDE DEF q
<1>17. (t \o p.frames) \o q.frames = t \o (p.frames \o q.frames)
  <2> DEFINE x == p.frames
             y == q.frames
  <2>1. t \in Seq(Bytes) /\ x \in Seq(Bytes) /\ y \in Seq(Bytes)
    BY <1>2, <1>13, <1>16
  <2> HIDE DEF x, y
  <2>2. (t \o x) \o y = t \o (x \o y)
    BY <2>1, Associative
  <2> QED
    BY <2>2 DEF x, y
<1>18. Parse[c].rest = q.rest /\ Parse[c].frames = Parse[a].frames \o q.frames
  BY <1>2, <1>12, <1>15, <1>17
<1>19. q = Parse[Parse[a].rest \o b]
  BY <1>2 DEF q
<1> QED
  BY <1>18, <1>19 DEF Splits, c

\* Wherever reads cut the stream, the bridge sees the same frames.
THEOREM ParseSplits ==
    ASSUME NEW a \in Bytes, NEW b \in Bytes
    PROVE  Splits(a, b)
<1> DEFINE T == {i \in Nat : \E c \in Bytes : Len(c) = i /\ ~Splits(c, b)}
<1>0. \A c \in Bytes : Len(c) \in Nat
  BY LenProperties DEF Bytes
<1> SUFFICES ASSUME T # {} PROVE FALSE
  BY <1>0
<1>1. PICK i \in T : \A j \in T : i <= j
  <2>1. T \subseteq Nat
    OBVIOUS
  <2> HIDE DEF T
  <2> QED
    BY <2>1, Smallest
<1>2. PICK c \in Bytes : Len(c) = i /\ ~Splits(c, b)
  BY <1>1
<1>3. ASSUME NEW d \in Bytes, Len(d) < Len(c) PROVE Splits(d, b)
  <2>1. Len(d) \notin T /\ Len(d) \in Nat
    BY <1>0, <1>1, <1>2, <1>3
  <2> QED
    BY <2>1
<1> HIDE DEF T
<1>4. CASE Incomplete(Synced(c))
  BY <1>2, <1>4, SplitNow
<1>5. CASE Oversize(Synced(c))
  BY <1>2, <1>3, <1>5, SplitOversize
<1>6. CASE Whole(Synced(c))
  BY <1>2, <1>3, <1>6, SplitWhole
<1> QED
  BY <1>4, <1>5, <1>6, StepCases

\* What is left of a parse has no frame in it.
LEMMA RestParsed ==
    ASSUME NEW s \in Bytes
    PROVE  Parse[Parse[s].rest].frames = <<>>
<1> DEFINE p == Parse[s]
           q == Parse[p.rest]
<1>1. /\ p.rest \in Bytes /\ p.frames \in Seq(Bytes)
      /\ <<>> \in Bytes
  BY ParseTyped, EmptySeq DEF Bytes
<1>2. q.frames \in Seq(Bytes)
  BY <1>1, ParseTyped
<1>3. s \o <<>> = s /\ p.rest \o <<>> = p.rest
  BY <1>1, ConcatEmptySeq DEF Bytes
<1>4. p.frames = p.frames \o q.frames
  BY <1>1, <1>3, ParseSplits DEF Splits
<1> DEFINE x == p.frames
           y == q.frames
<1>5. x \in Seq(Bytes) /\ y \in Seq(Bytes) /\ x \o y = x
  BY <1>1, <1>2, <1>4
<1> HIDE DEF x, y
<1>6. y = <<>>
  BY <1>5, ConcatEqualIffEmpty
<1> QED
  BY <1>6 DEF y

-----------------------------------------------------------------------------
(* What the gateway writes. *)

\* Bytes that begin with a sync pair are kept; so are they behind a stray 166 that
\* makes no pair with them.
LEMMA SyncedPair ==
    ASSUME NEW s \in Bytes, Len(s) >= 2, <<s[1], s[2]>> \in Sync
    PROVE  Synced(s) = s
<1>1. 1 \in 1 .. Len(s) - 1 /\ 1 + 1 = 2
  BY LenProperties DEF Bytes
<1>2. 1 \in SyncAt(s)
  BY <1>1, SyncAtIs
<1>3. FirstSync(s) = 1
  <2>1. \A j \in SyncAt(s) : 1 <= j
    BY SyncAtIn
  <2> QED
    BY <1>2, <2>1, FirstSyncIs
<1>4. 1 - 1 = 0
  OBVIOUS
<1> QED
  BY <1>2, <1>3, <1>4, DropNone DEF Synced, Bytes

LEMMA SyncedStray ==
    ASSUME NEW s \in Bytes, Len(s) >= 1, <<166, s[1]>> \notin Sync
    PROVE  Synced(<<166>> \o s) = Synced(s)
<1> DEFINE w == <<166>>
           c == w \o s
<1>1. w \in Bytes /\ Len(w) = 1 /\ w[1] = 166
  BY DEF Bytes
<1> HIDE DEF w
<1>2. /\ c \in Bytes /\ Len(c) = 1 + Len(s) /\ Len(s) \in Nat
      /\ \A i \in 1 .. 1 + Len(s) : c[i] = IF i <= 1 THEN w[i] ELSE s[i - 1]
  <2>1. w \in Seq(Nat) /\ s \in Seq(Nat) /\ Len(s) \in Nat
    BY <1>1, LenProperties DEF Bytes
  <2>2. /\ c \in Seq(Nat) /\ Len(c) = Len(w) + Len(s)
        /\ \A i \in 1 .. Len(w) + Len(s) : c[i] = IF i <= Len(w) THEN w[i] ELSE s[i - Len(w)]
    BY <2>1, ConcatProperties
  <2> HIDE DEF c
  <2> QED
    BY <1>1, <2>1, <2>2 DEF Bytes
<1> HIDE DEF c
<1>3. ASSUME NEW j \in 1 .. Len(s) PROVE c[j + 1] = s[j]
  <2>1. j + 1 \in 1 .. 1 + Len(s) /\ ~(j + 1 <= 1) /\ (j + 1) - 1 = j
    BY <1>2
  <2> QED
    BY <1>2, <2>1
<1>4. c[1] = 166 /\ c[2] = s[1]
  <2>1. 1 \in 1 .. 1 + Len(s) /\ 2 \in 1 .. 1 + Len(s) /\ 2 - 1 = 1
    BY <1>2
  <2> QED
    BY <1>1, <1>2, <2>1
<1>5. ASSUME NEW i \in SyncAt(c) PROVE i > 1
  <2>1. i \in 1 .. Len(c) - 1 /\ <<c[i], c[i + 1]>> \in Sync
    BY <1>2, SyncAtIs
  <2>2. i # 1
    <3> SUFFICES ASSUME i = 1 PROVE FALSE
      OBVIOUS
    <3>1. i + 1 = 2
      OBVIOUS
    <3> QED
      BY <1>4, <2>1, <3>1
  <2> QED
    BY <1>2, <2>1, <2>2
<1>6. Synced(c) = Synced(s)
  <2>1. Len(c) = Len(s) + 1 /\ 1 \in Nat /\ ~(Len(s) = 0)
    BY <1>2
  <2> QED
    BY <1>2, <1>3, <1>5, <2>1, SyncedShift
<1> QED
  BY <1>6 DEF c, w

LEMMA ParseEmpty == Parse[<<>>].rest = <<>> /\ Parse[<<>>].frames = <<>>
<1>1. <<>> \in Bytes /\ Len(<<>>) = 0
  BY EmptySeq DEF Bytes
<1>2. Len(Synced(<<>>)) <= 0 /\ Synced(<<>>) \in Bytes
  BY <1>1, SyncedTyped
<1>3. Len(Synced(<<>>)) = 0
  BY <1>2, LenProperties DEF Bytes
<1>4. Synced(<<>>) = <<>>
  BY <1>2, <1>3, EmptySeq DEF Bytes
<1>5. Incomplete(Synced(<<>>))
  BY <1>3 DEF Incomplete
<1> QED
  BY <1>1, <1>4, <1>5, ParseIncomplete

\* What may be left of whole units: nothing, or a stray byte.
Carried == {<<>>, <<166>>}

LEMMA CarriedSynced ==
    ASSUME NEW w \in Carried, NEW s \in Bytes, Len(s) >= 2, <<s[1], s[2]>> \in Sync,
           <<166, s[1]>> \notin Sync
    PROVE  Synced(w \o s) = s /\ w \o s \in Bytes
<1>1. Synced(s) = s
  BY SyncedPair
<1>2. CASE w = <<>>
  BY <1>1, <1>2, ConcatEmptySeq DEF Bytes
<1>3. CASE w = <<166>>
  <2>1. Len(s) >= 1
    BY LenProperties DEF Bytes
  <2>2. Synced(<<166>> \o s) = Synced(s)
    BY <2>1, SyncedStray
  <2>3. <<166>> \in Seq(Nat)
    OBVIOUS
  <2>4. <<166>> \o s \in Seq(Nat)
    BY <2>3, ConcatProperties DEF Bytes
  <2> QED
    BY <1>1, <1>3, <2>2, <2>4 DEF Bytes
<1> QED
  BY <1>2, <1>3 DEF Carried

LEMMA ResponseIs ==
    ASSUME NEW s \in Bytes, Len(s) >= 2
    PROVE  Response(s) = IF <<s[1], s[2]>> \in DataSync THEN <<s>> ELSE <<>>
<1>1. 2 \in 0 .. Len(s) /\ 1 \in 1 .. Len(s) /\ 2 \in 1 .. Len(s)
  BY LenProperties DEF Bytes
<1> DEFINE t == SubSeq(s, 1, 2)
           u == <<s[1], s[2]>>
<1>2. /\ t \in Seq(Nat) /\ Len(t) = 2 /\ \A i \in 1 .. 2 : t[i] = s[i]
  BY <1>1, TakeIs DEF Bytes
<1>3. s[1] \in Nat /\ s[2] \in Nat
  BY <1>1, ElementOfSeq DEF Bytes
<1>4. u \in Seq(Nat) /\ Len(u) = 2 /\ u[1] = s[1] /\ u[2] = s[2]
  BY <1>3
<1> HIDE DEF t, u
<1>5. t = u
  <2>1. t[1] = u[1] /\ t[2] = u[2]
    BY <1>2, <1>4
  <2>2. \A i \in 1 .. Len(t) : t[i] = u[i]
    BY <1>2, <2>1
  <2> QED
    BY <1>2, <1>4, <2>2, SeqEqual
<1> QED
  BY <1>5 DEF Response, t, u

\* A frame by itself, and a header that promises too much.
Headed(s) == Len(s) >= 4 /\ <<s[1], s[2]>> \in Sync /\ <<166, s[1]>> \notin Sync

LEMMA HeadedSynced ==
    ASSUME NEW w \in Carried, NEW s \in Bytes, Headed(s)
    PROVE  Synced(w \o s) = s /\ w \o s \in Bytes
<1>1. Len(s) \in Nat
  BY LenProperties DEF Bytes
<1>2. Len(s) >= 2
  BY <1>1 DEF Headed
<1> QED
  BY <1>2, CarriedSynced DEF Headed

LEMMA FrameParsed ==
    ASSUME NEW w \in Carried, NEW s \in Bytes, Headed(s), FrameLength(s) = Len(s),
           Len(s) <= UartMaxFrame
    PROVE  Parse[w \o s].rest = <<>> /\ Parse[w \o s].frames = Response(s)
<1> DEFINE c == w \o s
           n == Len(s)
<1>1. n \in Nat
  BY LenProperties DEF Bytes
<1>2. Synced(c) = s /\ c \in Bytes
  BY HeadedSynced
<1> HIDE DEF c
<1>3. Whole(Synced(c))
  <2>1. n <= n
    BY <1>1
  <2> QED
    BY <1>2, <2>1 DEF Whole, Headed
<1>4. /\ Parse[c].rest = Parse[Drop(s, n)].rest
      /\ Parse[c].frames = Response(SubSeq(s, 1, n)) \o Parse[Drop(s, n)].frames
      /\ Response(SubSeq(s, 1, n)) \in Seq(Bytes)
  BY <1>2, <1>3, ParseWhole
<1>5. Drop(s, n) = <<>> /\ SubSeq(s, 1, n) = s
  BY DropAll, SubSeqFull DEF Bytes
<1>6. Response(s) \o <<>> = Response(s)
  BY <1>4, <1>5, ConcatEmptySeq
<1> QED
  BY <1>4, <1>5, <1>6, ParseEmpty DEF c

LEMMA HeaderParsed ==
    ASSUME NEW w \in Carried, NEW s \in Bytes, Headed(s), Len(s) = 4,
           FrameLength(s) > UartMaxFrame
    PROVE  Parse[w \o s].rest = <<>> /\ Parse[w \o s].frames = <<>>
<1> DEFINE c == w \o s
<1>1. Synced(c) = s /\ c \in Bytes
  BY HeadedSynced
<1> HIDE DEF c
<1>2. Oversize(Synced(c))
  <2>1. Oversize(s)
    BY DEF Oversize, Headed
  <2> QED
    BY <1>1, <2>1
<1>3. Parse[c] = Parse[Drop(s, 4)]
  BY <1>1, <1>2, ParseOversize
<1>4. Drop(s, 4) = <<>>
  BY DropAll DEF Bytes
<1> QED
  BY <1>3, <1>4, ParseEmpty DEF c

LEMMA DataHeaded ==
    ASSUME NEW s, Len(s) >= 4, (s[1] = 165 /\ s[2] = 90) \/ (s[1] = 90 /\ s[2] = 165)
    PROVE  Headed(s) /\ <<s[1], s[2]>> \in DataSync
<1>1. <<s[1], s[2]>> \in DataSync
  BY DEF DataSync
<1>2. <<166, s[1]>> \notin Sync
  BY DEF Sync, DataSync, CommandSync
<1> QED
  BY <1>1, <1>2 DEF Headed, Sync

\* Stray bytes are dropped up to the last.
LEMMA StrayParsed ==
    ASSUME NEW w \in Carried
    PROVE  Parse[w \o <<166>>].rest = <<166>> /\ Parse[w \o <<166>>].frames = <<>>
<1> DEFINE z == <<166>>
           c == w \o z
<1>1. z \in Bytes /\ Len(z) = 1 /\ z[1] = 166
  BY DEF Bytes
<1> HIDE DEF z
<1>2. Synced(z) = z
  <2>1. SyncAt(z) = {}
    <3>1. SyncAt(z) \subseteq 1 .. Len(z) - 1
      BY <1>1, SyncAtIn
    <3>2. 1 .. Len(z) - 1 = {}
      BY <1>1
    <3> QED
      BY <3>1, <3>2
  <2>2. Begins(z[Len(z)])
    <3>1. <<166, 91>> \in Sync
      BY DEF Sync, CommandSync
    <3> QED
      BY <1>1, <3>1, SyncBegins
  <2>3. z # <<>>
    BY <1>1, EmptySeq
  <2>4. Trailing(z) = <<z[Len(z)]>>
    BY <1>1, <2>2, <2>3, TrailingIs
  <2>5. <<z[Len(z)]>> = z
    BY <1>1 DEF z
  <2> QED
    BY <2>1, <2>4, <2>5 DEF Synced
<1>3. Synced(c) = z /\ c \in Bytes
  <2>1. CASE w = <<>>
    BY <1>1, <1>2, <2>1, ConcatEmptySeq DEF Bytes
  <2>2. CASE w = <<166>>
    <3>1. <<166, 166>> \notin Sync
      BY DEF Sync, DataSync, CommandSync
    <3>2. Synced(<<166>> \o z) = Synced(z)
      BY <1>1, <3>1, SyncedStray
    <3>3. <<166>> \in Seq(Nat)
      OBVIOUS
    <3>4. <<166>> \o z \in Seq(Nat)
      BY <1>1, <3>3, ConcatProperties DEF Bytes
    <3> QED
      BY <1>2, <2>2, <3>2, <3>4 DEF Bytes
  <2> QED
    BY <2>1, <2>2 DEF Carried
<1> HIDE DEF c
<1>4. Incomplete(Synced(c))
  BY <1>1, <1>3 DEF Incomplete
<1>5. Parse[c].rest = z /\ Parse[c].frames = <<>>
  BY <1>3, <1>4, ParseIncomplete
<1> QED
  BY <1>5 DEF c, z

\* Behind what whole units leave, a unit is recognised if and only if it is a DATA
\* frame, and leaves no more than they did.
Data == {"data", "long", "empty"}

\* The capacities are counts.
LEMMA Capacities == {UartBytes, UartDepth, HostBytes, HostDepth} \subseteq Nat
<1>1. {UartDepth, UartBytes, HostDepth, HostBytes} \subseteq Nat \ {0}
  BY ONLY PicoAssumption, SMTT(60)
<1>2. UartDepth \in Nat /\ UartBytes \in Nat /\ HostDepth \in Nat /\ HostBytes \in Nat
  BY <1>1
<1> QED
  BY <1>2

LEMMA MaxFrame == UartMaxFrame \in Nat /\ UartMaxFrame >= 6 /\ UartMaxFrame <= 65538
BY ONLY PicoAssumption, SMTT(60)

LEMMA DataParsed ==
    ASSUME NEW w \in Carried, NEW s \in Bytes, Len(s) \in 4 .. 6,
           (s[1] = 165 /\ s[2] = 90) \/ (s[1] = 90 /\ s[2] = 165), FrameLength(s) = Len(s)
    PROVE  Parse[w \o s].rest = <<>> /\ Parse[w \o s].frames = <<s>>
<1>1. Len(s) >= 4 /\ Len(s) >= 2 /\ Len(s) <= UartMaxFrame
  BY MaxFrame
<1>2. Headed(s) /\ <<s[1], s[2]>> \in DataSync
  BY <1>1, DataHeaded
<1>3. Response(s) = <<s>>
  BY <1>1, <1>2, ResponseIs
<1> QED
  BY <1>1, <1>2, <1>3, FrameParsed

Recognised(kind, u, w) ==
    /\ Parse[w \o u].rest \in Carried
    /\ Parse[w \o u].frames = IF kind \in Data THEN <<u>> ELSE <<>>
    /\ u \in Bytes
    /\ kind \in Data => Len(u) \in (IF kind = "empty" THEN 4 ELSE 5) .. 6

THEOREM UnitParsed ==
    ASSUME NEW kind \in Units, NEW n \in Nat, NEW w \in Carried
    PROVE  Recognised(kind, UnitBytes(kind, n), w)
<1>0. <<>> \in Carried
  BY DEF Carried
<1>1. CASE kind = "data"
  <2> DEFINE s == <<165, 90, 1, 0, n>>
  <2>1. /\ s \in Seq(Nat) /\ Len(s) = 5
        /\ s[1] = 165 /\ s[2] = 90 /\ s[3] = 1 /\ s[4] = 0
    OBVIOUS
  <2>2. UnitBytes(kind, n) = s
    BY <1>1 DEF UnitBytes
  <2> HIDE DEF s
  <2>3. FrameLength(s) = Len(s) /\ Len(s) \in 4 .. 6 /\ s \in Bytes
    BY <2>1 DEF FrameLength, Bytes
  <2>4. (s[1] = 165 /\ s[2] = 90) \/ (s[1] = 90 /\ s[2] = 165)
    BY <2>1
  <2>5. Parse[w \o s].rest = <<>> /\ Parse[w \o s].frames = <<s>>
    <3>1. w \in Carried
      OBVIOUS
    <3> QED
      BY ONLY <3>1, <2>3, <2>4, DataParsed, ZenonT(60)
  <2>6. kind \in Data /\ Len(s) \in (IF kind = "empty" THEN 4 ELSE 5) .. 6
    BY <1>1, <2>1 DEF Data
  <2> QED
    BY <1>0, <2>2, <2>3, <2>5, <2>6, Zenon DEF Recognised
<1>2. CASE kind = "long"
  <2> DEFINE s == <<90, 165, 2, 0, n, n>>
  <2>1. /\ s \in Seq(Nat) /\ Len(s) = 6
        /\ s[1] = 90 /\ s[2] = 165 /\ s[3] = 2 /\ s[4] = 0
    OBVIOUS
  <2>2. UnitBytes(kind, n) = s
    BY <1>2 DEF UnitBytes
  <2> HIDE DEF s
  <2>3. FrameLength(s) = Len(s) /\ Len(s) \in 4 .. 6 /\ s \in Bytes
    BY <2>1 DEF FrameLength, Bytes
  <2>4. (s[1] = 165 /\ s[2] = 90) \/ (s[1] = 90 /\ s[2] = 165)
    BY <2>1
  <2>5. Parse[w \o s].rest = <<>> /\ Parse[w \o s].frames = <<s>>
    <3>1. w \in Carried
      OBVIOUS
    <3> QED
      BY ONLY <3>1, <2>3, <2>4, DataParsed, ZenonT(60)
  <2>6. kind \in Data /\ Len(s) \in (IF kind = "empty" THEN 4 ELSE 5) .. 6
    BY <1>2, <2>1 DEF Data
  <2> QED
    BY <1>0, <2>2, <2>3, <2>5, <2>6, Zenon DEF Recognised
<1>3. CASE kind = "empty"
  <2> DEFINE s == <<165, 90, 0, 0>>
  <2>1. /\ s \in Seq(Nat) /\ Len(s) = 4
        /\ s[1] = 165 /\ s[2] = 90 /\ s[3] = 0 /\ s[4] = 0
    OBVIOUS
  <2>2. UnitBytes(kind, n) = s
    BY <1>3 DEF UnitBytes
  <2> HIDE DEF s
  <2>3. FrameLength(s) = Len(s) /\ Len(s) \in 4 .. 6 /\ s \in Bytes
    BY <2>1 DEF FrameLength, Bytes
  <2>4. (s[1] = 165 /\ s[2] = 90) \/ (s[1] = 90 /\ s[2] = 165)
    BY <2>1
  <2>5. Parse[w \o s].rest = <<>> /\ Parse[w \o s].frames = <<s>>
    <3>1. w \in Carried
      OBVIOUS
    <3> QED
      BY ONLY <3>1, <2>3, <2>4, DataParsed, ZenonT(60)
  <2>6. kind \in Data /\ Len(s) \in (IF kind = "empty" THEN 4 ELSE 5) .. 6
    BY <1>3, <2>1 DEF Data
  <2> QED
    BY <1>0, <2>2, <2>3, <2>5, <2>6, Zenon DEF Recognised
<1>4. CASE kind = "command"
  <2> DEFINE s == <<166, 91, 1, 0, n>>
  <2>1. /\ s \in Seq(Nat) /\ Len(s) = 5 /\ s[1] = 166 /\ s[2] = 91 /\ s[3] = 1 /\ s[4] = 0
    OBVIOUS
  <2>2. UnitBytes(kind, n) = s
    BY <1>4 DEF UnitBytes
  <2> HIDE DEF s
  <2>3. FrameLength(s) = Len(s) /\ Len(s) <= UartMaxFrame /\ Len(s) >= 4 /\ Len(s) >= 2 /\ s \in Bytes
    BY <2>1, MaxFrame DEF FrameLength, Bytes
  <2>4. <<s[1], s[2]>> = <<166, 91>> /\ <<166, s[1]>> = <<166, 166>>
    BY <2>1
  <2>5. <<166, 91>> \in Sync /\ <<166, 91>> \notin DataSync /\ <<166, 166>> \notin Sync
    BY DEF Sync, DataSync, CommandSync
  <2>6. Headed(s)
    BY <2>3, <2>4, <2>5 DEF Headed
  <2>7. Response(s) = <<>>
    BY <2>3, <2>4, <2>5, ResponseIs
  <2>8. Parse[w \o s].rest = <<>> /\ Parse[w \o s].frames = <<>>
    BY <2>3, <2>6, <2>7, FrameParsed
  <2>9. kind \notin Data
    BY <1>4 DEF Data
  <2> QED
    BY <1>0, <2>2, <2>3, <2>8, <2>9, Zenon DEF Recognised
<1>5. CASE kind = "oversize"
  <2> DEFINE s == <<165, 90, 255, 255>>
  <2>1. /\ s \in Seq(Nat) /\ Len(s) = 4 /\ s[1] = 165 /\ s[2] = 90 /\ s[3] = 255 /\ s[4] = 255
    OBVIOUS
  <2>2. UnitBytes(kind, n) = s
    BY <1>5 DEF UnitBytes
  <2> HIDE DEF s
  <2>3. FrameLength(s) > UartMaxFrame /\ Len(s) >= 4 /\ s \in Bytes
    BY <2>1, MaxFrame DEF FrameLength, Bytes
  <2>4. (s[1] = 165 /\ s[2] = 90) \/ (s[1] = 90 /\ s[2] = 165)
    BY <2>1
  <2>5. Headed(s)
    BY <2>3, <2>4, DataHeaded, Zenon
  <2>6. Parse[w \o s].rest = <<>> /\ Parse[w \o s].frames = <<>>
    BY <2>1, <2>3, <2>5, HeaderParsed
  <2>7. kind \notin Data
    BY <1>5 DEF Data
  <2> QED
    BY <1>0, <2>2, <2>3, <2>6, <2>7, Zenon DEF Recognised
<1>6. CASE kind = "noise"
  <2> DEFINE s == <<166>>
  <2>1. UnitBytes(kind, n) = s
    BY <1>6 DEF UnitBytes
  <2>2. s \in Bytes /\ s \in Carried
    BY DEF Bytes, Carried
  <2>3. kind \notin Data
    BY <1>6 DEF Data
  <2>4. Parse[w \o s].rest = s /\ Parse[w \o s].frames = <<>>
    BY StrayParsed
  <2> HIDE DEF s
  <2> QED
    BY <2>1, <2>2, <2>3, <2>4, Zenon DEF Recognised
<1>7. kind \in {"data", "long", "empty", "command", "oversize", "noise"}
  BY ONLY PicoAssumption, SMTT(60)
<1> QED
  BY <1>1, <1>2, <1>3, <1>4, <1>5, <1>6, <1>7, Zenon

-----------------------------------------------------------------------------
(* Frames and pieces. *)

\* Frames with a header, those the gateway writes for the peer, and what TCP carries.
Frame == {s \in Seq(Nat) : Len(s) >= 4}
UplinkFrame == {s \in Seq(Nat) : Len(s) \in (IF "empty" \in Units THEN 4 ELSE 5) .. UartMaxFrame}
Pieces == {Greeting, Bad} \cup [part : {"head", "body"}, frame : Frame]

LEMMA FrameBytes ==
    /\ Frame \subseteq Seq(Nat) /\ UplinkFrame \subseteq Frame /\ UplinkFrame \subseteq Seq(Nat)
    /\ <<>> \notin UplinkFrame /\ Hello \notin UplinkFrame
<1>1. \A s \in UplinkFrame : s \in Seq(Nat) /\ Len(s) >= 4
  BY MaxFrame DEF UplinkFrame
<1>2. Len(<<>>) = 0 /\ Len(Hello) = 1
  BY DEF Hello
<1>3. UplinkFrame \subseteq Frame /\ UplinkFrame \subseteq Seq(Nat)
  BY <1>1 DEF Frame
<1>4. <<>> \notin UplinkFrame
  BY <1>1, <1>2
<1>5. Hello \notin UplinkFrame
  <2>1. ASSUME Hello \in UplinkFrame PROVE Len(Hello) >= 4
    BY <1>1, <2>1, Zenon
  <2> QED
    BY <1>2, <2>1
<1> QED
  BY <1>3, <1>4, <1>5 DEF Frame

-----------------------------------------------------------------------------
(* Sequences. *)

\* A sequence cut in two.
LEMMA CutJoined ==
    ASSUME NEW S, NEW s \in Seq(S), NEW n \in 0 .. Len(s)
    PROVE  SubSeq(s, 1, n) \o Drop(s, n) = s
<1>1. Len(s) \in Nat
  BY LenProperties
<1>2. 1 \in 1 .. Len(s) + 1 /\ n \in 1 - 1 .. Len(s) /\ Len(s) \in n .. Len(s)
  BY <1>1
<1>3. SubSeq(s, 1, n) \o SubSeq(s, n + 1, Len(s)) = SubSeq(s, 1, Len(s))
  BY <1>2, ConcatAdjacentSubSeq
<1> QED
  BY <1>3, SubSeqFull DEF Drop

\* Both parts of a joined sequence hold its elements.
LEMMA PartsTyped ==
    ASSUME NEW S, NEW F, NEW a \in Seq(S), NEW b \in Seq(S), a \o b \in Seq(F)
    PROVE  a \in Seq(F) /\ b \in Seq(F)
<1>1. Len(a) \in Nat /\ Len(b) \in Nat /\ Len(a \o b) = Len(a) + Len(b)
  BY LenProperties, ConcatProperties
<1>2. \A i \in 1 .. Len(a \o b) : (a \o b)[i] \in F
  BY ElementOfSeq
<1>3. \A i \in 1 .. Len(a) : a[i] \in F
  <2> TAKE i \in 1 .. Len(a)
  <2>1. i \in 1 .. Len(a \o b) /\ (a \o b)[i] = a[i]
    BY <1>1, ConcatProperties
  <2> QED
    BY <1>2, <2>1
<1>4. \A i \in 1 .. Len(b) : b[i] \in F
  <2> TAKE i \in 1 .. Len(b)
  <2>1. Len(a) + i \in 1 .. Len(a \o b) /\ Len(a) + i > Len(a) /\ (Len(a) + i) - Len(a) = i
    BY <1>1
  <2>2. (a \o b)[Len(a) + i] = b[i]
    BY <1>1, <2>1, ConcatProperties
  <2> QED
    BY <1>2, <2>1, <2>2
<1> QED
  BY <1>3, <1>4, SeqDef

\* Four sequences, joined either way.
Regroups(a, b, c, d) ==
    /\ (a \o b) \o (c \o d) = a \o ((b \o c) \o d)
    /\ (a \o (b \o c)) \o d = a \o (b \o (c \o d))

LEMMA Regrouped ==
    ASSUME NEW S, NEW a, NEW b, NEW c, NEW d,
           a \in Seq(S), b \in Seq(S), c \in Seq(S), d \in Seq(S)
    PROVE  Regroups(a, b, c, d)
<1> DEFINE x == b \o c
           y == c \o d
<1>1. x \in Seq(S) /\ y \in Seq(S)
  BY ConcatProperties
<1>2. x \o d = b \o y
  <2>1. b \in Seq(S) /\ c \in Seq(S) /\ d \in Seq(S)
    OBVIOUS
  <2> QED
    BY ONLY <2>1, Associative DEF x, y
<1> HIDE DEF x, y
<1>3. (a \o b) \o y = a \o (b \o y)
  <2>1. a \in Seq(S) /\ b \in Seq(S) /\ y \in Seq(S)
    BY <1>1
  <2> QED
    BY ONLY <2>1, Associative
<1>4. (a \o x) \o d = a \o (x \o d)
  <2>1. a \in Seq(S) /\ x \in Seq(S) /\ d \in Seq(S)
    BY <1>1
  <2> QED
    BY ONLY <2>1, Associative
<1>5. (a \o b) \o y = a \o (x \o d) /\ (a \o x) \o d = a \o (b \o y)
  BY <1>2, <1>3, <1>4
<1> QED
  BY ONLY <1>5 DEF x, y, Regroups

-----------------------------------------------------------------------------
(* The stream of the gateway: what it wrote is what the bridge recognised, and     *)
(* what it will recognise in the bytes it has and those still to come.             *)

Framed(buffer, pending, rest, written, seen) ==
    /\ buffer \in Bytes /\ pending \in Bytes /\ rest \in Bytes
    /\ written \in Seq(UplinkFrame) /\ seen \in Seq(UplinkFrame)
    /\ Parse[(buffer \o pending) \o rest].frames \in Seq(UplinkFrame)
    /\ written = seen \o Parse[(buffer \o pending) \o rest].frames
    /\ Parse[(buffer \o pending) \o rest].rest \in Carried
    /\ Parse[buffer].frames = <<>>

LEMMA FramedInit == Framed(<<>>, <<>>, <<>>, <<>>, <<>>)
<1>1. <<>> \in Bytes /\ <<>> \in Seq(UplinkFrame) /\ <<>> \in Carried
  BY DEF Bytes, Carried
<1>2. (<<>> \o <<>>) \o <<>> = <<>> /\ <<>> \o <<>> = <<>>
  BY <1>1, ConcatEmptySeq
<1> QED
  BY <1>1, <1>2, ParseEmpty DEF Framed

\* A read takes what is complete and leaves the rest as it is.
LEMMA FramedRead ==
    ASSUME NEW b, NEW p, NEW l, NEW w, NEW s, Framed(b, p, l, w, s)
    PROVE  /\ b \o p \in Bytes /\ Parse[b \o p].frames \in Seq(UplinkFrame)
           /\ Framed(Parse[b \o p].rest, <<>>, l, w, s \o Parse[b \o p].frames)
<1> DEFINE c == b \o p
           r == Parse[c].rest
           f == Parse[c].frames
           all == Parse[c \o l]
<1>1. /\ b \in Bytes /\ p \in Bytes /\ l \in Bytes /\ w \in Seq(UplinkFrame)
      /\ s \in Seq(UplinkFrame) /\ all.frames \in Seq(UplinkFrame)
      /\ w = s \o all.frames /\ all.rest \in Carried
  BY DEF Framed
<1>2. c \in Bytes
  BY <1>1, ConcatProperties DEF Bytes
<1> HIDE DEF c
<1>3. r \in Bytes /\ f \in Seq(Bytes)
  BY <1>2, ParseTyped
<1>4. all.rest = Parse[r \o l].rest /\ all.frames = f \o Parse[r \o l].frames
  BY <1>1, <1>2, ParseSplits DEF Splits
<1>5. r \o l \in Bytes /\ r \o <<>> = r
  BY <1>1, <1>3, ConcatProperties, ConcatEmptySeq DEF Bytes
<1>6. Parse[r \o l].frames \in Seq(Bytes)
  BY <1>5, ParseTyped
<1>7. Parse[r].frames = <<>>
  BY <1>2, RestParsed
<1> DEFINE g == Parse[r \o l].frames
<1> HIDE DEF r, f, all
<1>8. f \o g \in Seq(UplinkFrame)
  BY <1>1, <1>4
<1> HIDE DEF g
<1>9. f \in Seq(UplinkFrame) /\ g \in Seq(UplinkFrame)
  BY <1>3, <1>6, <1>8, PartsTyped DEF g
<1>10. s \o f \in Seq(UplinkFrame)
  BY <1>1, <1>9, ConcatProperties
<1>11. w = (s \o f) \o g
  <2>1. (s \o f) \o g = s \o (f \o g)
    BY <1>1, <1>9, Associative
  <2> QED
    BY <1>1, <1>4, <2>1 DEF g
<1>12. <<>> \in Bytes
  BY DEF Bytes
<1>13. Framed(r, <<>>, l, w, s \o f)
  BY <1>1, <1>3, <1>4, <1>5, <1>7, <1>9, <1>10, <1>11, <1>12 DEF Framed, g
<1> QED
  BY <1>2, <1>9, <1>13 DEF c, r, f

\* A unit of the gateway is recognised as what it is, when all of it was read.
LEMMA FramedBegins ==
    ASSUME NEW b, NEW p, NEW w, NEW s, Framed(b, p, <<>>, w, s), NEW kind \in Units, NEW n \in Nat
    PROVE  Framed(b, p, UnitBytes(kind, n),
                  IF kind \in Data THEN Append(w, UnitBytes(kind, n)) ELSE w, s)
<1> DEFINE c == b \o p
           u == UnitBytes(kind, n)
           v == Parse[c].rest
           f == Parse[c].frames
           new == IF kind \in Data THEN <<u>> ELSE <<>>
<1>1. /\ b \in Bytes /\ p \in Bytes /\ w \in Seq(UplinkFrame) /\ s \in Seq(UplinkFrame)
      /\ Parse[b].frames = <<>>
  BY DEF Framed
<1>2. c \in Bytes
  BY <1>1, ConcatProperties DEF Bytes
<1>3. c \o <<>> = c
  BY <1>2, ConcatEmptySeq DEF Bytes
<1>4. f \in Seq(UplinkFrame) /\ w = s \o f /\ v \in Carried
  BY <1>3 DEF Framed
<1>5. Recognised(kind, u, v)
  BY <1>4, UnitParsed
<1> HIDE DEF c, u
<1>6. u \in Bytes
  BY <1>5 DEF Recognised
<1>7. Parse[c \o u].rest = Parse[v \o u].rest /\ Parse[c \o u].frames = f \o Parse[v \o u].frames
  BY <1>2, <1>6, ParseSplits DEF Splits
<1> HIDE DEF v, f
<1>8. Parse[c \o u].rest \in Carried /\ Parse[c \o u].frames = f \o new
  BY <1>5, <1>7 DEF Recognised
<1>9. kind \in Data => u \in UplinkFrame
  <2>1. ASSUME kind \in Data PROVE Len(u) \in (IF "empty" \in Units THEN 4 ELSE 5) .. UartMaxFrame
    <3>1. Len(u) \in (IF kind = "empty" THEN 4 ELSE 5) .. 6
      BY <1>5, <2>1 DEF Recognised
    <3>2. kind = "empty" => "empty" \in Units
      OBVIOUS
    <3> QED
      BY <3>1, <3>2, MaxFrame
  <2> QED
    BY <1>6, <2>1 DEF UplinkFrame, Bytes
<1>10. new \in Seq(UplinkFrame)
  BY <1>9
<1>11. f \o new \in Seq(UplinkFrame)
  BY <1>4, <1>10, ConcatProperties
<1> DEFINE w2 == IF kind \in Data THEN Append(w, u) ELSE w
<1>12. w2 \in Seq(UplinkFrame) /\ w2 = w \o new
  <2>1. CASE kind \in Data
    BY <1>1, <1>9, <2>1, AppendIsConcat, AppendProperties
  <2>2. CASE kind \notin Data
    BY <1>1, <2>2, ConcatEmptySeq
  <2> QED
    BY <2>1, <2>2
<1> HIDE DEF new, w2
<1>13. w2 = s \o (f \o new)
  BY <1>1, <1>4, <1>10, <1>12, Associative
<1>14. Framed(b, p, u, w2, s)
  BY <1>1, <1>6, <1>8, <1>11, <1>12, <1>13 DEF Framed, c
<1> QED
  BY <1>14 DEF u, w2

\* Wherever the transfer is cut, the bytes are the same.
LEMMA FramedWrites ==
    ASSUME NEW b, NEW p, NEW l, NEW w, NEW s, Framed(b, p, l, w, s), NEW n \in 0 .. Len(l)
    PROVE  Framed(b, p \o SubSeq(l, 1, n), Drop(l, n), w, s)
<1> DEFINE t == SubSeq(l, 1, n)
           d == Drop(l, n)
<1>1. b \in Bytes /\ p \in Bytes /\ l \in Bytes
  BY DEF Framed
<1>2. t \in Bytes /\ d \in Bytes /\ t \o d = l
  BY <1>1, TakeIs, DropIs, CutJoined DEF Bytes
<1> HIDE DEF t, d
<1>3. p \o t \in Bytes /\ b \o p \in Bytes
  BY <1>1, <1>2, ConcatProperties DEF Bytes
<1>4. b \o (p \o t) = (b \o p) \o t /\ ((b \o p) \o t) \o d = (b \o p) \o (t \o d)
  <2>1. /\ b \in Seq(Nat) /\ p \in Seq(Nat) /\ t \in Seq(Nat) /\ d \in Seq(Nat)
        /\ b \o p \in Seq(Nat)
    BY <1>1, <1>2, <1>3 DEF Bytes
  <2>2. b \o (p \o t) = (b \o p) \o t
    BY <2>1, Associative, SMTT(60)
  <2>3. ((b \o p) \o t) \o d = (b \o p) \o (t \o d)
    <3> DEFINE c == b \o p
    <3>1. c \in Seq(Nat)
      BY <2>1
    <3> HIDE DEF c
    <3>2. (c \o t) \o d = c \o (t \o d)
      BY <2>1, <3>1, Associative, SMTT(60)
    <3> QED
      BY <3>2 DEF c
  <2> QED
    BY <2>2, <2>3
<1>5. (b \o (p \o t)) \o d = (b \o p) \o l
  BY <1>2, <1>4
<1>6. Framed(b, p \o t, d, w, s)
  BY <1>1, <1>2, <1>3, <1>5 DEF Framed
<1> QED
  BY <1>6 DEF t, d

\* The bridge has recognised the first of the frames, and all of them when no bytes
\* are on the way.
LEMMA FramedSeen ==
    ASSUME NEW b, NEW p, NEW l, NEW w, NEW s, Framed(b, p, l, w, s)
    PROVE  IsPrefix(s, w) /\ ((l = <<>> /\ p = <<>>) => s = w)
<1> DEFINE f == Parse[(b \o p) \o l].frames
<1>1. /\ b \in Seq(Nat) /\ s \in Seq(UplinkFrame) /\ f \in Seq(UplinkFrame) /\ w = s \o f
      /\ Parse[b].frames = <<>>
  BY DEF Framed, Bytes
<1>2. ASSUME l = <<>>, p = <<>> PROVE f = <<>>
  BY <1>1, <1>2, ConcatEmptySeq
<1> HIDE DEF f
<1>3. f = <<>> => s = w
  BY <1>1, ConcatEmptySeq
<1>4. Len(s) <= Len(w) /\ Len(s) \in Nat
  BY <1>1, LenProperties, ConcatProperties
<1>5. SubSeq(s, 1, Len(s)) = SubSeq(w, 1, Len(s))
  <2>1. CASE Len(s) = 0
    BY <2>1, SubSeqEmpty
  <2>2. CASE Len(s) # 0
    <3>1. Len(s) \in 1 .. Len(s)
      BY <1>4, <2>2
    <3>2. SubSeq(w, 1, Len(s)) = SubSeq(s, 1, Len(s))
      BY <1>1, <3>1, TakeConcat
    <3> QED
      BY <3>2
  <2> QED
    BY <2>1, <2>2
<1> QED
  BY <1>2, <1>3, <1>4, <1>5 DEF IsPrefix

-----------------------------------------------------------------------------
(* The UART: what was written, the rest of the frame in flight and the mailbox are  *)
(* the frames admitted.                                                            *)

Sent(packets, bytes, active, offset, out, all) ==
    /\ packets \in Seq(Frame) /\ all \in Seq(Frame)
    /\ bytes = Cost(packets) /\ bytes <= UartBytes /\ Len(packets) <= UartDepth
    /\ active \in Bytes /\ offset \in 0 .. Len(active) /\ out \in Bytes
    /\ out \o (Drop(active, offset) \o FlattenSeq(packets)) = FlattenSeq(all)

LEMMA SentInit == Sent(<<>>, 0, <<>>, 0, <<>>, <<>>)
<1>1. <<>> \in Bytes /\ <<>> \in Seq(Frame) /\ Len(<<>>) = 0
  BY DEF Bytes
<1>2. Drop(<<>>, 0) = <<>>
  BY <1>1, DropNone DEF Bytes
<1>3. <<>> \o (<<>> \o <<>>) = <<>>
  BY <1>1, ConcatEmptySeq
<1>4. UartBytes \in Nat /\ UartDepth \in Nat
  BY ONLY Capacities
<1> DEFINE e == <<>>
<1>5. /\ e \in Seq(Frame) /\ e \in Bytes /\ 0 = Cost(e) /\ 0 <= UartBytes /\ Len(e) <= UartDepth
      /\ 0 \in 0 .. Len(e)
  BY <1>1, <1>4, CostEmpty
<1>6. e \o (Drop(e, 0) \o FlattenSeq(e)) = FlattenSeq(e)
  BY <1>2, <1>3, FlattenEmpty
<1> HIDE DEF e
<1>7. Sent(e, 0, e, 0, e, e)
  BY <1>5, <1>6 DEF Sent
<1> QED
  BY <1>7 DEF e

LEMMA SentTyped ==
    ASSUME NEW ps, NEW n, NEW a, NEW o, NEW out, NEW all, Sent(ps, n, a, o, out, all)
    PROVE  /\ ps \in Seq(Seq(Nat)) /\ all \in Seq(Seq(Nat)) /\ a \in Seq(Nat) /\ out \in Seq(Nat)
           /\ FlattenSeq(ps) \in Seq(Nat) /\ Drop(a, o) \in Seq(Nat)
           /\ Len(a) \in Nat /\ o \in Nat /\ n \in Int
<1>1. ps \in Seq(Frame) /\ all \in Seq(Frame) /\ a \in Seq(Nat) /\ out \in Seq(Nat)
  BY DEF Sent, Bytes
<1>2. ps \in Seq(Seq(Nat)) /\ all \in Seq(Seq(Nat))
  BY <1>1, FrameBytes, SeqMonotonic
<1>3. FlattenSeq(ps) \in Seq(Nat)
  BY <1>2, FlattenType
<1>4. Len(a) \in Nat /\ o \in 0 .. Len(a)
  BY <1>1, LenProperties DEF Sent
<1>5. Drop(a, o) \in Seq(Nat)
  BY <1>1, <1>4, DropIs
<1>6. \A i \in 1 .. Len(ps) : Len(ps[i]) >= 4
  BY <1>1, ElementOfSeq DEF Frame
<1>7. n \in Int
  BY <1>2, <1>6, CostNat DEF Sent
<1> QED
  BY <1>1, <1>2, <1>3, <1>4, <1>5, <1>7

\* An admitted frame is the last to be written.
LEMMA SentEnqueue ==
    ASSUME NEW ps, NEW n, NEW a, NEW o, NEW out, NEW all, Sent(ps, n, a, o, out, all),
           NEW frame \in Frame, Len(ps) < UartDepth, PacketCost(frame) <= UartBytes - n
    PROVE  Sent(Append(ps, frame), n + PacketCost(frame), a, o, out, Append(all, frame))
<1> DEFINE d == Drop(a, o)
           rest == FlattenSeq(ps)
<1>1. /\ ps \in Seq(Seq(Nat)) /\ all \in Seq(Seq(Nat)) /\ out \in Seq(Nat)
      /\ rest \in Seq(Nat) /\ d \in Seq(Nat) /\ n \in Int
  BY SentTyped
<1>2. frame \in Seq(Nat) /\ Len(frame) \in Nat
  BY LenProperties DEF Frame
<1>3. /\ ps \in Seq(Frame) /\ all \in Seq(Frame) /\ n = Cost(ps) /\ n <= UartBytes
      /\ Len(ps) <= UartDepth /\ a \in Bytes /\ o \in 0 .. Len(a) /\ out \in Bytes
      /\ out \o (d \o rest) = FlattenSeq(all)
  BY DEF Sent
<1>4. /\ FlattenSeq(Append(ps, frame)) = rest \o frame
      /\ FlattenSeq(Append(all, frame)) = FlattenSeq(all) \o frame
  BY <1>1, <1>2, FlattenAppend
<1> HIDE DEF d, rest
<1>5. out \o (d \o (rest \o frame)) = (out \o (d \o rest)) \o frame
  <2>1. out \in Seq(Nat) /\ d \in Seq(Nat) /\ rest \in Seq(Nat) /\ frame \in Seq(Nat)
    BY <1>1, <1>2
  <2>2. Regroups(out, d, rest, frame)
    BY <2>1, Regrouped
  <2> QED
    BY ONLY <2>2 DEF Regroups
<1>6. out \o (d \o FlattenSeq(Append(ps, frame))) = FlattenSeq(Append(all, frame))
  BY <1>3, <1>4, <1>5
<1>7. Append(ps, frame) \in Seq(Frame) /\ Append(all, frame) \in Seq(Frame)
  BY <1>3, AppendProperties
<1>8. Len(Append(ps, frame)) = Len(ps) + 1 /\ Len(ps) \in Nat
  BY <1>3, AppendProperties, LenProperties
<1>9. n + PacketCost(frame) = Cost(Append(ps, frame))
  BY <1>1, <1>2, <1>3, CostAppend
<1>10. n + PacketCost(frame) <= UartBytes /\ Len(Append(ps, frame)) <= UartDepth
  BY <1>1, <1>2, <1>8, PicoAssumption DEF PacketCost
<1> QED
  BY <1>3, <1>6, <1>7, <1>9, <1>10 DEF Sent, d

\* The writer takes the first frame of the mailbox, and its credit goes back.
LEMMA SentTake ==
    ASSUME NEW ps, NEW n, NEW a, NEW o, NEW out, NEW all, Sent(ps, n, a, o, out, all),
           a = <<>>, ps # <<>>
    PROVE  /\ Sent(Tail(ps), n - PacketCost(Head(ps)), Head(ps), 0, out, all)
           /\ Head(ps) # <<>> /\ o = 0
<1>1. /\ ps \in Seq(Seq(Nat)) /\ all \in Seq(Seq(Nat)) /\ out \in Seq(Nat)
      /\ FlattenSeq(ps) \in Seq(Nat) /\ n \in Int
  BY SentTyped
<1>2. /\ ps \in Seq(Frame) /\ all \in Seq(Frame) /\ n = Cost(ps) /\ n <= UartBytes
      /\ Len(ps) <= UartDepth /\ out \in Bytes /\ o \in 0 .. Len(a)
      /\ out \o (Drop(a, o) \o FlattenSeq(ps)) = FlattenSeq(all)
  BY DEF Sent
<1> DEFINE h == Head(ps)
           t == Tail(ps)
<1>3. h \in Frame /\ t \in Seq(Frame) /\ Len(t) = Len(ps) - 1 /\ Len(ps) \in Nat
  BY <1>2, HeadTailProperties, LenProperties
<1>4. h \in Seq(Nat) /\ Len(h) >= 4 /\ Len(h) \in Nat
  BY <1>3, LenProperties DEF Frame
<1>5. FlattenSeq(ps) = h \o FlattenSeq(t)
  BY <1>1, FlattenHeadTail
<1>6. o = 0 /\ Drop(a, o) = <<>> /\ Drop(h, 0) = h /\ 0 \in 0 .. Len(h)
  <2>1. <<>> \in Seq(Nat) /\ Len(<<>>) = 0
    OBVIOUS
  <2>2. o = 0
    BY <1>2, <2>1
  <2>3. Drop(<<>>, 0) = <<>> /\ Drop(h, 0) = h
    BY <1>4, <2>1, DropNone
  <2> QED
    BY <1>4, <2>2, <2>3
<1>7. <<>> \o FlattenSeq(ps) = FlattenSeq(ps)
  BY <1>1, ConcatEmptySeq
<1>8. n - PacketCost(h) = Cost(t)
  BY <1>1, <1>2, CostTail
<1>9. h # <<>>
  BY <1>4, EmptySeq
<1> HIDE DEF h, t
<1>10. out \o (Drop(h, 0) \o FlattenSeq(t)) = FlattenSeq(all)
  BY <1>2, <1>5, <1>6, <1>7
<1>11. n - PacketCost(h) <= UartBytes /\ Len(t) <= UartDepth
  <2> DEFINE cost == PacketCost(h)
  <2>1. cost \in Int /\ cost >= 0
    BY <1>4 DEF PacketCost
  <2>2. UartBytes \in Nat /\ UartDepth \in Nat
    BY ONLY Capacities
  <2> HIDE DEF cost
  <2>3. n - cost <= UartBytes
    BY <1>1, <1>2, <2>1, <2>2
  <2>4. Len(t) <= UartDepth
    BY <1>2, <1>3, <2>2
  <2> QED
    BY <2>3, <2>4 DEF cost
<1>12. Sent(t, n - PacketCost(h), h, 0, out, all)
  BY <1>2, <1>3, <1>4, <1>6, <1>8, <1>10, <1>11 DEF Sent, Bytes
<1> QED
  BY <1>6, <1>9, <1>12 DEF h, t

\* A write continues where the last one stopped.
LEMMA SentWrite ==
    ASSUME NEW ps, NEW n, NEW a, NEW o, NEW out, NEW all, Sent(ps, n, a, o, out, all),
           NEW count \in 0 .. Len(a) - o
    PROVE  Sent(ps, n, a, o + count, out \o SubSeq(a, o + 1, o + count), all)
<1> DEFINE m == o + count
           w == SubSeq(a, o + 1, m)
           d == Drop(a, m)
           rest == FlattenSeq(ps)
<1>1. /\ a \in Seq(Nat) /\ out \in Seq(Nat) /\ rest \in Seq(Nat) /\ Len(a) \in Nat /\ o \in Nat
  BY SentTyped
<1>2. /\ ps \in Seq(Frame) /\ all \in Seq(Frame) /\ n = Cost(ps) /\ n <= UartBytes
      /\ Len(ps) <= UartDepth /\ a \in Bytes /\ o \in 0 .. Len(a) /\ out \in Bytes
      /\ out \o (Drop(a, o) \o rest) = FlattenSeq(all)
  BY DEF Sent
<1>3. m \in 0 .. Len(a) /\ m \in o .. Len(a) /\ Len(a) \in m .. Len(a) /\ m \in Nat
  BY <1>1, <1>2
<1>4. w \o d = Drop(a, o)
  <2>1. o + 1 \in 1 .. Len(a) + 1 /\ m \in (o + 1) - 1 .. Len(a)
    BY <1>1, <1>2, <1>3
  <2> HIDE DEF m
  <2>2. SubSeq(a, o + 1, m) \o SubSeq(a, m + 1, Len(a)) = SubSeq(a, o + 1, Len(a))
    BY <1>1, <1>3, <2>1, ConcatAdjacentSubSeq
  <2> QED
    BY <2>2 DEF Drop
<1>5. w \in Seq(Nat)
  <2>1. \A i \in o + 1 .. m : a[i] \in Nat
    BY <1>1, <1>3, ElementOfSeq
  <2>2. o + 1 \in Int /\ m \in Int
    BY <1>1, <1>3
  <2> HIDE DEF m
  <2> QED
    BY <2>1, <2>2, SubSeqProperties
<1>6. d \in Seq(Nat)
  BY <1>1, <1>3, DropIs
<1> HIDE DEF w, d, rest, m
<1>7. (out \o w) \o (d \o rest) = out \o ((w \o d) \o rest)
  <2>1. out \in Seq(Nat) /\ w \in Seq(Nat) /\ d \in Seq(Nat) /\ rest \in Seq(Nat)
    BY <1>1, <1>5, <1>6
  <2>2. Regroups(out, w, d, rest)
    BY <2>1, Regrouped
  <2> QED
    BY ONLY <2>2 DEF Regroups
<1>8. (out \o w) \o (d \o rest) = FlattenSeq(all)
  BY <1>2, <1>4, <1>7
<1>9. out \o w \in Bytes
  BY <1>1, <1>5, ConcatProperties DEF Bytes
<1>10. Sent(ps, n, a, m, out \o w, all)
  BY <1>2, <1>3, <1>8, <1>9 DEF Sent, d, rest
<1> QED
  BY <1>10 DEF w, m

\* A frame is done when its last byte was written.
LEMMA SentDone ==
    ASSUME NEW ps, NEW n, NEW a, NEW out, NEW all, Sent(ps, n, a, Len(a), out, all)
    PROVE  Sent(ps, n, <<>>, 0, out, all)
<1>1. a \in Seq(Nat) /\ <<>> \in Seq(Nat) /\ Len(<<>>) = 0
  BY DEF Sent, Bytes
<1>2. Drop(a, Len(a)) = <<>> /\ Drop(<<>>, 0) = <<>>
  BY <1>1, DropAll, DropNone
<1> DEFINE e == <<>>
<1>3. /\ ps \in Seq(Frame) /\ all \in Seq(Frame) /\ n = Cost(ps) /\ n <= UartBytes
      /\ Len(ps) <= UartDepth /\ out \in Bytes
      /\ out \o (Drop(a, Len(a)) \o FlattenSeq(ps)) = FlattenSeq(all)
  BY DEF Sent
<1>4. e \in Bytes /\ 0 \in 0 .. Len(e) /\ Drop(a, Len(a)) = Drop(e, 0)
  BY <1>1, <1>2 DEF Bytes
<1> HIDE DEF e
<1>5. Sent(ps, n, e, 0, out, all)
  BY <1>3, <1>4 DEF Sent
<1> QED
  BY <1>5 DEF e

-----------------------------------------------------------------------------
(* The mailbox to the host. *)

Stored(packets, bytes) ==
    /\ packets \in Seq(UplinkFrame)
    /\ bytes = Cost(packets) /\ bytes <= HostBytes /\ Len(packets) <= HostDepth

LEMMA StoredTyped ==
    ASSUME NEW ps, NEW n, Stored(ps, n)
    PROVE  ps \in Seq(Seq(Nat)) /\ n \in Int
<1>1. ps \in Seq(Seq(Nat)) /\ ps \in Seq(Frame)
  BY FrameBytes, SeqMonotonic DEF Stored
<1>2. \A i \in 1 .. Len(ps) : Len(ps[i]) >= 4
  BY <1>1, ElementOfSeq DEF Frame
<1> QED
  BY <1>1, <1>2, CostNat DEF Stored

LEMMA StoredEmpty == Stored(<<>>, 0)
<1>1. HostBytes \in Nat /\ HostDepth \in Nat /\ <<>> \in Seq(UplinkFrame) /\ Len(<<>>) = 0
  BY Capacities
<1> QED
  BY <1>1, CostEmpty DEF Stored

\* A read adds frames at the end while a session is up, and clears the mailbox
\* otherwise.
LEMMA StoredRead ==
    ASSUME NEW ps, NEW n, Stored(ps, n), NEW frames \in Seq(UplinkFrame), NEW connected \in BOOLEAN,
           NEW box, box = EnqueueEach(IF ~connected THEN Cleared ELSE [packets |-> ps, bytes |-> n],
                                      frames, connected)
    PROVE  /\ Stored(box.packets, box.bytes)
           /\ ~connected => box.packets = <<>>
           /\ connected => box.packets = ps \o Drop(box.packets, Len(ps))
<1> DEFINE F == UplinkFrame
           first == IF ~connected THEN Cleared ELSE [packets |-> ps, bytes |-> n]
           before == IF ~connected THEN <<>> ELSE ps
<1>1. F \subseteq Seq(Nat)
  BY FrameBytes
<1>2. n \in Int /\ ps \in Seq(F) /\ Stored(<<>>, 0)
  BY StoredTyped, StoredEmpty DEF Stored
<1>3. before \in Seq(F)
  BY <1>2
<1>4. first.packets = before /\ first.bytes = (IF ~connected THEN 0 ELSE n) /\ first \in Box(F)
  BY <1>2 DEF Cleared, Box
<1>5. Gained(first, F, before)
  <2>1. Stored(first.packets, first.bytes)
    BY <1>2, <1>4
  <2>2. <<>> \in Seq(F) /\ before \o <<>> = before
    BY <1>3, ConcatEmptySeq
  <2> HIDE DEF first, before, F
  <2> QED
    BY <1>4, <2>1, <2>2 DEF Gained, Stored
<1> HIDE DEF first, before, F
<1>6. box = EnqueueEach(first, frames, connected) /\ frames \in Seq(F)
  BY DEF first, F
<1>7. Gained(box, F, before) /\ (~connected => box = first)
  BY <1>1, <1>3, <1>5, <1>6, EachGains
<1>8. Stored(box.packets, box.bytes)
  BY <1>7 DEF Gained, Box, Stored, F
<1>9. ~connected => box.packets = <<>>
  BY <1>4, <1>7 DEF before
<1>10. ASSUME connected PROVE box.packets = ps \o Drop(box.packets, Len(ps))
  <2>1. PICK more \in Seq(F) : box.packets = ps \o more
    BY <1>7, <1>10 DEF Gained, before
  <2>2. Len(ps) \in 0 .. Len(ps) /\ Drop(ps, Len(ps)) = <<>>
    BY <1>2, LenProperties, DropAll
  <2>3. Drop(ps \o more, Len(ps)) = Drop(ps, Len(ps)) \o more
    BY <1>2, <2>2, DropConcat
  <2>4. <<>> \o more = more
    BY ConcatEmptySeq
  <2> QED
    BY <2>1, <2>2, <2>3, <2>4
<1> QED
  BY <1>8, <1>9, <1>10

\* The first frame leaves, and its credit goes back.
LEMMA StoredPop ==
    ASSUME NEW ps, NEW n, Stored(ps, n), ps # <<>>
    PROVE  /\ Stored(Tail(ps), n - PacketCost(Head(ps)))
           /\ Head(ps) \in UplinkFrame /\ ps = <<Head(ps)>> \o Tail(ps)
<1> DEFINE h == Head(ps)
           t == Tail(ps)
<1>1. ps \in Seq(Seq(Nat)) /\ n \in Int /\ ps \in Seq(UplinkFrame)
  BY StoredTyped DEF Stored
<1>2. h \in UplinkFrame /\ t \in Seq(UplinkFrame) /\ Len(t) = Len(ps) - 1 /\ Len(ps) \in Nat
  BY <1>1, HeadTailProperties, LenProperties
<1>3. h \in Frame
  BY <1>2, FrameBytes
<1>4. Len(h) >= 4 /\ Len(h) \in Nat
  BY <1>3, LenProperties DEF Frame
<1>5. n - PacketCost(h) = Cost(t)
  BY <1>1, CostTail DEF Stored
<1>6. ps = <<h>> \o t
  <2>1. <<h>> \o t \in Seq(UplinkFrame) /\ Len(<<h>> \o t) = Len(ps)
    <3>1. <<h>> \in Seq(UplinkFrame) /\ Len(<<h>>) = 1
      BY <1>2
    <3> QED
      BY <1>2, <3>1, ConcatProperties
  <2>2. \A i \in 1 .. Len(ps) : ps[i] = (<<h>> \o t)[i]
    BY <1>1, <1>2, HeadTailProperties, ConcatProperties
  <2> QED
    BY <1>1, <2>1, <2>2, SeqEqual
<1> HIDE DEF h, t
<1>7. n - PacketCost(h) <= HostBytes /\ Len(t) <= HostDepth
  BY <1>1, <1>2, <1>4, PicoAssumption DEF PacketCost, Stored
<1>8. Stored(t, n - PacketCost(h))
  BY <1>2, <1>5, <1>7 DEF Stored
<1> QED
  BY <1>2, <1>6, <1>8 DEF h, t

-----------------------------------------------------------------------------
(* The stream of the peer: a greeting or none, then headers each followed by its    *)
(* body, and pieces that are neither.                                              *)

LEMMA PieceIs ==
    ASSUME NEW p \in Pieces
    PROVE  /\ p.part \in {"hello", "bad", "head", "body"}
           /\ p.part = "hello" => p = Greeting
           /\ p.part = "bad" => p = Bad
           /\ p.part \in {"head", "body"} => p.frame \in Frame
<1>1. Greeting.part = "hello" /\ Bad.part = "bad"
  BY DEF Greeting, Bad, Piece
<1>2. CASE p = Greeting
  BY <1>1, <1>2
<1>3. CASE p = Bad
  BY <1>1, <1>3
<1>4. CASE p \in [part : {"head", "body"}, frame : Frame]
  BY <1>4
<1> QED
  BY <1>2, <1>3, <1>4 DEF Pieces

LEMMA PiecesHold ==
    /\ Greeting \in Pieces /\ Bad \in Pieces /\ Greeting.part = "hello" /\ Bad.part = "bad"
    /\ \A part \in {"head", "body"}, frame \in Frame :
          Piece(part, frame) \in Pieces /\ Piece(part, frame).part = part
                                        /\ Piece(part, frame).frame = frame
BY DEF Pieces, Greeting, Bad, Piece

\* Every body follows its header, and a greeting is the first piece of a session.
Follows(pieces, hello) ==
    \A i \in 1 .. Len(pieces) :
        /\ pieces[i].part = "body" <=> (i > 1 /\ pieces[i - 1].part = "head")
        /\ pieces[i].part = "hello" => (i = 1 /\ ~hello)

Ending(pieces, head) == head <=> (pieces # <<>> /\ pieces[Len(pieces)].part = "head")

LEMMA FollowsAppend ==
    ASSUME NEW s \in Seq(Pieces), NEW hello, NEW head, NEW p \in Pieces,
           Follows(s, hello), Ending(s, head), p.part = "body" <=> head,
           p.part = "hello" => (s = <<>> /\ ~hello)
    PROVE  Follows(Append(s, p), hello) /\ Ending(Append(s, p), p.part = "head")
<1> DEFINE t == Append(s, p)
<1>1. /\ t \in Seq(Pieces) /\ t # <<>> /\ Len(t) = Len(s) + 1 /\ Len(s) \in Nat
      /\ \A i \in 1 .. Len(s) : t[i] = s[i]
      /\ t[Len(s) + 1] = p
  BY AppendProperties, LenProperties
<1> HIDE DEF t
<1>2. Ending(t, p.part = "head")
  BY <1>1 DEF Ending
<1>3. ASSUME NEW i \in 1 .. Len(t)
      PROVE  /\ t[i].part = "body" <=> (i > 1 /\ t[i - 1].part = "head")
             /\ t[i].part = "hello" => (i = 1 /\ ~hello)
  <2>1. CASE i \in 1 .. Len(s)
    <3>1. t[i] = s[i] /\ (i > 1 => t[i - 1] = s[i - 1])
      BY <1>1, <2>1
    <3> QED
      BY <2>1, <3>1 DEF Follows
  <2>2. CASE i = Len(s) + 1
    <3>1. s = <<>> <=> Len(s) = 0
      BY EmptySeq
    <3>2. s # <<>> => t[i - 1] = s[Len(s)]
      BY <1>1, <2>2, <3>1
    <3>3. t[i].part = "body" <=> (s # <<>> /\ s[Len(s)].part = "head")
      BY <1>1, <2>2 DEF Ending
    <3> QED
      BY <1>1, <2>2, <3>1, <3>2, <3>3
  <2> QED
    BY <1>1, <1>3, <2>1, <2>2
<1>4. Follows(t, hello)
  BY <1>3 DEF Follows
<1> QED
  BY <1>2, <1>4 DEF t

\* What was acted on leaves the stream in order, unless it is a header alone.
LEMMA FollowsDrop ==
    ASSUME NEW s \in Seq(Pieces), NEW hello, NEW head, NEW n \in 1 .. Len(s),
           Follows(s, hello), Ending(s, head), s[n].part # "head"
    PROVE  Follows(Drop(s, n), TRUE) /\ Ending(Drop(s, n), head)
<1> DEFINE t == Drop(s, n)
<1>1. /\ t \in Seq(Pieces) /\ Len(t) = Len(s) - n /\ Len(s) \in Nat /\ n \in Nat
      /\ \A i \in 1 .. Len(s) - n : t[i] = s[n + i]
  BY DropIs, LenProperties
<1> HIDE DEF t
<1>2. t = <<>> <=> Len(s) = n
  BY <1>1, EmptySeq
<1>3. s # <<>>
  BY <1>1, EmptySeq
<1>4. Ending(t, head)
  <2>1. CASE Len(s) = n
    BY <1>2, <1>3, <2>1 DEF Ending
  <2>2. CASE Len(s) # n
    <3>1. Len(t) \in 1 .. Len(s) - n /\ n + Len(t) = Len(s)
      BY <1>1, <2>2
    <3>2. t[Len(t)] = s[Len(s)]
      BY <1>1, <3>1
    <3> QED
      BY <1>2, <1>3, <2>2, <3>2 DEF Ending
  <2> QED
    BY <2>1, <2>2
<1>5. ASSUME NEW i \in 1 .. Len(t)
      PROVE  /\ t[i].part = "body" <=> (i > 1 /\ t[i - 1].part = "head")
             /\ t[i].part # "hello"
  <2>1. n + i \in 1 .. Len(s) /\ n + i > 1 /\ t[i] = s[n + i] /\ (n + i) - 1 = n + (i - 1)
    BY <1>1
  <2>2. /\ s[n + i].part = "body" <=> s[n + (i - 1)].part = "head"
        /\ s[n + i].part # "hello"
    BY <2>1 DEF Follows
  <2>3. CASE i = 1
    BY <1>1, <2>1, <2>2, <2>3
  <2>4. CASE i > 1
    <3>1. t[i - 1] = s[n + (i - 1)]
      BY <1>1, <2>4
    <3> QED
      BY <2>1, <2>2, <2>4, <3>1
  <2> QED
    BY <2>3, <2>4
<1>6. Follows(t, TRUE)
  BY <1>5 DEF Follows
<1> QED
  BY <1>4, <1>6 DEF t

\* The pieces the session retains and those still in the stream.
Streamed(retained, coming, hello, head) ==
    /\ retained \in Seq(Pieces) /\ coming \in Seq(Pieces)
    /\ Follows(retained \o coming, hello) /\ Ending(retained \o coming, head)
    /\ Len(retained) <= 2 /\ (Len(retained) = 2 => retained[1].part = "head")
    /\ ~hello => (retained = <<>> /\ (coming # <<>> => coming[1].part \in {"hello", "bad"}))

LEMMA StreamedEmpty ==
    ASSUME NEW hello
    PROVE  Streamed(<<>>, <<>>, hello, FALSE)
<1> DEFINE e == <<>>
<1>1. e \in Seq(Pieces) /\ e \o e = e /\ Len(e) = 0 /\ e = <<>>
  OBVIOUS
<1> HIDE DEF e
<1>2. Follows(e, hello) /\ Ending(e, FALSE)
  BY <1>1 DEF Follows, Ending
<1>3. Len(e) <= 2 /\ (Len(e) = 2 => e[1].part = "head")
  BY <1>1
<1>4. e = <<>> /\ (e # <<>> => e[1].part \in {"hello", "bad"})
  BY <1>1
<1>5. Follows(e \o e, hello) /\ Ending(e \o e, FALSE)
  BY <1>1, <1>2
<1>6. Streamed(e, e, hello, FALSE)
  BY <1>1, <1>3, <1>4, <1>5, Zenon DEF Streamed
<1> QED
  BY <1>6 DEF e

\* The peer writes a piece.
LEMMA StreamedAppend ==
    ASSUME NEW r, NEW c, NEW hello, NEW head, Streamed(r, c, hello, head), NEW p \in Pieces,
           p.part = "body" <=> head,
           p.part = "hello" => (r = <<>> /\ c = <<>> /\ ~hello),
           (~hello /\ c = <<>>) => p.part \in {"hello", "bad"}
    PROVE  Streamed(r, Append(c, p), hello, p.part = "head")
<1> DEFINE s == r \o c
           d == Append(c, p)
<1>1. /\ r \in Seq(Pieces) /\ c \in Seq(Pieces) /\ Follows(s, hello) /\ Ending(s, head)
      /\ Len(r) <= 2 /\ (Len(r) = 2 => r[1].part = "head")
      /\ ~hello => (r = <<>> /\ (c # <<>> => c[1].part \in {"hello", "bad"}))
  BY DEF Streamed
<1>2. s \in Seq(Pieces) /\ (r = <<>> /\ c = <<>> => s = <<>>)
  BY <1>1, ConcatProperties, ConcatEmptySeq
<1>3. r \o d = Append(s, p)
  <2>1. <<p>> \in Seq(Pieces)
    OBVIOUS
  <2>2. d = c \o <<p>> /\ Append(s, p) = s \o <<p>>
    BY <1>1, <1>2, AppendIsConcat
  <2>3. r \in Seq(Pieces) /\ c \in Seq(Pieces) /\ <<p>> \in Seq(Pieces)
    BY <1>1, <2>1
  <2>4. (r \o c) \o <<p>> = r \o (c \o <<p>>)
    BY ONLY <2>3, Associative, SMTT(60)
  <2> QED
    BY <2>2, <2>4
<1>4. /\ d \in Seq(Pieces) /\ d # <<>>
      /\ d[1] = IF c = <<>> THEN p ELSE c[1]
  <2>1. /\ d \in Seq(Pieces) /\ d # <<>> /\ Len(c) \in Nat
        /\ \A i \in 1 .. Len(c) : d[i] = c[i]
        /\ d[Len(c) + 1] = p
    BY <1>1, AppendProperties, LenProperties
  <2>2. c = <<>> <=> Len(c) = 0
    BY <1>1, EmptySeq
  <2> QED
    BY <2>1, <2>2
<1> HIDE DEF s, d
<1>5. Follows(Append(s, p), hello) /\ Ending(Append(s, p), p.part = "head")
  BY <1>1, <1>2, FollowsAppend
<1>6. Streamed(r, d, hello, p.part = "head")
  BY <1>1, <1>3, <1>4, <1>5 DEF Streamed
<1> QED
  BY <1>6 DEF d

\* Reading a piece moves it.
LEMMA Moved ==
    ASSUME NEW S, NEW r \in Seq(S), NEW c \in Seq(S), c # <<>>
    PROVE  /\ Append(r, Head(c)) \in Seq(S) /\ Tail(c) \in Seq(S) /\ Head(c) \in S
           /\ Head(c) = c[1]
           /\ Append(r, Head(c)) \o Tail(c) = r \o c
<1> DEFINE h == Head(c)
           t == Tail(c)
<1>1. h \in S /\ t \in Seq(S) /\ <<h>> \in Seq(S) /\ <<h>> \o t \in Seq(S)
  <2>1. h \in S /\ t \in Seq(S)
    BY HeadTailProperties
  <2> QED
    BY <2>1, ConcatProperties
<1>2. Append(r, h) = r \o <<h>> /\ Append(r, h) \in Seq(S)
  BY <1>1, AppendIsConcat, AppendProperties
<1>3. h = c[1]
  OBVIOUS
<1>4. <<h>> \o t = c
  <2>1. Len(<<h>> \o t) = Len(c) /\ Len(c) \in Nat /\ Len(t) = Len(c) - 1
    BY <1>1, HeadTailProperties, ConcatProperties, LenProperties
  <2>2. \A i \in 1 .. Len(c) : (<<h>> \o t)[i] = c[i]
    BY <1>1, <1>3, <2>1, HeadTailProperties, ConcatProperties
  <2> QED
    BY <1>1, <2>1, <2>2, SeqEqual
<1> HIDE DEF h, t
<1>5. (r \o <<h>>) \o t = r \o (<<h>> \o t)
  <2>1. r \in Seq(S) /\ <<h>> \in Seq(S) /\ t \in Seq(S)
    BY <1>1
  <2> QED
    BY ONLY <2>1, Associative, SMTT(60)
<1>6. Append(r, h) \o t = r \o c
  BY <1>2, <1>4, <1>5
<1> QED
  BY <1>1, <1>2, <1>3, <1>6 DEF h, t

\* The session reads the next piece of the stream.
LEMMA StreamedArrives ==
    ASSUME NEW r, NEW c, NEW head, Streamed(r, c, TRUE, head),
           c # <<>>, Len(r) # 2, r # <<Bad>>
    PROVE  Streamed(Append(r, Head(c)), Tail(c), TRUE, head)
<1> DEFINE a == Append(r, Head(c))
           t == Tail(c)
           s == r \o c
<1>1. r \in Seq(Pieces) /\ c \in Seq(Pieces) /\ Len(r) <= 2
  BY DEF Streamed
<1>2. Follows(s, TRUE) /\ Ending(s, head)
  BY DEF Streamed
<1>3. a \in Seq(Pieces) /\ t \in Seq(Pieces) /\ Head(c) \in Pieces
  BY <1>1, Moved
<1>4. a \o t = s
  BY <1>1, Moved
<1>5. Len(a) = Len(r) + 1 /\ Len(r) \in Nat /\ (Len(r) = 1 => a[1] = r[1])
  BY <1>1, <1>3, AppendProperties, LenProperties
<1>6. Len(s) = Len(r) + Len(c) /\ Len(c) \in Nat /\ (Len(r) = 1 => s[1] = r[1])
  BY <1>1, <1>5, ConcatProperties, LenProperties
<1> HIDE DEF a, t, s
<1>7. Len(a) <= 2 /\ (Len(a) = 2 => Len(r) = 1)
  <2> DEFINE m == Len(r)
             n == Len(a)
  <2>1. m # 2 /\ m <= 2 /\ m \in Nat /\ n = m + 1
    BY <1>1, <1>5
  <2> HIDE DEF m, n
  <2>2. n <= 2 /\ (n = 2 => m = 1)
    BY <2>1
  <2> QED
    BY <2>2 DEF m, n
<1>8. ASSUME Len(r) = 1 PROVE a[1].part = "head"
  <2>1. r[1] \in Pieces
    <3>1. 1 \in 1 .. Len(r) /\ r \in Seq(Pieces)
      BY <1>1, <1>8
    <3> QED
      BY ONLY <3>1, ElementOfSeq
  <2>2. r = <<r[1]>>
    BY <1>1, <1>8
  <2>3. 1 \in 1 .. Len(s)
    BY <1>6, <1>8
  <2>4. r[1].part # "body" /\ r[1].part # "hello"
    BY <1>2, <1>6, <1>8, <2>3 DEF Follows
  <2>5. r[1] # Bad
    BY <2>2
  <2>6. r[1].part = "head"
    BY <2>1, <2>4, <2>5, PieceIs
  <2> QED
    BY <1>5, <1>8, <2>6
<1>9. Follows(a \o t, TRUE) /\ Ending(a \o t, head)
  BY <1>2, <1>4, Zenon
<1>10. Len(a) = 2 => a[1].part = "head"
  BY <1>7, <1>8
<1>11. Streamed(a, t, TRUE, head)
  BY <1>3, <1>7, <1>9, <1>10, Zenon DEF Streamed
<1> QED
  BY <1>11 DEF a, t

\* The greeting is acted on.
LEMMA StreamedGreeted ==
    ASSUME NEW r, NEW c, NEW head, Streamed(r, c, FALSE, head),
           c # <<>>, Head(c) = Greeting
    PROVE  Streamed(<<>>, Tail(c), TRUE, head)
<1>1. /\ r = <<>> /\ c \in Seq(Pieces) /\ Follows(r \o c, FALSE) /\ Ending(r \o c, head)
  BY DEF Streamed
<1>2. r \o c = c /\ Len(c) \in Nat /\ Len(c) # 0
  BY <1>1, ConcatEmptySeq, LenProperties, EmptySeq
<1>3. c[1].part # "head" /\ 1 \in 1 .. Len(c)
  <2>1. c[1] = Greeting
    BY <1>1
  <2> QED
    BY <1>2, <2>1, PiecesHold
<1>4. Follows(Drop(c, 1), TRUE) /\ Ending(Drop(c, 1), head)
  BY <1>1, <1>2, <1>3, FollowsDrop
<1> DEFINE t == Tail(c)
           e == <<>>
<1>5. Drop(c, 1) = t
  BY <1>1, TailIsSubSeq DEF Drop
<1>6. t \in Seq(Pieces) /\ e \in Seq(Pieces) /\ e \o t = t
  BY <1>1, HeadTailProperties, ConcatEmptySeq
<1>7. Len(e) <= 2 /\ (Len(e) = 2 => e[1].part = "head")
  OBVIOUS
<1>8. Follows(e \o t, TRUE) /\ Ending(e \o t, head)
  BY <1>4, <1>5, <1>6
<1> HIDE DEF e, t
<1>9. Streamed(e, t, TRUE, head)
  BY <1>6, <1>7, <1>8 DEF Streamed
<1> QED
  BY <1>9 DEF e, t

\* A complete frame is admitted.
LEMMA StreamedAdmits ==
    ASSUME NEW r, NEW c, NEW head, Streamed(r, c, TRUE, head), Len(r) = 2
    PROVE  /\ Streamed(<<>>, c, TRUE, head)
           /\ r[1].part # "body" /\ r[2].part = "body" /\ r[2].frame \in Frame
<1> DEFINE s == r \o c
           e == <<>>
<1>1. r \in Seq(Pieces) /\ c \in Seq(Pieces) /\ r[1].part = "head"
  BY DEF Streamed
<1>2. Follows(s, TRUE) /\ Ending(s, head)
  BY DEF Streamed
<1>3. s \in Seq(Pieces) /\ Len(s) = Len(r) + Len(c) /\ Len(c) \in Nat
  BY <1>1, ConcatProperties, LenProperties
<1>4. \A i \in 1 .. Len(r) : s[i] = r[i]
  BY <1>1, <1>3, ConcatProperties
<1>5. 1 \in 1 .. Len(r) /\ 2 \in 1 .. Len(r) /\ 2 \in 0 .. Len(r) /\ 2 - 1 = 1 /\ 2 > 1
  OBVIOUS
<1>6. s[1] = r[1] /\ s[2] = r[2] /\ 2 \in 1 .. Len(s)
  BY <1>3, <1>4, <1>5
<1>7. e \in Seq(Pieces) /\ e \o c = c /\ Len(e) <= 2 /\ (Len(e) = 2 => e[1].part = "head")
  BY <1>1, ConcatEmptySeq
<1>8. Drop(s, 2) = e \o c
  <2>1. Drop(s, 2) = Drop(r, 2) \o c
    BY <1>1, <1>5, DropConcat
  <2>2. Drop(r, 2) = e
    BY <1>1, DropAll
  <2> QED
    BY <2>1, <2>2
<1> HIDE DEF s, e
<1>9. r[2].part = "body"
  <2>1. s[2].part = "body" <=> (2 > 1 /\ s[2 - 1].part = "head")
    BY <1>2, <1>6 DEF Follows
  <2> QED
    BY <1>1, <1>5, <1>6, <2>1
<1>10. r[2] \in Pieces
  BY <1>1, <1>5, ElementOfSeq
<1>11. r[2].frame \in Frame
  BY <1>9, <1>10, PieceIs
<1>12. Follows(Drop(s, 2), TRUE) /\ Ending(Drop(s, 2), head)
  BY <1>2, <1>3, <1>6, <1>9, FollowsDrop
<1>13. Follows(e \o c, TRUE) /\ Ending(e \o c, head)
  BY <1>8, <1>12, Zenon
<1>14. Streamed(e, c, TRUE, head)
  BY <1>1, <1>7, <1>13, Zenon DEF Streamed
<1> QED
  BY <1>1, <1>9, <1>11, <1>14 DEF e

-----------------------------------------------------------------------------
(* The frames of the peer: admitted, retained, or in the stream.                   *)

LEMMA BodyTyped ==
    ASSUME NEW p \in Pieces
    PROVE  BodyOf(p) \in Seq(Frame)
BY PieceIs DEF BodyOf

Bodies(pieces) == [i \in 1 .. Len(pieces) |-> BodyOf(pieces[i])]

LEMMA BodiesTyped ==
    ASSUME NEW s \in Seq(Pieces)
    PROVE  /\ Bodies(s) \in Seq(Seq(Frame)) /\ Len(Bodies(s)) = Len(s)
           /\ BodiesIn(s) = FlattenSeq(Bodies(s)) /\ BodiesIn(s) \in Seq(Frame)
<1>1. Len(s) \in Nat /\ \A i \in 1 .. Len(s) : BodyOf(s[i]) \in Seq(Frame)
  BY LenProperties, ElementOfSeq, BodyTyped
<1>2. Bodies(s) \in Seq(Seq(Frame)) /\ Len(Bodies(s)) = Len(s)
  BY <1>1, IsASeq DEF Bodies
<1>3. BodiesIn(s) = FlattenSeq(Bodies(s))
  BY DEF BodiesIn, Bodies
<1> QED
  BY <1>2, <1>3, FlattenType

LEMMA BodiesAppend ==
    ASSUME NEW s \in Seq(Pieces), NEW p \in Pieces
    PROVE  BodiesIn(Append(s, p)) = BodiesIn(s) \o BodyOf(p)
<1> DEFINE t == Append(s, p)
           b == Bodies(s)
           d == Bodies(t)
           e == Append(b, BodyOf(p))
<1>1. /\ t \in Seq(Pieces) /\ Len(t) = Len(s) + 1 /\ Len(s) \in Nat
      /\ \A i \in 1 .. Len(s) : t[i] = s[i]
      /\ t[Len(s) + 1] = p
  BY AppendProperties, LenProperties
<1>2. /\ b \in Seq(Seq(Frame)) /\ Len(b) = Len(s)
      /\ d \in Seq(Seq(Frame)) /\ Len(d) = Len(t)
      /\ BodiesIn(s) = FlattenSeq(b) /\ BodiesIn(t) = FlattenSeq(d)
  BY <1>1, BodiesTyped
<1>3. BodyOf(p) \in Seq(Frame)
  BY BodyTyped
<1>4. /\ e \in Seq(Seq(Frame)) /\ Len(e) = Len(s) + 1
      /\ \A i \in 1 .. Len(s) : e[i] = b[i]
      /\ e[Len(s) + 1] = BodyOf(p)
  BY <1>2, <1>3, AppendProperties
<1>5. \A i \in 1 .. Len(s) : b[i] = BodyOf(s[i])
  BY DEF Bodies
<1>6. \A i \in 1 .. Len(t) : d[i] = BodyOf(t[i])
  BY DEF Bodies
<1> HIDE DEF t, b, d, e
<1>7. \A i \in 1 .. Len(d) : d[i] = e[i]
  <2> TAKE i \in 1 .. Len(d)
  <2>1. CASE i \in 1 .. Len(s)
    BY <1>1, <1>2, <1>4, <1>5, <1>6, <2>1
  <2>2. CASE i = Len(s) + 1
    BY <1>1, <1>2, <1>4, <1>6, <2>2
  <2> QED
    BY <1>1, <1>2, <2>1, <2>2
<1>8. d = e
  <2>1. Len(d) = Len(e)
    BY <1>1, <1>2, <1>4
  <2> QED
    BY <1>2, <1>4, <1>7, <2>1, SeqEqual
<1>9. FlattenSeq(e) = FlattenSeq(b) \o BodyOf(p)
  BY <1>2, <1>3, FlattenAppend DEF e
<1>10. BodiesIn(t) = BodiesIn(s) \o BodyOf(p)
  BY <1>2, <1>8, <1>9
<1> QED
  BY <1>10 DEF t

LEMMA BodiesHead ==
    ASSUME NEW s \in Seq(Pieces), s # <<>>
    PROVE  BodiesIn(s) = BodyOf(Head(s)) \o BodiesIn(Tail(s))
<1> DEFINE t == Tail(s)
           b == Bodies(s)
           d == Bodies(t)
<1>1. /\ t \in Seq(Pieces) /\ Len(t) = Len(s) - 1 /\ Len(s) \in Nat /\ Len(s) >= 1
      /\ \A i \in 1 .. Len(t) : t[i] = s[i + 1]
  BY HeadTailProperties, LenProperties, EmptySeq
<1>2. /\ b \in Seq(Seq(Frame)) /\ Len(b) = Len(s)
      /\ d \in Seq(Seq(Frame)) /\ Len(d) = Len(t)
      /\ BodiesIn(s) = FlattenSeq(b) /\ BodiesIn(t) = FlattenSeq(d)
  BY <1>1, BodiesTyped
<1>3. \A i \in 1 .. Len(s) : b[i] = BodyOf(s[i])
  BY DEF Bodies
<1>4. \A i \in 1 .. Len(t) : d[i] = BodyOf(t[i])
  BY DEF Bodies
<1>5. Head(s) = s[1]
  OBVIOUS
<1> HIDE DEF t, b, d
<1>6. b # <<>> /\ Head(b) = b[1] /\ Head(b) = BodyOf(Head(s))
  <2>1. b # <<>>
    BY <1>1, <1>2, EmptySeq
  <2>2. Head(b) = b[1]
    BY <1>2, <2>1
  <2> QED
    BY <1>1, <1>3, <1>5, <2>1, <2>2
<1>7. Tail(b) = d
  <2>1. /\ Tail(b) \in Seq(Seq(Frame)) /\ Len(Tail(b)) = Len(b) - 1
        /\ \A i \in 1 .. Len(Tail(b)) : Tail(b)[i] = b[i + 1]
    BY <1>2, <1>6, HeadTailProperties
  <2>2. Len(Tail(b)) = Len(d)
    BY <1>1, <1>2, <2>1
  <2>3. \A i \in 1 .. Len(Tail(b)) : Tail(b)[i] = d[i]
    <3> TAKE i \in 1 .. Len(Tail(b))
    <3>1. i \in 1 .. Len(t) /\ i + 1 \in 1 .. Len(s)
      BY <1>1, <1>2, <2>2
    <3>2. d[i] = BodyOf(t[i]) /\ t[i] = s[i + 1] /\ b[i + 1] = BodyOf(s[i + 1])
      BY <1>1, <1>3, <1>4, <3>1
    <3> QED
      BY <2>1, <3>2
  <2> QED
    BY <1>2, <2>1, <2>2, <2>3, SeqEqual
<1>8. FlattenSeq(b) = Head(b) \o FlattenSeq(Tail(b))
  BY <1>2, <1>6, FlattenHeadTail
<1>9. BodiesIn(s) = BodyOf(Head(s)) \o BodiesIn(t)
  BY <1>2, <1>6, <1>7, <1>8
<1> QED
  BY <1>9 DEF t

LEMMA BodiesNone == BodiesIn(<<>>) = <<>>
<1>1. Bodies(<<>>) = <<>>
  BY DEF Bodies
<1> QED
  BY <1>1, FlattenEmpty DEF BodiesIn, Bodies

Retained(frames, done, r, c) ==
    /\ frames \in Seq(Frame) /\ done \in Seq(Frame)
    /\ frames = (done \o BodiesIn(r)) \o BodiesIn(c)

LEMMA RetainedEmpty == Retained(<<>>, <<>>, <<>>, <<>>)
<1>1. <<>> \in Seq(Frame) /\ (<<>> \o <<>>) \o <<>> = <<>>
  BY ConcatEmptySeq
<1> QED
  BY <1>1, BodiesNone DEF Retained

LEMMA RetainedAppend ==
    ASSUME NEW f, NEW k, NEW r \in Seq(Pieces), NEW c \in Seq(Pieces), Retained(f, k, r, c),
           NEW p \in Pieces
    PROVE  Retained(f \o BodyOf(p), k, r, Append(c, p))
<1> DEFINE x == k \o BodiesIn(r)
           y == BodiesIn(c)
           z == BodyOf(p)
<1>1. f \in Seq(Frame) /\ k \in Seq(Frame) /\ f = x \o y
  BY DEF Retained
<1>2. x \in Seq(Frame) /\ y \in Seq(Frame) /\ z \in Seq(Frame)
  BY <1>1, BodiesTyped, BodyTyped, ConcatProperties
<1>3. BodiesIn(Append(c, p)) = y \o z
  BY BodiesAppend
<1> HIDE DEF x, y, z
<1>4. (x \o y) \o z = x \o (y \o z)
  <2>1. x \in Seq(Frame) /\ y \in Seq(Frame) /\ z \in Seq(Frame)
    BY <1>2
  <2> QED
    BY ONLY <2>1, Associative, SMTT(60)
<1>5. f \o z \in Seq(Frame)
  BY <1>1, <1>2, ConcatProperties
<1>6. f \o z = x \o BodiesIn(Append(c, p))
  BY <1>1, <1>3, <1>4
<1> QED
  BY <1>1, <1>5, <1>6 DEF Retained, x, z

LEMMA RetainedArrives ==
    ASSUME NEW f, NEW k, NEW r \in Seq(Pieces), NEW c \in Seq(Pieces), Retained(f, k, r, c),
           c # <<>>
    PROVE  Retained(f, k, Append(r, Head(c)), Tail(c))
<1> DEFINE b == BodiesIn(r)
           y == BodyOf(Head(c))
           z == BodiesIn(Tail(c))
<1>1. f \in Seq(Frame) /\ k \in Seq(Frame) /\ f = (k \o b) \o BodiesIn(c)
  BY DEF Retained
<1>2. Head(c) \in Pieces /\ Tail(c) \in Seq(Pieces)
  BY HeadTailProperties
<1>3. b \in Seq(Frame) /\ y \in Seq(Frame) /\ z \in Seq(Frame)
  BY <1>2, BodiesTyped, BodyTyped
<1>4. BodiesIn(c) = y \o z /\ BodiesIn(Append(r, Head(c))) = b \o y
  BY <1>2, BodiesHead, BodiesAppend
<1> HIDE DEF b, y, z
<1>5. Regroups(k, b, y, z)
  BY <1>1, <1>3, Regrouped
<1>6. (k \o b) \o (y \o z) = k \o ((b \o y) \o z)
  BY ONLY <1>5 DEF Regroups
<1>7. (k \o (b \o y)) \o z = k \o ((b \o y) \o z)
  <2> DEFINE x == b \o y
  <2>1. x \in Seq(Frame)
    BY <1>3, ConcatProperties
  <2> HIDE DEF x
  <2>2. k \in Seq(Frame) /\ x \in Seq(Frame) /\ z \in Seq(Frame)
    BY <1>1, <1>3, <2>1
  <2>3. (k \o x) \o z = k \o (x \o z)
    BY ONLY <2>2, Associative, SMTT(60)
  <2> QED
    BY <2>3 DEF x
<1>8. f = (k \o (b \o y)) \o z
  BY <1>1, <1>4, <1>6, <1>7
<1>9. f = (k \o BodiesIn(Append(r, Head(c)))) \o z
  BY <1>4, <1>8
<1> QED
  BY <1>1, <1>9 DEF Retained, z

\* What was retained is admitted.
LEMMA RetainedEmptied ==
    ASSUME NEW f, NEW k, NEW r \in Seq(Pieces), NEW c \in Seq(Pieces), Retained(f, k, r, c)
    PROVE  Retained(f, k \o BodiesIn(r), <<>>, c)
<1> DEFINE x == k \o BodiesIn(r)
<1>1. f \in Seq(Frame) /\ k \in Seq(Frame) /\ f = x \o BodiesIn(c)
  BY DEF Retained
<1>2. x \in Seq(Frame)
  BY <1>1, BodiesTyped, ConcatProperties
<1> HIDE DEF x
<1>3. x \o BodiesIn(<<>>) = x
  BY <1>2, BodiesNone, ConcatEmptySeq
<1>4. Retained(f, x, <<>>, c)
  BY <1>1, <1>2, <1>3 DEF Retained
<1> QED
  BY <1>4 DEF x

LEMMA BodiesGreeting == BodiesIn(<<Greeting>>) = <<>>
<1>1. <<>> \in Seq(Pieces) /\ <<Greeting>> = Append(<<>>, Greeting) /\ Greeting \in Pieces
  BY PiecesHold
<1>2. BodyOf(Greeting) = <<>>
  BY PiecesHold DEF BodyOf
<1>3. BodiesIn(Append(<<>>, Greeting)) = BodiesIn(<<>>) \o BodyOf(Greeting)
  BY <1>1, BodiesAppend
<1>4. <<>> \o <<>> = <<>>
  OBVIOUS
<1> QED
  BY <1>1, <1>2, <1>3, <1>4, BodiesNone

\* A complete frame is one body.
LEMMA BodiesFrame ==
    ASSUME NEW r \in Seq(Pieces), Len(r) = 2, r[1].part # "body", r[2].part = "body"
    PROVE  BodiesIn(r) = <<r[2].frame>>
<1>1. r = Append(<<r[1]>>, r[2]) /\ <<r[1]>> = Append(<<>>, r[1])
  OBVIOUS
<1>2. r[1] \in Pieces /\ r[2] \in Pieces /\ <<r[1]>> \in Seq(Pieces) /\ <<>> \in Seq(Pieces)
  <2>1. 1 \in 1 .. Len(r) /\ 2 \in 1 .. Len(r) /\ r \in Seq(Pieces)
    OBVIOUS
  <2>2. r[1] \in Pieces /\ r[2] \in Pieces
    BY ONLY <2>1, ElementOfSeq
  <2> QED
    BY <2>2
<1>3. BodyOf(r[1]) = <<>> /\ BodyOf(r[2]) = <<r[2].frame>>
  BY DEF BodyOf
<1>4. BodiesIn(Append(<<>>, r[1])) = BodiesIn(<<>>) \o BodyOf(r[1])
  BY <1>2, BodiesAppend
<1>5. BodiesIn(Append(<<r[1]>>, r[2])) = BodiesIn(<<r[1]>>) \o BodyOf(r[2])
  BY <1>2, BodiesAppend
<1>6. <<>> \o <<>> = <<>> /\ <<>> \o <<r[2].frame>> = <<r[2].frame>>
  OBVIOUS
<1> QED
  BY <1>1, <1>3, <1>4, <1>5, <1>6, BodiesNone

-----------------------------------------------------------------------------
(* The frames for the peer: uploaded, being written, or in the mailbox.            *)

Outgoings == UplinkFrame \cup {<<>>, Hello}

Writing(outgoing) == IF outgoing \in {<<>>, Hello} THEN <<>> ELSE <<outgoing>>

Uploading(accepted, done, outgoing, packets) ==
    /\ accepted \in Seq(UplinkFrame) /\ done \in Seq(UplinkFrame)
    /\ packets \in Seq(UplinkFrame) /\ outgoing \in Outgoings
    /\ accepted = (done \o Writing(outgoing)) \o packets

LEMMA WritingTyped ==
    ASSUME NEW o \in Outgoings
    PROVE  Writing(o) \in Seq(UplinkFrame)
<1>1. CASE o \in {<<>>, Hello}
  BY <1>1 DEF Writing
<1>2. CASE o \notin {<<>>, Hello}
  <2>1. o \in UplinkFrame
    BY <1>2 DEF Outgoings
  <2> HIDE DEF UplinkFrame
  <2> QED
    BY <1>2, <2>1 DEF Writing
<1> QED
  BY <1>1, <1>2

LEMMA UploadingEmpty ==
    ASSUME NEW o \in {<<>>, Hello}
    PROVE  Uploading(<<>>, <<>>, o, <<>>)
<1>1. Writing(o) = <<>> /\ o \in Outgoings
  BY DEF Writing, Outgoings
<1>2. <<>> \in Seq(UplinkFrame) /\ (<<>> \o <<>>) \o <<>> = <<>>
  BY ConcatEmptySeq
<1> QED
  BY <1>1, <1>2 DEF Uploading

\* A read accepts frames behind those in the mailbox.
LEMMA UploadingRead ==
    ASSUME NEW a, NEW u, NEW o, NEW ps, Uploading(a, u, o, ps), NEW more \in Seq(UplinkFrame)
    PROVE  Uploading(a \o more, u, o, ps \o more)
<1> DEFINE x == u \o Writing(o)
           F == UplinkFrame
<1>1. a \in Seq(F) /\ u \in Seq(F) /\ ps \in Seq(F) /\ o \in Outgoings /\ a = x \o ps
  BY DEF Uploading
<1>2. x \in Seq(F) /\ ps \in Seq(F) /\ more \in Seq(F)
  BY <1>1, WritingTyped, ConcatProperties
<1> HIDE DEF x, F
<1>3. (x \o ps) \o more = x \o (ps \o more)
  BY ONLY <1>2, Associative, SMTT(60)
<1>4. a \o more \in Seq(F) /\ ps \o more \in Seq(F)
  BY <1>1, <1>2, ConcatProperties
<1>5. a \o more = x \o (ps \o more)
  BY <1>1, <1>3
<1> QED
  BY <1>1, <1>4, <1>5 DEF Uploading, x, F

\* The idle writer takes the first frame of the mailbox.
LEMMA UploadingPop ==
    ASSUME NEW a, NEW u, NEW h \in UplinkFrame, NEW t \in Seq(UplinkFrame),
           Uploading(a, u, <<>>, <<h>> \o t)
    PROVE  Uploading(a, u, h, t)
<1> DEFINE F == UplinkFrame
           x == <<h>>
           e == <<>>
<1>1. Writing(h) = x /\ h \in Outgoings /\ Writing(e) = e
  BY FrameBytes DEF Writing, Outgoings
<1>2. a \in Seq(F) /\ u \in Seq(F) /\ a = (u \o e) \o (x \o t)
  BY <1>1 DEF Uploading
<1>3. u \o e = u
  BY <1>2, ConcatEmptySeq
<1>4. x \in Seq(F) /\ t \in Seq(F)
  OBVIOUS
<1> HIDE DEF x, e, F
<1>5. (u \o x) \o t = u \o (x \o t)
  BY ONLY <1>2, <1>4, Associative, SMTT(60)
<1>6. a = (u \o x) \o t
  BY <1>2, <1>3, <1>5
<1> QED
  BY <1>1, <1>2, <1>4, <1>6 DEF Uploading, F

\* A frame was written whole.
LEMMA UploadingWritten ==
    ASSUME NEW a, NEW u, NEW o, NEW ps, Uploading(a, u, o, ps), o # <<>>
    PROVE  Uploading(a, IF o # Hello THEN Append(u, o) ELSE u, <<>>, ps)
<1> DEFINE F == UplinkFrame
           e == <<>>
           v == IF o # Hello THEN Append(u, o) ELSE u
<1>1. a \in Seq(F) /\ u \in Seq(F) /\ ps \in Seq(F) /\ o \in Outgoings
      /\ a = (u \o Writing(o)) \o ps
  BY DEF Uploading
<1>2. Writing(e) = e /\ e \in Outgoings
  BY DEF Writing, Outgoings
<1>3. v \in Seq(F) /\ v = u \o Writing(o)
  <2>1. CASE o = Hello
    BY <1>1, <2>1, ConcatEmptySeq DEF Writing
  <2>2. CASE o # Hello
    <3>1. o \in F /\ Writing(o) = <<o>>
      BY <1>1, <2>2 DEF Outgoings, Writing
    <3> HIDE DEF F
    <3> QED
      BY <1>1, <2>2, <3>1, AppendIsConcat, AppendProperties
  <2> QED
    BY <2>1, <2>2
<1>4. v \o e = v
  BY <1>3, ConcatEmptySeq
<1> HIDE DEF e, v, F
<1>5. a = (v \o e) \o ps
  BY <1>1, <1>3, <1>4
<1>6. Uploading(a, v, e, ps)
  BY <1>1, <1>2, <1>3, <1>5 DEF Uploading, F
<1> QED
  BY <1>6 DEF e, v

-----------------------------------------------------------------------------
(* The invariant.  The parts of the bridge that share no variables come first; the *)
(* session relates the peer's stream and the mailbox to what happened in it.       *)

UplinkInv == Framed(uart_rx, pty, left, uplink, parsed) /\ units \in Nat

UartInv == Sent(uart_tx_packets, uart_tx_bytes, uart_tx_active, uart_tx_offset, wire, admitted)

MailboxInv == Stored(host_packets, host_packet_bytes)

LinkTyped ==
    /\ session \in [open : BOOLEAN, client : BOOLEAN, hello : BOOLEAN, incoming : Seq(Pieces),
                    outgoing : Outgoings, age : Nat]
    /\ peer \in [up : BOOLEAN, stream : Seq(Pieces), greeted : BOOLEAN, head : BOOLEAN,
                 waiting : BOOLEAN, sessions : Nat, frames : Nat]

\* No session, none greeted yet, and one that is.
NoSession ==
    ~session.open =>
        /\ session = Closed /\ ~peer.up /\ peer.stream = <<>> /\ ~peer.head
        /\ down = <<>> /\ taken = <<>> /\ uploaded = <<>>

Ungreeted ==
    /\ (session.open /\ ~peer.greeted) => (~session.hello /\ peer.stream = <<>> /\ ~peer.head)
    /\ (session.open /\ ~session.hello /\ peer.greeted) => peer.stream # <<>>
    /\ ~session.hello =>
          /\ session.outgoing \in {<<>>, Hello} /\ uploaded = <<>>
          /\ at # "read" => (host_packets = <<>> /\ kept = <<>>)

LinkInv ==
    /\ LinkTyped /\ NoSession /\ Ungreeted
    /\ Streamed(session.incoming, peer.stream, session.hello, peer.head)
    /\ Retained(down, taken, session.incoming, peer.stream)
    /\ session.hello => Uploading(kept, uploaded, session.outgoing, host_packets)

Inv == UplinkInv /\ UartInv /\ MailboxInv /\ LinkInv

LEMMA InvInit == Init => Inv
<1> SUFFICES ASSUME Init PROVE Inv
  OBVIOUS
<1>1. UplinkInv
  BY FramedInit DEF Init, BridgeInit, UplinkInv
<1>2. UartInv
  BY SentInit DEF Init, BridgeInit, UartInv
<1>3. MailboxInv
  BY StoredEmpty DEF Init, BridgeInit, MailboxInv
<1>4. LinkInv
  <2>1. session = Closed /\ peer = NoPeer /\ down = <<>> /\ taken = <<>> /\ kept = <<>>
        /\ uploaded = <<>> /\ host_packets = <<>>
    BY DEF Init, BridgeInit
  <2>2. /\ ~session.open /\ ~session.hello /\ session.incoming = <<>> /\ session.outgoing = <<>>
        /\ peer.stream = <<>> /\ peer.head = FALSE /\ ~peer.up
    BY <2>1 DEF Closed, NoPeer
  <2>3. LinkTyped
    BY <2>1 DEF LinkTyped, Closed, NoPeer, Outgoings
  <2>4. NoSession /\ Ungreeted
    BY <2>1, <2>2 DEF NoSession, Ungreeted
  <2>5. Streamed(session.incoming, peer.stream, session.hello, peer.head)
    BY <2>2, StreamedEmpty
  <2>6. Retained(down, taken, session.incoming, peer.stream)
    BY <2>1, <2>2, RetainedEmpty
  <2> QED
    BY <2>2, <2>3, <2>4, <2>5, <2>6 DEF LinkInv
<1> QED
  BY <1>1, <1>2, <1>3, <1>4 DEF Inv

-----------------------------------------------------------------------------
(* The steps. *)

LEMMA TransferCut ==
    ASSUME NEW size \in Nat, NEW count \in Transfers(size) \cup {0}
    PROVE  count \in 0 .. size
BY PicoAssumption DEF Transfers

LEMMA UplinkStep == UplinkInv /\ [Next]_vars => UplinkInv'
<1> SUFFICES ASSUME UplinkInv, [Next]_vars PROVE UplinkInv'
  OBVIOUS
<1>0. Framed(uart_rx, pty, left, uplink, parsed) /\ units \in Nat
  BY DEF UplinkInv
<1>1. ASSUME UNCHANGED rx PROVE UplinkInv'
  BY <1>0, <1>1 DEF rx, UplinkInv
<1>2. CASE Read
  <2>1. PICK c : ReadGateway(c)
    BY <1>2 DEF Read
  <2>2. /\ uart_rx' = Parse[uart_rx \o pty].rest /\ pty' = <<>> /\ left' = left
        /\ uplink' = uplink /\ parsed' = parsed \o Parse[uart_rx \o pty].frames /\ units' = units
    BY <2>1 DEF ReadGateway
  <2>3. Framed(Parse[uart_rx \o pty].rest, <<>>, left, uplink, parsed \o Parse[uart_rx \o pty].frames)
    BY <1>0, FramedRead
  <2> QED
    BY <1>0, <2>2, <2>3 DEF UplinkInv
<1>3. CASE Gateway
  <2>1. ASSUME NEW kind \in Units, GatewayBegins(kind) PROVE UplinkInv'
    <3>1. /\ left = <<>> /\ units' = units + 1 /\ left' = UnitBytes(kind, units')
          /\ uplink' = IF kind \in Data THEN Append(uplink, left') ELSE uplink
          /\ uart_rx' = uart_rx /\ pty' = pty /\ parsed' = parsed
      BY <2>1 DEF GatewayBegins, Data
    <3>2. units' \in Nat
      BY <1>0, <3>1
    <3>3. Framed(uart_rx, pty, UnitBytes(kind, units'),
                 IF kind \in Data THEN Append(uplink, UnitBytes(kind, units')) ELSE uplink, parsed)
      BY <1>0, <3>1, <3>2, FramedBegins
    <3> QED
      BY <3>1, <3>2, <3>3 DEF UplinkInv
  <2>2. ASSUME NEW count \in Transfers(Len(left)), GatewayWrites(count) PROVE UplinkInv'
    <3>1. /\ pty' = pty \o SubSeq(left, 1, count) /\ left' = Drop(left, count)
          /\ uart_rx' = uart_rx /\ units' = units /\ uplink' = uplink /\ parsed' = parsed
      BY <2>2 DEF GatewayWrites
    <3>2. count \in 0 .. Len(left)
      <4>1. Len(left) \in Nat
        BY <1>0, LenProperties DEF Framed, Bytes
      <4> QED
        BY <2>2, <4>1, TransferCut
    <3>3. Framed(uart_rx, pty \o SubSeq(left, 1, count), Drop(left, count), uplink, parsed)
      BY <1>0, <3>2, FramedWrites
    <3> QED
      BY <1>0, <3>1, <3>3 DEF UplinkInv
  <2> QED
    BY <1>3, <2>1, <2>2 DEF Gateway
<1>4. [Next]_vars => (Read \/ Gateway \/ UNCHANGED rx)
  <2>1. PeerStep => UNCHANGED rx
    BY DEF PeerStep, PeerComes, PeerGreets, PeerGarbles, PeerSendsHead, PeerSendsBody, PeerCloses,
           bridge
  <2>2. (Tick \/ Idle \/ Refuse \/ \E client \in Roles : Accept(client)) => UNCHANGED rx
    BY DEF Tick, Idle, Refuse, Accept, bridge
  <2>3. (\E count \in 0 .. UartMaxFrame : Drain(count)) => UNCHANGED rx
    BY DEF Drain, DrainGateway
  <2>4. (\E whole \in BOOLEAN : Serve(whole)) => UNCHANGED rx
    BY DEF Serve
  <2>5. UNCHANGED vars => UNCHANGED rx
    BY DEF vars, bridge
  <2> QED
    BY <2>1, <2>2, <2>3, <2>4, <2>5 DEF Next, Bridge
<1> QED
  BY <1>1, <1>2, <1>3, <1>4

LEMMA UartDrains ==
    ASSUME UartInv, NEW count, DrainGateway(count)
    PROVE  UartInv'
<1> DEFINE ps == uart_tx_packets
           n == uart_tx_bytes
           a == uart_tx_active
           o == uart_tx_offset
           takes == a = <<>> /\ ps # <<>>
           frame == IF takes THEN Head(ps) ELSE a
           ps2 == IF takes THEN Tail(ps) ELSE ps
           n2 == IF takes THEN n - PacketCost(frame) ELSE n
           out2 == wire \o SubSeq(frame, o + 1, o + count)
           done == o + count = Len(frame)
<1>0. Sent(ps, n, a, o, wire, admitted)
  BY DEF UartInv
<1>1. Sent(ps2, n2, frame, o, wire, admitted) /\ (takes <=> a = <<>> /\ frame # <<>>)
  <2>1. CASE takes
    BY <1>0, <2>1, SentTake
  <2>2. CASE ~takes
    BY <1>0, <2>2
  <2> QED
    BY <2>1, <2>2
<1>2. /\ count \in Transfers(Len(frame) - o) \cup {0}
      /\ wire' = out2
      /\ uart_tx_active' = IF done THEN <<>> ELSE frame
      /\ uart_tx_offset' = IF done THEN 0 ELSE o + count
      /\ admitted' = admitted
  BY DEF DrainGateway, Write
<1>3. uart_tx_packets' = ps2 /\ uart_tx_bytes' = n2
  BY <1>1 DEF DrainGateway
<1> HIDE DEF frame, ps2, n2, out2, takes
<1>4. Len(frame) \in Nat /\ o \in 0 .. Len(frame) /\ frame \in Bytes
  BY <1>1, LenProperties DEF Sent, Bytes
<1>5. count \in 0 .. Len(frame) - o
  <2>1. Len(frame) - o \in Nat
    BY <1>4
  <2> QED
    BY <1>2, <2>1, TransferCut
<1>6. Sent(ps2, n2, frame, o + count, out2, admitted)
  BY <1>1, <1>5, SentWrite DEF out2
<1>7. CASE done
  <2>1. Sent(ps2, n2, <<>>, 0, out2, admitted)
    BY <1>6, <1>7, SentDone
  <2> QED
    BY <1>2, <1>3, <1>7, <2>1 DEF UartInv
<1>8. CASE ~done
  BY <1>2, <1>3, <1>6, <1>8 DEF UartInv
<1> QED
  BY <1>7, <1>8

\* What the session does not change, the peer and the loop do not disturb.
LEMMA LinkStays ==
    ASSUME LinkInv, UNCHANGED <<session, peer, history, host_packets>>,
           at' # "read" => at # "read"
    PROVE  LinkInv'
<1>1. /\ session' = session /\ peer' = peer /\ down' = down /\ taken' = taken /\ kept' = kept
      /\ uploaded' = uploaded /\ host_packets' = host_packets
  BY DEF history
<1>2. LinkTyped' /\ NoSession'
  BY <1>1 DEF LinkInv, LinkTyped, NoSession
<1>3. Ungreeted'
  BY <1>1 DEF LinkInv, Ungreeted
<1>4. Streamed(session.incoming, peer.stream, session.hello, peer.head)'
  BY <1>1 DEF LinkInv
<1>5. Retained(down, taken, session.incoming, peer.stream)'
  BY <1>1 DEF LinkInv
<1>6. session'.hello => Uploading(kept, uploaded, session.outgoing, host_packets)'
  BY <1>1 DEF LinkInv
<1> QED
  BY <1>2, <1>3, <1>4, <1>5, <1>6 DEF LinkInv

LEMMA DownFrames ==
    ASSUME NEW n \in Nat
    PROVE  DownFrame(n) \in Frame
<1>1. CASE n % 2 = 1
  <2>1. <<165, 90, 1, 0, 100 + n>> \in Seq(Nat) /\ Len(<<165, 90, 1, 0, 100 + n>>) = 5
    OBVIOUS
  <2> QED
    BY <1>1, <2>1 DEF DownFrame, Frame
<1>2. CASE n % 2 # 1
  <2>1. /\ <<165, 90, 2, 0, 100 + n, 100 + n>> \in Seq(Nat)
        /\ Len(<<165, 90, 2, 0, 100 + n, 100 + n>>) = 6
    OBVIOUS
  <2> QED
    BY <1>2, <2>1 DEF DownFrame, Frame
<1> QED
  BY <1>1, <1>2

\* The peer writes a piece that may follow what it wrote.
MayFollow(p) ==
    /\ p.part = "body" <=> peer.head
    /\ p.part = "hello" => ~peer.greeted
    /\ ~peer.greeted => p.part \in {"hello", "bad"}

LEMMA PeerWrites ==
    ASSUME LinkInv, NEW p \in Pieces, NEW n \in Nat, session.open, MayFollow(p),
           peer' = [peer EXCEPT !.greeted = TRUE, !.head = (p.part = "head"), !.frames = n,
                                !.stream = Append(@, p)],
           down' = down \o BodyOf(p),
           UNCHANGED <<session, taken, kept, uploaded, host_packets, at>>
    PROVE  LinkInv'
<1>1. /\ LinkTyped /\ NoSession /\ Ungreeted
      /\ Streamed(session.incoming, peer.stream, session.hello, peer.head)
      /\ Retained(down, taken, session.incoming, peer.stream)
      /\ session.hello => Uploading(kept, uploaded, session.outgoing, host_packets)
  BY DEF LinkInv
<1>2. /\ peer.stream \in Seq(Pieces) /\ session.incoming \in Seq(Pieces)
  BY <1>1 DEF LinkTyped
<1>3. /\ peer'.stream = Append(peer.stream, p) /\ peer'.head = (p.part = "head")
      /\ peer'.greeted = TRUE /\ peer'.up = peer.up /\ peer'.frames = n
      /\ peer'.waiting = peer.waiting /\ peer'.sessions = peer.sessions
  BY <1>1 DEF LinkTyped
<1>4. Append(peer.stream, p) \in Seq(Pieces) /\ Append(peer.stream, p) # <<>>
  BY <1>2, AppendProperties
<1>5. LinkTyped'
  <2>1. session' = session
    OBVIOUS
  <2>2. peer' \in [up : BOOLEAN, stream : Seq(Pieces), greeted : BOOLEAN, head : BOOLEAN,
                   waiting : BOOLEAN, sessions : Nat, frames : Nat]
    BY <1>1, <1>4 DEF LinkTyped
  <2> QED
    BY <1>1, <2>1, <2>2 DEF LinkTyped
<1>6. NoSession'
  BY DEF NoSession
<1>7. Ungreeted'
  BY <1>1, <1>3, <1>4 DEF Ungreeted
<1>8. p.part = "hello" => (session.incoming = <<>> /\ peer.stream = <<>> /\ ~session.hello)
  BY <1>1 DEF Ungreeted, Streamed, MayFollow
<1>9. (~session.hello /\ peer.stream = <<>>) => p.part \in {"hello", "bad"}
  BY <1>1 DEF Ungreeted, MayFollow
<1>10. Streamed(session.incoming, Append(peer.stream, p), session.hello, p.part = "head")
  BY <1>1, <1>8, <1>9, StreamedAppend DEF MayFollow
<1>11. Retained(down \o BodyOf(p), taken, session.incoming, Append(peer.stream, p))
  BY <1>1, <1>2, RetainedAppend
<1> QED
  BY <1>1, <1>3, <1>5, <1>6, <1>7, <1>10, <1>11 DEF LinkInv

LEMMA PeerSteps ==
    ASSUME LinkInv, PeerStep
    PROVE  LinkInv'
<1>0. /\ LinkTyped /\ NoSession /\ Ungreeted
      /\ Streamed(session.incoming, peer.stream, session.hello, peer.head)
      /\ Retained(down, taken, session.incoming, peer.stream)
      /\ session.hello => Uploading(kept, uploaded, session.outgoing, host_packets)
  BY DEF LinkInv
<1>1. down \in Seq(Frame)
  BY <1>0 DEF Retained
<1>2. peer \in [up : BOOLEAN, stream : Seq(Pieces), greeted : BOOLEAN, head : BOOLEAN,
                waiting : BOOLEAN, sessions : Nat, frames : Nat]
  BY <1>0 DEF LinkTyped
<1>3. down \o <<>> = down
  BY <1>1, ConcatEmptySeq
<1>4. CASE PeerComes \/ PeerCloses
  <2>1. /\ session' = session /\ at' = at /\ host_packets' = host_packets
        /\ down' = down /\ taken' = taken /\ kept' = kept /\ uploaded' = uploaded
        /\ peer'.stream = peer.stream /\ peer'.head = peer.head /\ peer'.greeted = peer.greeted
        /\ (peer.up => session.open \/ peer'.up = peer.up) /\ (~peer.up => ~peer'.up)
    BY <1>2, <1>4 DEF PeerComes, PeerCloses, PeerUp, bridge, mailbox, history
  <2>2. peer' \in [up : BOOLEAN, stream : Seq(Pieces), greeted : BOOLEAN, head : BOOLEAN,
                   waiting : BOOLEAN, sessions : Nat, frames : Nat]
    <3>1. CASE PeerComes
      <4> DEFINE n == peer.sessions + 1
      <4>1. n \in Nat
        BY <1>2
      <4>2. peer' = [peer EXCEPT !.waiting = TRUE, !.sessions = n]
        BY <3>1 DEF PeerComes
      <4> HIDE DEF n
      <4> QED
        BY <1>2, <4>1, <4>2
    <3>2. CASE PeerCloses
      <4>1. peer' = [peer EXCEPT !.up = FALSE]
        BY <3>2 DEF PeerCloses
      <4> QED
        BY <1>2, <4>1
    <3> QED
      BY <1>4, <3>1, <3>2
  <2>3. LinkTyped'
    BY <1>0, <2>1, <2>2 DEF LinkTyped
  <2>4. NoSession' /\ Ungreeted'
    BY <1>0, <2>1 DEF NoSession, Ungreeted
  <2> QED
    BY <1>0, <2>1, <2>3, <2>4 DEF LinkInv
<1>5. ASSUME NEW hello \in {Greeting, Bad}, PeerGreets(hello) PROVE LinkInv'
  <2>1. /\ session.open /\ ~peer.greeted /\ peer' = [peer EXCEPT !.greeted = TRUE, !.stream = Append(@, hello)]
        /\ UNCHANGED <<session, taken, kept, uploaded, host_packets, at>> /\ down' = down
    BY <1>5 DEF PeerGreets, PeerUp, bridge, mailbox, history
  <2>2. hello \in Pieces /\ hello.part \in {"hello", "bad"}
    BY PiecesHold
  <2>3. ~peer.head
    BY <1>0, <2>1 DEF Ungreeted
  <2>4. BodyOf(hello) = <<>>
    BY <2>2 DEF BodyOf
  <2>5. peer' = [peer EXCEPT !.greeted = TRUE, !.head = (hello.part = "head"),
                             !.frames = peer.frames, !.stream = Append(@, hello)]
    BY <1>2, <2>1, <2>2, <2>3
  <2>6. MayFollow(hello)
    BY <2>1, <2>2, <2>3 DEF MayFollow
  <2>7. peer.frames \in Nat /\ down' = down \o BodyOf(hello)
    BY <1>2, <1>3, <2>1, <2>4
  <2> QED
    BY <2>1, <2>2, <2>5, <2>6, <2>7, PeerWrites
<1>6. CASE PeerGarbles
  <2>1. /\ session.open /\ peer.greeted /\ ~peer.head /\ peer' = [peer EXCEPT !.stream = Append(@, Bad)]
        /\ UNCHANGED <<session, taken, kept, uploaded, host_packets, at>> /\ down' = down
    BY <1>6 DEF PeerGarbles, PeerUp, bridge, mailbox, history
  <2>2. Bad \in Pieces /\ Bad.part = "bad"
    BY PiecesHold
  <2>3. BodyOf(Bad) = <<>>
    BY <2>2 DEF BodyOf
  <2>4. peer' = [peer EXCEPT !.greeted = TRUE, !.head = (Bad.part = "head"),
                             !.frames = peer.frames, !.stream = Append(@, Bad)]
    BY <1>2, <2>1, <2>2
  <2>5. MayFollow(Bad)
    BY <2>1, <2>2 DEF MayFollow
  <2>6. peer.frames \in Nat /\ down' = down \o BodyOf(Bad)
    BY <1>2, <1>3, <2>1, <2>3
  <2> QED
    BY <2>1, <2>2, <2>4, <2>5, <2>6, PeerWrites
<1>7. CASE PeerSendsHead
  <2> DEFINE p == Piece("head", DownFrame(peer.frames + 1))
  <2>1. /\ session.open /\ peer.greeted /\ ~peer.head
        /\ peer' = [peer EXCEPT !.head = TRUE, !.frames = @ + 1, !.stream = Append(@, p)]
        /\ UNCHANGED <<session, taken, kept, uploaded, host_packets, at>> /\ down' = down
    BY <1>7 DEF PeerSendsHead, PeerUp, bridge, mailbox, history
  <2>2. p \in Pieces /\ p.part = "head"
    <3>1. DownFrame(peer.frames + 1) \in Frame
      <4>1. peer.frames + 1 \in Nat
        BY <1>2
      <4> QED
        BY <4>1, DownFrames
    <3> QED
      BY <3>1, PiecesHold
  <2> HIDE DEF p
  <2>3. BodyOf(p) = <<>>
    BY <2>2 DEF BodyOf
  <2>4. peer' = [peer EXCEPT !.greeted = TRUE, !.head = (p.part = "head"),
                             !.frames = peer.frames + 1, !.stream = Append(@, p)]
    BY <1>2, <2>1, <2>2
  <2>5. MayFollow(p)
    BY <2>1, <2>2 DEF MayFollow
  <2>6. peer.frames + 1 \in Nat /\ down' = down \o BodyOf(p)
    BY <1>2, <1>3, <2>1, <2>3
  <2> QED
    BY <2>1, <2>2, <2>4, <2>5, <2>6, PeerWrites
<1>8. CASE PeerSendsBody
  <2> DEFINE p == Piece("body", DownFrame(peer.frames))
  <2>1. /\ session.open /\ peer.head
        /\ peer' = [peer EXCEPT !.head = FALSE, !.stream = Append(@, p)]
        /\ down' = Append(down, DownFrame(peer.frames))
        /\ UNCHANGED <<session, taken, kept, uploaded, host_packets, at>>
    BY <1>8 DEF PeerSendsBody, PeerUp, bridge, mailbox
  <2>2. DownFrame(peer.frames) \in Frame
    BY <1>2, DownFrames
  <2>3. p \in Pieces /\ p.part = "body" /\ p.frame = DownFrame(peer.frames)
    BY <2>2, PiecesHold
  <2> HIDE DEF p
  <2>4. down' = down \o BodyOf(p)
    BY <1>1, <2>1, <2>2, <2>3, AppendIsConcat DEF BodyOf
  <2>5. peer.greeted
    BY <1>0, <2>1 DEF Ungreeted
  <2>6. peer' = [peer EXCEPT !.greeted = TRUE, !.head = (p.part = "head"),
                             !.frames = peer.frames, !.stream = Append(@, p)]
    BY <1>2, <2>1, <2>3, <2>5
  <2>7. MayFollow(p) /\ peer.frames \in Nat
    BY <1>2, <2>1, <2>3, <2>5 DEF MayFollow
  <2> QED
    BY <2>1, <2>3, <2>4, <2>6, <2>7, PeerWrites
<1> QED
  BY <1>4, <1>5, <1>6, <1>7, <1>8 DEF PeerStep

\* The bridge reads its UART: what it recognises is offered to the mailbox.
LEMMA ReadSteps ==
    ASSUME UplinkInv, MailboxInv, LinkInv, Read
    PROVE  MailboxInv' /\ LinkInv'
<1> DEFINE hello == session.hello
           got == Parse[uart_rx \o pty]
           first == IF ~hello THEN Cleared
                    ELSE [packets |-> host_packets, bytes |-> host_packet_bytes]
           box == EnqueueEach(first, got.frames, hello)
           more == Drop(host_packets', Len(host_packets))
<1>0. /\ LinkTyped /\ NoSession /\ Ungreeted
      /\ Streamed(session.incoming, peer.stream, session.hello, peer.head)
      /\ Retained(down, taken, session.incoming, peer.stream)
      /\ session.hello => Uploading(kept, uploaded, session.outgoing, host_packets)
  BY DEF LinkInv
<1>1. /\ session' = session /\ peer' = peer /\ down' = down /\ taken' = taken /\ uploaded' = uploaded
      /\ at' = "drain" /\ host_packets' = box.packets /\ host_packet_bytes' = box.bytes
      /\ kept' = IF hello THEN kept \o more ELSE <<>>
  BY DEF Read, ReadGateway, link
<1>2. hello \in BOOLEAN
  BY <1>0 DEF LinkTyped
<1>3. got.frames \in Seq(UplinkFrame)
  BY FramedRead DEF UplinkInv
<1>4. Stored(host_packets, host_packet_bytes)
  BY DEF MailboxInv
<1>5. /\ Stored(box.packets, box.bytes)
      /\ ~hello => box.packets = <<>>
      /\ hello => box.packets = host_packets \o Drop(box.packets, Len(host_packets))
  <2> DEFINE f == got.frames
             ps == host_packets
             n == host_packet_bytes
  <2>1. box = EnqueueEach(IF ~hello THEN Cleared ELSE [packets |-> ps, bytes |-> n], f, hello)
    OBVIOUS
  <2>2. f \in Seq(UplinkFrame) /\ Stored(ps, n)
    BY <1>3, <1>4
  <2> HIDE DEF box, f, ps, n, hello
  <2>3. /\ Stored(box.packets, box.bytes)
        /\ ~hello => box.packets = <<>>
        /\ hello => box.packets = ps \o Drop(box.packets, Len(ps))
    BY <1>2, <2>1, <2>2, StoredRead
  <2> QED
    BY <2>3 DEF ps
<1> HIDE DEF box, got, first
<1>6. MailboxInv'
  BY <1>1, <1>5 DEF MailboxInv
<1>7. hello => host_packets' = host_packets \o more /\ more \in Seq(UplinkFrame)
  <2>1. host_packets \in Seq(UplinkFrame) /\ box.packets \in Seq(UplinkFrame)
    BY <1>4, <1>5 DEF Stored
  <2>2. hello => box.packets = host_packets \o more
    BY <1>1, <1>5
  <2>3. hello => more \in Seq(UplinkFrame)
    <3>1. ASSUME hello PROVE Len(host_packets) \in 0 .. Len(box.packets)
      <4>2. Len(box.packets) \in Nat /\ Len(host_packets) \in Nat
        BY <2>1, LenProperties
      <4>3. ASSUME Len(host_packets) > Len(box.packets) PROVE FALSE
        <5>1. more = <<>>
          <6>1. Len(host_packets) + 1 \in Int /\ Len(box.packets) \in Int
                /\ Len(box.packets) < Len(host_packets) + 1
            BY <4>2, <4>3
          <6> QED
            BY <1>1, <6>1, SubSeqEmpty DEF Drop
        <5>2. box.packets = host_packets
          BY <2>1, <2>2, <3>1, <5>1, ConcatEmptySeq
        <5> QED
          BY <4>2, <4>3, <5>2
      <4> QED
        BY <4>2, <4>3
    <3> QED
      BY <1>1, <2>1, <3>1, DropIs
  <2> QED
    BY <1>1, <2>2, <2>3
<1> HIDE DEF more
<1>8. LinkTyped' /\ NoSession'
  BY <1>0, <1>1 DEF LinkTyped, NoSession
<1>9. Ungreeted'
  BY <1>0, <1>1, <1>5 DEF Ungreeted
<1>10. ASSUME hello PROVE Uploading(kept', uploaded', session'.outgoing, host_packets')
  <2>1. Uploading(kept \o more, uploaded, session.outgoing, host_packets \o more)
    BY <1>0, <1>7, <1>10, UploadingRead
  <2> QED
    BY <1>1, <1>7, <1>10, <2>1
<1>11. /\ Streamed(session'.incoming, peer'.stream, session'.hello, peer'.head)
       /\ Retained(down', taken', session'.incoming, peer'.stream)
       /\ session'.hello => Uploading(kept', uploaded', session'.outgoing, host_packets')
  BY <1>0, <1>1, <1>10
<1>12. LinkInv'
  BY <1>8, <1>9, <1>11 DEF LinkInv
<1> QED
  BY <1>6, <1>12

LEMMA TickSteps ==
    ASSUME LinkInv, Tick
    PROVE  LinkInv'
<1>0. /\ LinkTyped /\ NoSession /\ Ungreeted
      /\ Streamed(session.incoming, peer.stream, session.hello, peer.head)
      /\ Retained(down, taken, session.incoming, peer.stream)
      /\ session.hello => Uploading(kept, uploaded, session.outgoing, host_packets)
  BY DEF LinkInv
<1> DEFINE n == session.age + 1
<1>1. /\ session' = [session EXCEPT !.age = n] /\ session.open
      /\ peer' = peer /\ down' = down /\ taken' = taken /\ kept' = kept /\ uploaded' = uploaded
      /\ at' = at /\ host_packets' = host_packets
  BY DEF Tick, bridge, mailbox, history
<1>2. n \in Nat
  BY <1>0 DEF LinkTyped
<1> HIDE DEF n
<1>3. /\ session'.open = session.open /\ session'.hello = session.hello
      /\ session'.incoming = session.incoming /\ session'.outgoing = session.outgoing
  BY <1>0, <1>1 DEF LinkTyped
<1>4. LinkTyped'
  BY <1>0, <1>1, <1>2 DEF LinkTyped
<1>5. NoSession' /\ Ungreeted'
  BY <1>0, <1>1, <1>3 DEF NoSession, Ungreeted
<1> QED
  BY <1>0, <1>1, <1>3, <1>4, <1>5 DEF LinkInv

\* A session that begins or ends leaves nothing of another.
LEMMA NothingLeft ==
    ASSUME NEW hello
    PROVE  Streamed(<<>>, <<>>, hello, FALSE) /\ Retained(<<>>, <<>>, <<>>, <<>>)
BY StreamedEmpty, RetainedEmpty

LEMMA AcceptSteps ==
    ASSUME LinkInv, NEW client \in Roles, Accept(client)
    PROVE  LinkInv'
<1>0. LinkTyped /\ NoSession /\ Ungreeted
  BY DEF LinkInv
<1>1. /\ at = "serve" /\ at' = at /\ ~session.open /\ host_packets' = host_packets
      /\ session' = Fresh(client)
      /\ peer' = [peer EXCEPT !.up = TRUE, !.waiting = FALSE, !.stream = <<>>,
                              !.greeted = FALSE, !.head = FALSE]
      /\ down' = down /\ taken' = taken /\ kept' = kept /\ uploaded' = uploaded
  BY DEF Accept, bridge, mailbox, history
<1>2. /\ session'.open = TRUE /\ session'.hello = FALSE /\ session'.incoming = <<>>
      /\ session'.outgoing \in {<<>>, Hello}
  BY <1>1 DEF Fresh, Closed
<1>3. peer'.stream = <<>> /\ peer'.head = FALSE /\ peer'.greeted = FALSE
  BY <1>0, <1>1 DEF LinkTyped
<1>4. down = <<>> /\ taken = <<>> /\ uploaded = <<>> /\ session.hello = FALSE
  BY <1>0, <1>1 DEF NoSession, Closed
<1>5. host_packets = <<>> /\ kept = <<>>
  BY <1>0, <1>1, <1>4 DEF Ungreeted
<1>6. LinkTyped'
  <2>1. client \in BOOLEAN /\ <<>> \in Seq(Pieces)
    BY EthernetAssumption
  <2>2. session' \in [open : BOOLEAN, client : BOOLEAN, hello : BOOLEAN, incoming : Seq(Pieces),
                      outgoing : Outgoings, age : Nat]
    BY <1>1, <2>1 DEF Fresh, Closed, Outgoings
  <2>3. peer' \in [up : BOOLEAN, stream : Seq(Pieces), greeted : BOOLEAN, head : BOOLEAN,
                   waiting : BOOLEAN, sessions : Nat, frames : Nat]
    BY <1>0, <1>1, <2>1 DEF LinkTyped
  <2> QED
    BY <2>2, <2>3 DEF LinkTyped
<1>7. NoSession'
  BY <1>2 DEF NoSession
<1>8. Ungreeted'
  BY <1>1, <1>2, <1>3, <1>4, <1>5 DEF Ungreeted
<1>9. /\ Streamed(session'.incoming, peer'.stream, session'.hello, peer'.head)
      /\ Retained(down', taken', session'.incoming, peer'.stream)
  BY <1>1, <1>2, <1>3, <1>4, NothingLeft
<1> QED
  BY <1>2, <1>6, <1>7, <1>8, <1>9 DEF LinkInv

LEMMA ForgottenSteps ==
    ASSUME LinkInv, Forgotten, at' = "read"
    PROVE  LinkInv'
<1>0. LinkTyped
  BY DEF LinkInv
<1>1. /\ session' = Closed
      /\ peer' = [peer EXCEPT !.up = FALSE, !.stream = <<>>, !.head = FALSE]
      /\ down' = <<>> /\ taken' = <<>> /\ uploaded' = <<>>
  BY DEF Forgotten, Peerless
<1>2. /\ session'.open = FALSE /\ session'.hello = FALSE /\ session'.incoming = <<>>
      /\ session'.outgoing = <<>>
  BY <1>1 DEF Closed
<1>3. peer'.stream = <<>> /\ peer'.head = FALSE /\ peer'.up = FALSE
  BY <1>0, <1>1 DEF LinkTyped
<1>4. LinkTyped'
  <2>1. <<>> \in Seq(Pieces)
    OBVIOUS
  <2>2. session' \in [open : BOOLEAN, client : BOOLEAN, hello : BOOLEAN, incoming : Seq(Pieces),
                      outgoing : Outgoings, age : Nat]
    BY <1>1, <2>1 DEF Closed, Outgoings
  <2>3. peer' \in [up : BOOLEAN, stream : Seq(Pieces), greeted : BOOLEAN, head : BOOLEAN,
                   waiting : BOOLEAN, sessions : Nat, frames : Nat]
    BY <1>0, <1>1, <2>1 DEF LinkTyped
  <2> QED
    BY <2>2, <2>3 DEF LinkTyped
<1>5. NoSession'
  BY <1>1, <1>3 DEF NoSession
<1>6. Ungreeted'
  BY <1>1, <1>2 DEF Ungreeted
<1>7. /\ Streamed(session'.incoming, peer'.stream, session'.hello, peer'.head)
      /\ Retained(down', taken', session'.incoming, peer'.stream)
  BY <1>1, <1>2, <1>3, NothingLeft
<1> QED
  BY <1>2, <1>4, <1>5, <1>6, <1>7 DEF LinkInv

-----------------------------------------------------------------------------
(* Serving the session: read, act on what is complete, take a frame, write.         *)

\* The stream behind what was read.
Rest == IF Reads THEN Tail(peer.stream) ELSE peer.stream

LEMMA ServeReads ==
    ASSUME LinkInv, session.open, ~Ends
    PROVE  /\ Arrived \in Seq(Pieces) /\ Rest \in Seq(Pieces)
           /\ Retained(down, taken, Arrived, Rest)
           /\ session.hello => Streamed(Arrived, Rest, TRUE, peer.head)
           /\ Greeted => (~session.hello /\ Arrived = <<Greeting>>
                          /\ peer.stream # <<>> /\ Streamed(<<>>, Rest, TRUE, peer.head))
           /\ (~session.hello /\ ~Greeted) => (Arrived = <<>> /\ peer.stream = <<>> /\ Rest = <<>>)
<1> DEFINE r == session.incoming
           c == peer.stream
<1>0. /\ LinkTyped
      /\ Streamed(r, c, session.hello, peer.head)
      /\ Retained(down, taken, r, c)
  BY DEF LinkInv
<1>1. r \in Seq(Pieces) /\ c \in Seq(Pieces) /\ session.hello \in BOOLEAN
  BY <1>0 DEF LinkTyped
<1>2. ~session.hello => r = <<>>
  BY <1>0 DEF Streamed
<1>3. Arrived = (IF Reads THEN Append(r, Head(c)) ELSE r) /\ Rest = (IF Reads THEN Tail(c) ELSE c)
  BY DEF Arrived, Rest
<1>4. Reads <=> (Len(r) # 2 /\ c # <<>>)
  BY DEF Reads, Complete
<1>5. ~session.hello => (Arrived = <<>> \/ Arrived = <<Greeting>>)
  BY DEF Ends, WrongHello
<1>6. r # <<Bad>>
  BY DEF Ends, WrongHeader
<1>7. Greeted <=> (~session.hello /\ Arrived = <<Greeting>>)
  BY DEF Greeted
<1> HIDE DEF r, c
<1>8. CASE Reads
  <2>1. Arrived = Append(r, Head(c)) /\ Rest = Tail(c) /\ c # <<>> /\ Len(r) # 2
    BY <1>3, <1>4, <1>8
  <2>2. /\ Append(r, Head(c)) \in Seq(Pieces) /\ Tail(c) \in Seq(Pieces)
        /\ Append(r, Head(c)) # <<>>
    <3>1. Head(c) \in Pieces /\ Tail(c) \in Seq(Pieces)
      BY <1>1, <2>1, HeadTailProperties
    <3> QED
      BY <1>1, <3>1, AppendProperties
  <2>3. Retained(down, taken, Append(r, Head(c)), Tail(c))
    BY <1>0, <1>1, <2>1, RetainedArrives
  <2>4. ASSUME session.hello PROVE Streamed(Append(r, Head(c)), Tail(c), TRUE, peer.head)
    <3>1. Streamed(r, c, TRUE, peer.head)
      BY <1>0, <1>1, <2>4
    <3> QED
      BY <1>6, <2>1, <3>1, StreamedArrives
  <2>5. ASSUME Greeted PROVE Streamed(<<>>, Tail(c), TRUE, peer.head)
    <3>1. ~session.hello /\ r = <<>> /\ Append(r, Head(c)) = <<Greeting>>
      BY <1>2, <1>7, <2>1, <2>5
    <3>2. Append(<<>>, Head(c)) = <<Head(c)>>
      OBVIOUS
    <3>3. <<Head(c)>>[1] = Head(c) /\ <<Greeting>>[1] = Greeting
      OBVIOUS
    <3>4. Head(c) = Greeting
      BY <3>1, <3>2, <3>3
    <3> QED
      <4>1. Streamed(r, c, FALSE, peer.head)
        BY <1>0, <1>1, <3>1
      <4> QED
        BY <2>1, <3>4, <4>1, StreamedGreeted
  <2> QED
    BY <1>5, <1>7, <2>1, <2>2, <2>3, <2>4, <2>5 DEF c
<1>9. CASE ~Reads
  <2>1. Arrived = r /\ Rest = c /\ (c = <<>> \/ Len(r) = 2)
    BY <1>3, <1>4, <1>9
  <2>2. ASSUME ~session.hello PROVE r = <<>> /\ c = <<>> /\ ~Greeted
    <3>1. r = <<>> /\ Len(<<>>) = 0
      BY <1>2, <2>2
    <3>2. <<Greeting>> # <<>>
      OBVIOUS
    <3> QED
      BY <1>7, <2>1, <3>1, <3>2
  <2>3. ASSUME session.hello PROVE Streamed(r, c, TRUE, peer.head) /\ ~Greeted
    BY <1>0, <1>1, <1>7, <2>3
  <2> QED
    BY <1>0, <1>1, <2>1, <2>2, <2>3 DEF c
<1> QED
  BY <1>8, <1>9

\* What is complete is acted on: the greeting, or a frame that is admitted.
LEMMA ServeActs ==
    ASSUME LinkInv, session.open, ~Ends
    PROVE  /\ Streamed(IF Emptied THEN <<>> ELSE Arrived, Rest, session.hello \/ Greeted, peer.head)
           /\ Retained(down, IF Admits THEN Append(taken, Arrived[2].frame) ELSE taken,
                       IF Emptied THEN <<>> ELSE Arrived, Rest)
           /\ Admits => Arrived[2].frame \in Frame
           /\ Emptied => (Greeted \/ Admits)
<1> DEFINE r == Arrived
           c == Rest
<1>0. /\ r \in Seq(Pieces) /\ c \in Seq(Pieces)
      /\ Retained(down, taken, r, c)
      /\ session.hello => Streamed(r, c, TRUE, peer.head)
      /\ Greeted => (~session.hello /\ r = <<Greeting>> /\ Streamed(<<>>, c, TRUE, peer.head))
      /\ (~session.hello /\ ~Greeted) => (r = <<>> /\ c = <<>>)
  BY ServeReads
<1>1. session.hello \in BOOLEAN /\ Streamed(session.incoming, peer.stream, session.hello, peer.head)
  BY DEF LinkInv, LinkTyped
<1>2. (Admits => session.hello /\ Len(r) = 2) /\ (Emptied <=> Greeted \/ Admits)
  BY DEF Admits, Emptied
<1> HIDE DEF r, c
<1>3. CASE Greeted
  <2>1. ~Admits /\ Emptied /\ (session.hello \/ Greeted) = TRUE
    BY <1>0, <1>2, <1>3
  <2>2. Streamed(<<>>, c, TRUE, peer.head)
    BY <1>0, <1>3
  <2>3. Retained(down, taken \o BodiesIn(r), <<>>, c)
    BY <1>0, RetainedEmptied
  <2>4. taken \o BodiesIn(r) = taken
    <3>1. taken \in Seq(Frame)
      BY <1>0 DEF Retained
    <3> QED
      BY <1>0, <1>3, <3>1, BodiesGreeting, ConcatEmptySeq
  <2> QED
    BY <1>3, <2>1, <2>2, <2>3, <2>4 DEF c
<1>4. CASE Admits
  <2>1. ~Greeted /\ Emptied /\ (session.hello \/ Greeted) = TRUE
    BY <1>0, <1>1, <1>2, <1>4
  <2>2. Streamed(r, c, TRUE, peer.head) /\ Len(r) = 2
    BY <1>0, <1>2, <1>4
  <2>3. /\ Streamed(<<>>, c, TRUE, peer.head)
        /\ r[1].part # "body" /\ r[2].part = "body" /\ r[2].frame \in Frame
    BY <2>2, StreamedAdmits
  <2>4. Retained(down, taken \o BodiesIn(r), <<>>, c)
    BY <1>0, RetainedEmptied
  <2>5. BodiesIn(r) = <<r[2].frame>>
    BY <1>0, <2>2, <2>3, BodiesFrame
  <2>6. taken \o BodiesIn(r) = Append(taken, r[2].frame)
    <3>1. taken \in Seq(Frame)
      BY <1>0 DEF Retained
    <3> QED
      BY <2>3, <2>5, <3>1, AppendIsConcat
  <2> QED
    BY <1>4, <2>1, <2>3, <2>4, <2>6 DEF c, r
<1>5. CASE ~Greeted /\ ~Admits
  <2>1. ~Emptied
    BY <1>2, <1>5
  <2>2. CASE session.hello
    <3>1. (session.hello \/ Greeted) = TRUE /\ Streamed(r, c, TRUE, peer.head)
      BY <1>0, <2>2
    <3> QED
      BY <1>0, <1>5, <2>1, <3>1 DEF c, r
  <2>3. CASE ~session.hello
    <3>1. r = <<>> /\ c = <<>> /\ (session.hello \/ Greeted) = session.hello
      BY <1>0, <1>1, <1>5, <2>3
    <3>2. peer.head = FALSE
      <4>1. session.incoming = <<>> /\ Ending(session.incoming \o peer.stream, peer.head)
        BY <1>1, <2>3 DEF Streamed
      <4>2. peer.stream = <<>> /\ peer.head \in BOOLEAN
        BY <1>5, <2>3, ServeReads DEF LinkInv, LinkTyped
      <4>3. <<>> \o <<>> = <<>>
        OBVIOUS
      <4> QED
        BY <4>1, <4>2, <4>3 DEF Ending
    <3>3. Streamed(<<>>, <<>>, session.hello, FALSE)
      BY StreamedEmpty
    <3> QED
      BY <1>0, <1>5, <2>1, <3>1, <3>2, <3>3 DEF c, r
  <2> QED
    BY <1>1, <2>2, <2>3
<1> QED
  BY <1>3, <1>4, <1>5

\* The mailbox behind what was taken.
Waiting == IF Pops THEN Tail(host_packets) ELSE host_packets

\* The idle writer takes a frame of this session.
LEMMA ServeTakes ==
    ASSUME MailboxInv, LinkInv, session.open, at = "serve"
    PROVE  /\ Pops => (Outgoing = Head(host_packets) /\ Outgoing \in UplinkFrame
                       /\ Stored(Tail(host_packets), host_packet_bytes - PacketCost(Outgoing)))
           /\ Outgoing \in Outgoings
           /\ (session.hello \/ Greeted) => Uploading(kept, uploaded, Outgoing, Waiting)
           /\ ~session.hello => (Outgoing \in {<<>>, Hello} /\ ~Pops)
<1>0. /\ LinkTyped /\ Ungreeted
      /\ session.hello => Uploading(kept, uploaded, session.outgoing, host_packets)
  BY DEF LinkInv
<1>1. session.hello \in BOOLEAN /\ session.outgoing \in Outgoings
  BY <1>0 DEF LinkTyped
<1>2. Stored(host_packets, host_packet_bytes)
  BY DEF MailboxInv
<1>3. ASSUME ~session.hello
      PROVE  Outgoing \in {<<>>, Hello} /\ ~Pops /\ Uploading(kept, uploaded, Outgoing, Waiting)
  <2>1. /\ host_packets = <<>> /\ kept = <<>> /\ uploaded = <<>> /\ session.outgoing \in {<<>>, Hello}
    BY <1>0, <1>3 DEF Ungreeted
  <2>2. ~Pops /\ Waiting = <<>>
    BY <2>1 DEF Pops, Waiting
  <2>3. Outgoing \in {<<>>, Hello}
    BY <2>1, <2>2 DEF Outgoing, Replying
  <2> QED
    BY <2>1, <2>2, <2>3, UploadingEmpty
<1>4. ASSUME session.hello, Pops
      PROVE  /\ Outgoing = Head(host_packets) /\ Outgoing \in UplinkFrame
             /\ Stored(Tail(host_packets), host_packet_bytes - PacketCost(Outgoing))
             /\ Uploading(kept, uploaded, Outgoing, Waiting)
  <2>1. Replying = session.outgoing /\ Replying = <<>> /\ host_packets # <<>>
    BY <1>4 DEF Pops, Replying, Greeted
  <2>2. Outgoing = Head(host_packets) /\ Waiting = Tail(host_packets)
    BY <1>4 DEF Outgoing, Waiting
  <2>3. /\ Stored(Tail(host_packets), host_packet_bytes - PacketCost(Head(host_packets)))
        /\ Head(host_packets) \in UplinkFrame
        /\ host_packets = <<Head(host_packets)>> \o Tail(host_packets)
    BY <1>2, <2>1, StoredPop
  <2>4. Tail(host_packets) \in Seq(UplinkFrame)
    BY <2>3 DEF Stored
  <2>5. Uploading(kept, uploaded, <<>>, <<Head(host_packets)>> \o Tail(host_packets))
    BY <1>0, <1>4, <2>1, <2>3
  <2>6. Uploading(kept, uploaded, Head(host_packets), Tail(host_packets))
    BY <2>3, <2>4, <2>5, UploadingPop
  <2> QED
    BY <2>2, <2>3, <2>6
<1>5. ASSUME session.hello, ~Pops
      PROVE  Outgoing \in Outgoings /\ Uploading(kept, uploaded, Outgoing, Waiting)
  <2>1. Outgoing = session.outgoing /\ Waiting = host_packets
    BY <1>5 DEF Outgoing, Replying, Greeted, Waiting
  <2> QED
    BY <1>0, <1>1, <1>5, <2>1
<1> QED
  BY <1>1, <1>3, <1>4, <1>5 DEF Outgoings

LEMMA ExchangedSteps ==
    ASSUME MailboxInv, LinkInv, NEW whole \in BOOLEAN, session.open, ~Ends, at = "serve",
           at' = "read", host_packets' = Waiting, Exchanged(whole)
    PROVE  LinkInv'
<1> DEFINE r == IF Emptied THEN <<>> ELSE Arrived
           k == IF Admits THEN Append(taken, Arrived[2].frame) ELSE taken
           o == IF whole THEN <<>> ELSE Outgoing
           u == IF whole /\ Outgoing # Hello THEN Append(uploaded, Outgoing) ELSE uploaded
           hello == session.hello \/ Greeted
<1>0. LinkTyped /\ NoSession /\ Ungreeted
  BY DEF LinkInv
<1>1. /\ Streamed(r, Rest, hello, peer.head) /\ Retained(down, k, r, Rest)
      /\ Rest \in Seq(Pieces) /\ r \in Seq(Pieces)
  <2>1. Arrived \in Seq(Pieces) /\ <<>> \in Seq(Pieces)
    BY ServeReads
  <2> QED
    BY <2>1, ServeActs, ServeReads
<1>2. /\ Outgoing \in Outgoings
      /\ hello => Uploading(kept, uploaded, Outgoing, Waiting)
      /\ ~session.hello => (Outgoing \in {<<>>, Hello} /\ ~Pops)
  BY ServeTakes
<1>3. whole => Outgoing # <<>>
  BY DEF Exchanged
<1>4. /\ session' = [session EXCEPT !.hello = hello, !.incoming = r, !.outgoing = o, !.age = Age]
      /\ peer' = [peer EXCEPT !.stream = Rest]
      /\ taken' = k /\ uploaded' = u /\ down' = down /\ kept' = kept
  <2>1. session' = [session EXCEPT !.hello = hello, !.incoming = r, !.outgoing = o, !.age = Age]
    BY <1>0 DEF Exchanged, LinkTyped
  <2>2. peer' = [peer EXCEPT !.stream = Rest]
    BY <1>0 DEF Exchanged, LinkTyped, Rest
  <2> QED
    BY <2>1, <2>2 DEF Exchanged
<1>5. (~session.hello /\ ~Greeted) => (Arrived = <<>> /\ peer.stream = <<>> /\ Rest = <<>>)
  BY ServeReads
<1>6. Greeted => peer.stream # <<>>
  BY ServeReads
<1>7. Age \in Nat /\ o \in Outgoings /\ hello \in BOOLEAN
  <2>1. Age \in Nat
    BY <1>0 DEF Age, LinkTyped
  <2>2. o \in Outgoings
    BY <1>2 DEF Outgoings
  <2>3. hello \in BOOLEAN
    OBVIOUS
  <2> QED
    BY <2>1, <2>2, <2>3
<1>8. hello => Uploading(kept, u, o, Waiting)
  <2>1. ASSUME hello, whole PROVE Uploading(kept, u, o, Waiting)
    <3>1. Uploading(kept, uploaded, Outgoing, Waiting) /\ Outgoing # <<>>
      BY <1>2, <1>3, <2>1
    <3>2. u = (IF Outgoing # Hello THEN Append(uploaded, Outgoing) ELSE uploaded) /\ o = <<>>
      BY <2>1
    <3> QED
      BY <3>1, <3>2, UploadingWritten
  <2>2. ASSUME hello, ~whole PROVE Uploading(kept, u, o, Waiting)
    BY <1>2, <2>2
  <2> QED
    BY <2>1, <2>2
<1>9. ~hello => (o \in {<<>>, Hello} /\ u = uploaded /\ ~peer.greeted)
  <2>1. ASSUME ~hello PROVE Outgoing \in {<<>>, Hello} /\ ~peer.greeted
    BY <1>0, <1>2, <1>5, <2>1 DEF Ungreeted
  <2>2. ASSUME ~hello PROVE u = uploaded
    BY <1>3, <2>1, <2>2
  <2> QED
    BY <2>1, <2>2
<1>10. ~peer.greeted => (~hello /\ Rest = <<>> /\ ~peer.head)
  <2>1. ASSUME ~peer.greeted PROVE ~session.hello /\ peer.stream = <<>> /\ ~peer.head
    BY <1>0, <2>1 DEF Ungreeted
  <2>2. ASSUME ~peer.greeted PROVE ~Greeted
    BY <1>6, <2>1, <2>2
  <2> QED
    BY <1>5, <2>1, <2>2
<1> HIDE DEF r, k, o, u, hello
<1>11. /\ session'.open = TRUE /\ session'.hello = hello /\ session'.incoming = r
       /\ session'.outgoing = o
       /\ peer'.stream = Rest /\ peer'.head = peer.head /\ peer'.greeted = peer.greeted
  BY <1>0, <1>4 DEF LinkTyped
<1>12. LinkTyped'
  <2>1. session' \in [open : BOOLEAN, client : BOOLEAN, hello : BOOLEAN, incoming : Seq(Pieces),
                      outgoing : Outgoings, age : Nat]
    BY <1>0, <1>1, <1>4, <1>7 DEF LinkTyped
  <2>2. peer' \in [up : BOOLEAN, stream : Seq(Pieces), greeted : BOOLEAN, head : BOOLEAN,
                   waiting : BOOLEAN, sessions : Nat, frames : Nat]
    BY <1>0, <1>1, <1>4 DEF LinkTyped
  <2> QED
    BY <2>1, <2>2 DEF LinkTyped
<1>13. NoSession'
  BY <1>11 DEF NoSession
<1>14. Ungreeted'
  <2>1. (session'.open /\ ~peer'.greeted) => (~session'.hello /\ peer'.stream = <<>> /\ ~peer'.head)
    BY <1>10, <1>11
  <2>2. (session'.open /\ ~session'.hello /\ peer'.greeted) => peer'.stream # <<>>
    BY <1>9, <1>11
  <2>3. ~session'.hello => (session'.outgoing \in {<<>>, Hello} /\ uploaded' = <<>>)
    <3>1. hello \/ uploaded = <<>>
      BY <1>0 DEF Ungreeted, hello
    <3> QED
      BY <1>4, <1>9, <1>11, <3>1
  <2> QED
    BY <2>1, <2>2, <2>3 DEF Ungreeted
<1>15. /\ Streamed(session'.incoming, peer'.stream, session'.hello, peer'.head)
       /\ Retained(down', taken', session'.incoming, peer'.stream)
  BY <1>1, <1>4, <1>11
<1>16. session'.hello => Uploading(kept', uploaded', session'.outgoing, host_packets')
  BY <1>4, <1>8, <1>11
<1> QED
  BY <1>12, <1>13, <1>14, <1>15, <1>16 DEF LinkInv

LEMMA ServeSteps ==
    ASSUME UartInv, MailboxInv, LinkInv, NEW whole \in BOOLEAN, Serve(whole)
    PROVE  UartInv' /\ MailboxInv' /\ LinkInv'
<1>0. session.open /\ ~Ends /\ at = "serve" /\ at' = "read"
  BY DEF Serve
<1>1. UartInv'
  <2>1. txWriter' = txWriter
    BY DEF Serve
  <2>2. CASE Admits
    <3> DEFINE frame == Arrived[2].frame
    <3>1. EnqueueUart(frame) /\ UartHasRoom(frame)
      BY <2>2 DEF Serve, Admits
    <3>2. frame \in Frame
      BY <1>0, <2>2, ServeActs
    <3> HIDE DEF frame
    <3>3. Sent(uart_tx_packets, uart_tx_bytes, uart_tx_active, uart_tx_offset, wire, admitted)
      BY DEF UartInv
    <3>4. Sent(Append(uart_tx_packets, frame), uart_tx_bytes + PacketCost(frame), uart_tx_active,
               uart_tx_offset, wire, Append(admitted, frame))
      BY <3>1, <3>2, <3>3, SentEnqueue DEF UartHasRoom
    <3> QED
      BY <2>1, <3>1, <3>4 DEF EnqueueUart, txWriter, UartInv
  <2>3. CASE ~Admits
    BY <2>1, <2>3 DEF Serve, tx, txWriter, UartInv
  <2> QED
    BY <2>2, <2>3
<1>2. host_packets' = Waiting /\ MailboxInv'
  <2>1. CASE Pops
    <3>1. /\ host_packets' = Tail(host_packets)
          /\ host_packet_bytes' = host_packet_bytes - PacketCost(Outgoing)
      BY <2>1 DEF Serve
    <3>2. Stored(Tail(host_packets), host_packet_bytes - PacketCost(Outgoing))
      BY <1>0, <2>1, ServeTakes
    <3> QED
      BY <2>1, <3>1, <3>2 DEF Waiting, MailboxInv
  <2>2. CASE ~Pops
    <3>1. host_packets' = host_packets /\ host_packet_bytes' = host_packet_bytes
      BY <2>2 DEF Serve, mailbox
    <3> QED
      BY <2>2, <3>1 DEF Waiting, MailboxInv
  <2> QED
    BY <2>1, <2>2
<1>3. CASE Forgotten
  BY <1>0, <1>1, <1>2, <1>3, ForgottenSteps
<1>4. CASE Exchanged(whole)
  BY <1>0, <1>1, <1>2, <1>4, ExchangedSteps
<1>5. Forgotten \/ Exchanged(whole)
  BY DEF Serve
<1> QED
  BY <1>1, <1>2, <1>3, <1>4, <1>5

LEMMA InvStep == Inv /\ [Next]_vars => Inv'
<1> SUFFICES ASSUME Inv, [Next]_vars PROVE Inv'
  OBVIOUS
<1>0. UplinkInv /\ UartInv /\ MailboxInv /\ LinkInv
  BY DEF Inv
<1>1. UplinkInv'
  BY <1>0, UplinkStep
<1> SUFFICES UartInv' /\ MailboxInv' /\ LinkInv'
  BY <1>1 DEF Inv
<1>2. ASSUME UNCHANGED <<tx, txWriter>> PROVE UartInv'
  BY <1>0, <1>2 DEF tx, txWriter, UartInv
<1>3. ASSUME UNCHANGED mailbox PROVE MailboxInv' /\ host_packets' = host_packets
  BY <1>0, <1>3 DEF mailbox, MailboxInv
<1>4. CASE Read
  <2>1. UNCHANGED <<tx, txWriter>>
    BY <1>4 DEF Read, ReadGateway
  <2> QED
    BY <1>0, <1>2, <1>4, <2>1, ReadSteps
<1>5. ASSUME NEW count, Drain(count) PROVE UartInv' /\ MailboxInv' /\ LinkInv'
  <2>1. DrainGateway(count) /\ UNCHANGED <<link, history>>
    BY <1>5 DEF Drain
  <2>2. UNCHANGED mailbox /\ at = "drain"
    BY <2>1 DEF DrainGateway
  <2>3. UartInv'
    BY <1>0, <2>1, UartDrains
  <2>4. LinkInv'
    BY <1>0, <1>3, <2>1, <2>2, LinkStays DEF link
  <2> QED
    BY <1>3, <2>2, <2>3, <2>4
<1>6. CASE Idle
  <2>1. UNCHANGED <<tx, txWriter, mailbox, link, history>> /\ at' = "read"
    BY <1>6 DEF Idle
  <2>2. LinkInv'
    BY <1>0, <1>3, <2>1, LinkStays DEF link
  <2> QED
    BY <1>2, <1>3, <2>1, <2>2
<1>7. ASSUME NEW client \in Roles, Accept(client) PROVE UartInv' /\ MailboxInv' /\ LinkInv'
  <2>1. UNCHANGED <<tx, txWriter, mailbox>>
    BY <1>7 DEF Accept, bridge
  <2> QED
    BY <1>0, <1>2, <1>3, <1>7, <2>1, AcceptSteps
<1>8. CASE Refuse
  <2>1. UNCHANGED <<tx, txWriter, mailbox>> /\ Forgotten /\ at' = "read"
    BY <1>8 DEF Refuse
  <2> QED
    BY <1>0, <1>2, <1>3, <2>1, ForgottenSteps
<1>9. ASSUME NEW whole \in BOOLEAN, Serve(whole) PROVE UartInv' /\ MailboxInv' /\ LinkInv'
  BY <1>0, <1>9, ServeSteps
<1>10. CASE Tick
  <2>1. UNCHANGED <<tx, txWriter, mailbox>>
    BY <1>10 DEF Tick, bridge
  <2> QED
    BY <1>0, <1>2, <1>3, <1>10, <2>1, TickSteps
<1>11. CASE Gateway /\ UNCHANGED <<link, history>>
  <2>1. UNCHANGED <<tx, txWriter, mailbox, at>>
    BY <1>11 DEF Gateway, GatewayBegins, GatewayWrites
  <2>2. LinkInv'
    BY <1>0, <1>3, <1>11, <2>1, LinkStays DEF link
  <2> QED
    BY <1>2, <1>3, <2>1, <2>2
<1>12. CASE PeerStep
  <2>1. UNCHANGED bridge
    BY <1>12 DEF PeerStep, PeerComes, PeerGreets, PeerGarbles, PeerSendsHead, PeerSendsBody, PeerCloses
  <2>2. UNCHANGED <<tx, txWriter, mailbox>>
    BY <2>1 DEF bridge
  <2> QED
    BY <1>0, <1>2, <1>3, <1>12, <2>2, PeerSteps
<1>13. CASE UNCHANGED vars
  <2>1. UNCHANGED <<tx, txWriter, mailbox, at, link, history>>
    BY <1>13 DEF vars, bridge
  <2>2. LinkInv'
    BY <1>0, <1>3, <2>1, LinkStays DEF link
  <2> QED
    BY <1>2, <1>3, <2>1, <2>2
<1> QED
  BY <1>4, <1>5, <1>6, <1>7, <1>8, <1>9, <1>10, <1>11, <1>12, <1>13 DEF Next, Bridge

-----------------------------------------------------------------------------
(* What holds in every state. *)

THEOREM InvHolds == Spec => []Inv
<1>1. Init => Inv
  BY InvInit
<1>2. Inv /\ [Next]_vars => Inv'
  BY InvStep
<1> QED
  BY <1>1, <1>2, PTL DEF Spec

\* For any units the gateway writes and wherever its writes and the bridge's reads
\* cut them, process_gateway_uart_rx recognises every DATA frame, in order.
THEOREM FramesSurviveCutsHolds == Spec => []FramesSurviveCuts
<1>1. Inv => FramesSurviveCuts
  <2> SUFFICES ASSUME Inv PROVE FramesSurviveCuts
    OBVIOUS
  <2>1. Framed(uart_rx, pty, left, uplink, parsed)
    BY DEF Inv, UplinkInv
  <2>2. IsPrefix(parsed, uplink) /\ ((left = <<>> /\ pty = <<>>) => parsed = uplink)
    BY <2>1, FramedSeen
  <2> QED
    BY <2>2 DEF FramesSurviveCuts
<1> QED
  BY <1>1, InvHolds, PTL

\* step_gateway_uart_tx: the gateway receives the admitted frames whole and in order.
THEOREM WireWholeHolds == Spec => []WireWhole
<1>1. Inv => WireWhole
  BY DEF Inv, UartInv, Sent, WireWhole, Unwritten
<1> QED
  BY <1>1, InvHolds, PTL

\* The byte counts of both mailboxes are what their frames cost, within the limits.
THEOREM AccountedHolds == Spec => []Accounted
<1>1. Inv => Accounted
  BY DEF Inv, UartInv, Sent, MailboxInv, Stored, Accounted
<1> QED
  BY <1>1, InvHolds, PTL

\* service: no frame the peer completed is dropped, whatever room the UART has.
THEOREM BackpressureHolds == Spec => []Backpressure
<1>1. Inv => Backpressure
  <2> SUFFICES ASSUME Inv PROVE Backpressure
    OBVIOUS
  <2>1. Retained(down, taken, session.incoming, peer.stream)
    BY DEF Inv, LinkInv
  <2>2. down = (taken \o BodiesIn(session.incoming)) \o BodiesIn(peer.stream)
    BY <2>1 DEF Retained
  <2> QED
    BY <2>2 DEF Backpressure
<1> QED
  BY <1>1, InvHolds, PTL

\* service and read_gateway_uart: what was accepted for a peer is uploaded to it in
\* order, and to no other.
THEOREM UploadsKeptHolds == Spec => []UploadsKept
<1>1. Inv => UploadsKept
  <2> SUFFICES ASSUME Inv PROVE UploadsKept
    OBVIOUS
  <2>1. /\ session.hello => Uploading(kept, uploaded, session.outgoing, host_packets)
        /\ Ungreeted
    BY DEF Inv, LinkInv
  <2>2. ASSUME session.hello
        PROVE  kept = (uploaded \o Writing(session.outgoing)) \o host_packets
    BY <2>1, <2>2 DEF Uploading
  <2>3. (~session.hello /\ at # "read") => host_packets = <<>>
    BY <2>1 DEF Ungreeted
  <2> QED
    BY <2>2, <2>3 DEF UploadsKept, Writing
<1> QED
  BY <1>1, InvHolds, PTL

-----------------------------------------------------------------------------
(* How a session ends. *)

LEMMA WhereBad ==
    ASSUME NEW r \in Seq(Pieces), NEW c \in Seq(Pieces), r = <<Bad>> \/ (c # <<>> /\ Head(c) = Bad)
    PROVE  Bad \in ToSet(r \o c)
<1> DEFINE s == r \o c
<1>1. /\ s \in Seq(Pieces) /\ Len(s) = Len(r) + Len(c) /\ Len(r) \in Nat /\ Len(c) \in Nat
      /\ \A i \in 1 .. Len(r) + Len(c) : s[i] = IF i <= Len(r) THEN r[i] ELSE c[i - Len(r)]
  BY ConcatProperties, LenProperties
<1>2. DOMAIN s = 1 .. Len(s)
  BY <1>1, LenProperties
<1> HIDE DEF s
<1>3. \E i \in 1 .. Len(s) : s[i] = Bad
  <2>1. CASE r = <<Bad>>
    <3>1. Len(r) = 1 /\ r[1] = Bad
      BY <2>1
    <3>2. 1 \in 1 .. Len(s) /\ s[1] = r[1]
      BY <1>1, <3>1
    <3> QED
      BY <3>1, <3>2
  <2>2. CASE c # <<>> /\ Head(c) = Bad
    <3>1. c[1] = Bad /\ Len(c) >= 1
      <4>1. Len(c) # 0
        BY <2>2, EmptySeq
      <4> QED
        BY <1>1, <2>2, <4>1
    <3> DEFINE i == Len(r) + 1
    <3>2. i \in 1 .. Len(s) /\ ~(i <= Len(r)) /\ i - Len(r) = 1 /\ i \in 1 .. Len(r) + Len(c)
      BY <1>1, <3>1
    <3>3. s[i] = c[1]
      BY <1>1, <3>2
    <3> QED
      BY <3>1, <3>2, <3>3
  <2> QED
    BY <2>1, <2>2
<1> QED
  BY <1>2, <1>3 DEF ToSet, s

\* What service refuses before anything is exchanged is of the peer's making.
LEMMA RefusePeers ==
    ASSUME LinkInv, Refuse
    PROVE  PeersDoing
<1> DEFINE r == session.incoming
           c == peer.stream
<1>0. LinkTyped /\ Streamed(r, c, session.hello, peer.head)
  BY DEF LinkInv
<1>1. r \in Seq(Pieces) /\ c \in Seq(Pieces)
  BY <1>0 DEF LinkTyped
<1>2. CASE HandshakeLate \/ EndOfStream
  BY <1>2 DEF HandshakeLate, EndOfStream, PeersDoing, SlowPeer
<1>3. CASE WrongHeader
  BY <1>1, <1>3, WhereBad DEF WrongHeader, PeersDoing
<1>4. CASE WrongHello
  <2>1. r = <<>> /\ (c # <<>> => c[1].part \in {"hello", "bad"})
    BY <1>0, <1>4 DEF WrongHello, Streamed
  <2>2. Arrived = (IF Reads THEN Append(r, Head(c)) ELSE r) /\ Arrived # <<>> /\ Arrived # <<Greeting>>
    BY <1>4 DEF WrongHello, Arrived
  <2>3. Reads /\ c # <<>>
    BY <2>1, <2>2 DEF Reads
  <2> HIDE DEF r, c
  <2>4. Append(<<>>, Head(c)) = <<Head(c)>>
    OBVIOUS
  <2>5. Head(c) = c[1] /\ Head(c) \in Pieces
    BY <1>1, <2>3, HeadTailProperties
  <2>6. Head(c) # Greeting
    BY <2>1, <2>2, <2>3, <2>4
  <2>7. Head(c) = Bad
    BY <2>1, <2>3, <2>5, <2>6, PieceIs
  <2>8. Bad \in ToSet(r \o c)
    BY <1>1, <2>3, <2>7, WhereBad
  <2> QED
    BY <2>8 DEF PeersDoing, r, c
<1> QED
  BY <1>2, <1>3, <1>4 DEF Refuse, Ends

\* What was recognised is fit to be written unless it has no payload, and what is
\* begun in this pass is not late.
LEMMA ForgottenCause ==
    ASSUME MailboxInv, LinkInv, NEW whole, Serve(whole), ~session'.open
    PROVE  PeersDoing \/ EmptyUpload
<1>0. session.open /\ at = "serve" /\ LinkTyped
  BY DEF Serve, LinkInv
<1>1. ~Exchanged(whole)
  <2> SUFFICES ASSUME Exchanged(whole) PROVE session'.open = session.open
    BY <1>0
  <2> QED
    BY <1>0 DEF Exchanged, LinkTyped
<1>2. UnfitUpload \/ WriterStalled \/ ~peer.up
  BY <1>1 DEF Serve
<1>3. CASE UnfitUpload
  <2>1. Pops /\ host_packets # <<>> /\ Outgoing = Head(host_packets)
    BY <1>3 DEF UnfitUpload, Pops, Outgoing
  <2>2. Outgoing \in UplinkFrame
    BY <1>0, <2>1, ServeTakes
  <2> DEFINE n == Len(Outgoing)
  <2>3. n \in 4 .. UartMaxFrame /\ n \notin 5 .. UartMaxFrame /\ UartMaxFrame \in Nat
    BY <1>3, <2>2, PicoAssumption DEF UplinkFrame, UnfitUpload
  <2> HIDE DEF n
  <2>4. n = 4
    BY <2>3
  <2> QED
    BY <2>1, <2>4 DEF EmptyUpload, n
<1>4. CASE WriterStalled
  <2>1. 0 < Timeout /\ Timeout \in Nat
    BY EthernetAssumption
  <2>2. ~Greeted /\ ~Pops /\ session.age >= Timeout
    BY <1>4, <2>1 DEF WriterStalled, Age
  <2>3. Outgoing = session.outgoing /\ Outgoing # <<>>
    BY <1>4, <2>2 DEF WriterStalled, Outgoing, Replying
  <2> QED
    BY <2>2, <2>3 DEF PeersDoing, SlowPeer
<1>5. CASE ~peer.up
  BY <1>5 DEF PeersDoing
<1> QED
  BY <1>2, <1>3, <1>4, <1>5

\* Session::service: for all limits, timeouts and units, a session ends by its peer's
\* doing or because a frame without payload is taken out for it, and for no other reason.
THEOREM EndsForCauseHolds == Spec => EndsForCause
<1> DEFINE Caused == SessionEnds => PeersDoing \/ EmptyUpload
<1>1. Inv /\ [Next]_vars => [Caused]_vars
  <2> SUFFICES ASSUME Inv, Next, session.open, ~session'.open PROVE PeersDoing \/ EmptyUpload
    BY DEF SessionEnds
  <2>0. MailboxInv /\ LinkInv /\ LinkTyped
    BY DEF Inv, LinkInv
  <2>1. CASE Refuse
    BY <2>0, <2>1, RefusePeers
  <2>2. ASSUME NEW whole \in BOOLEAN, Serve(whole) PROVE PeersDoing \/ EmptyUpload
    BY <2>0, <2>2, ForgottenCause
  <2>3. ~PeerStep
    BY DEF PeerStep, PeerComes, PeerGreets, PeerGarbles, PeerSendsHead, PeerSendsBody, PeerCloses
  <2>4. ~Read
    BY DEF Read, link
  <2>5. ~Idle
    BY DEF Idle, link
  <2>6. ~(Gateway /\ UNCHANGED <<link, history>>)
    BY DEF link
  <2>7. ~(\E count \in 0 .. UartMaxFrame : Drain(count))
    BY DEF Drain, link
  <2>8. ~(\E client \in Roles : Accept(client))
    BY DEF Accept
  <2>9. ~Tick
    BY <2>0 DEF Tick, LinkTyped
  <2> QED
    BY <2>1, <2>2, <2>3, <2>4, <2>5, <2>6, <2>7, <2>8, <2>9 DEF Next, Bridge
<1> QED
  BY <1>1, InvHolds, PTL DEF Spec, EndsForCause
=============================================================================
