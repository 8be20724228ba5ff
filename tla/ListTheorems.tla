---------------------------- MODULE ListTheorems ----------------------------
(* Lists, what stands at the positions of their concatenations, and what        *)
(* FlattenSeq makes of a list of lists; for the proofs about scripts and the    *)
(* lines they print.                                                          *)
EXTENDS Lists, SequencesExt, SequenceTheorems, FiniteSetTheorems, WellFoundedInduction, TLAPS

\* A nonempty set of naturals has a least element.
LEMMA Smallest ==
    ASSUME NEW T, T \subseteq Nat, T # {}
    PROVE  \E x \in T : \A y \in T : x <= y
<1> DEFINE R == OpToRel(<, Nat)
<1>1. PICK x \in T : \A y \in T : ~(<<y, x>> \in R)
  <2> HIDE DEF R
  <2>1. IsWellFoundedOn(R, Nat)
    BY NatLessThanWellFounded DEF R
  <2> QED
    BY <2>1, WFMin, Zenon
<1>2. ASSUME NEW y \in T PROVE x <= y
  <2>1. ~(<<y, x>> \in R)
    BY <1>1
  <2>2. ~(y < x)
    BY <2>1 DEF OpToRel
  <2> QED
    BY <2>2
<1> QED
  BY <1>2

\* What is true of m and passes from each to the next is true from m to n.
LEMMA EveryFrom ==
    ASSUME NEW m \in Nat, NEW n \in Nat, NEW T, m \in T,
           \A i \in m .. n : i \in T /\ i + 1 \in m .. n => i + 1 \in T
    PROVE  m .. n \subseteq T
<1> DEFINE U == (m .. n) \ T
<1> SUFFICES ASSUME U # {} PROVE FALSE
  OBVIOUS
<1>1. PICK x \in U : \A y \in U : x <= y
  <2>1. U \subseteq Nat
    OBVIOUS
  <2> HIDE DEF U
  <2> QED
    BY <2>1, Smallest
<1>2. x \in m + 1 .. n
  BY <1>1
<1>3. x - 1 \in m .. n /\ (x - 1) + 1 = x /\ ~(x <= x - 1)
  BY <1>2
<1>4. x - 1 \in T
  BY <1>1, <1>3
<1> QED
  BY <1>1, <1>3, <1>4

\* f repeats the steps g[0], g[1], .. from a, n of them.
Repeats(f, S, a, g, n) ==
    f \in [0 .. n -> S] /\ f[0] = a /\ \A i \in 0 .. n - 1 : f[i + 1] = g[i][f[i]]

\* There is such an f.
LEMMA Repeated ==
    ASSUME NEW S, NEW a \in S, NEW g \in [Nat -> [S -> S]], NEW n \in Nat
    PROVE  \E f : Repeats(f, S, a, g, n)
<1> DEFINE T == {i \in Nat : \E f : Repeats(f, S, a, g, i)}
<1>1. 0 \in T
  <2> DEFINE f == [i \in 0 .. 0 |-> a]
  <2>1. f \in [0 .. 0 -> S] /\ f[0] = a /\ \A i \in 0 .. 0 - 1 : FALSE
    OBVIOUS
  <2> HIDE DEF f
  <2> QED
    BY <2>1 DEF Repeats
<1>2. ASSUME NEW i \in 0 .. n, i \in T PROVE i + 1 \in T
  <2>1. PICK f : Repeats(f, S, a, g, i)
    BY <1>2
  <2>2. f \in [0 .. i -> S] /\ f[0] = a /\ \A j \in 0 .. i - 1 : f[j + 1] = g[j][f[j]]
    BY <2>1 DEF Repeats
  <2> DEFINE h == [j \in 0 .. i + 1 |-> IF j <= i THEN f[j] ELSE g[i][f[i]]]
  <2>3. g[i][f[i]] \in S
    <3>1. g[i] \in [S -> S] /\ f[i] \in S
      BY <2>2
    <3> QED
      BY <3>1
  <2>4. h \in [0 .. i + 1 -> S]
    BY <2>2, <2>3
  <2>5. h[0] = a /\ h[i + 1] = g[i][f[i]] /\ \A j \in 0 .. i : h[j] = f[j]
    BY <2>2
  <2> HIDE DEF h
  <2>6. ASSUME NEW j \in 0 .. (i + 1) - 1 PROVE h[j + 1] = g[j][h[j]]
    <3>1. CASE j = i
      BY <3>1, <2>5
    <3>2. CASE j # i
      <4>1. j \in 0 .. i - 1 /\ j \in 0 .. i /\ j + 1 \in 0 .. i
        BY <3>2
      <4> QED
        BY <4>1, <2>2, <2>5
    <3> QED
      BY <3>1, <3>2
  <2>7. Repeats(h, S, a, g, i + 1)
    BY <2>4, <2>5, <2>6 DEF Repeats
  <2> QED
    BY <2>7
<1> HIDE DEF T
<1>3. 0 .. n \subseteq T
  BY <1>1, <1>2, EveryFrom
<1>4. n \in T
  BY <1>3
<1> QED
  BY <1>4 DEF T

-----------------------------------------------------------------------------
(* Lists. *)

\* A list is the function of its positions.
LEMMA ListFacts ==
    ASSUME NEW s, List(s)
    PROVE  /\ Len(s) \in Nat /\ DOMAIN s = 1 .. Len(s)
           /\ s = [i \in 1 .. Len(s) |-> s[i]]
           /\ \A i \in 1 .. Len(s) : s[i] \in Elements(s)
<1>1. s \in Seq(Elements(s))
  BY DEF List
<1>2. Len(s) \in Nat /\ DOMAIN s = 1 .. Len(s) /\ s \in [1 .. Len(s) -> Elements(s)]
  BY <1>1, LenProperties
<1> QED
  BY <1>2

\* The elements are what stands at the positions.
LEMMA ElementsAre ==
    ASSUME NEW s, List(s)
    PROVE  Elements(s) = {s[i] : i \in 1 .. Len(s)}
BY ListFacts DEF Elements

\* A sequence over some set is a list.
LEMMA SeqIsList ==
    ASSUME NEW S, NEW s \in Seq(S)
    PROVE  List(s)
<1>1. Len(s) \in Nat /\ DOMAIN s = 1 .. Len(s) /\ s \in [1 .. Len(s) -> S]
  BY LenProperties
<1>2. s \in [1 .. Len(s) -> Elements(s)]
  BY <1>1 DEF Elements
<1>3. s \in Seq(Elements(s))
  BY <1>1, <1>2, SeqDef
<1> QED
  BY <1>3 DEF List

\* A function on 1 .. n is a list of length n.
LEMMA FunIsList ==
    ASSUME NEW n \in Nat, NEW s, DOMAIN s = 1 .. n, s = [i \in 1 .. n |-> s[i]]
    PROVE  List(s) /\ Len(s) = n
<1>1. s \in [1 .. n -> Elements(s)]
  BY DEF Elements
<1>2. s \in Seq(Elements(s))
  BY <1>1, SeqDef
<1>3. DOMAIN s = 1 .. Len(s) /\ Len(s) \in Nat
  BY <1>2, LenProperties
<1> QED
  BY <1>2, <1>3 DEF List

\* The positions of a concatenation.
LEMMA ListConcat ==
    ASSUME NEW s, NEW t, List(s), List(t)
    PROVE  /\ List(s \o t) /\ Len(s \o t) = Len(s) + Len(t)
           /\ \A i \in 1 .. Len(s) : (s \o t)[i] = s[i]
           /\ \A i \in 1 .. Len(t) : (s \o t)[Len(s) + i] = t[i]
<1> DEFINE S == Elements(s) \cup Elements(t)
<1>1. s \in Seq(S) /\ t \in Seq(S)
  <2>1. s \in Seq(Elements(s)) /\ t \in Seq(Elements(t))
    BY DEF List
  <2>2. Elements(s) \subseteq S /\ Elements(t) \subseteq S
    OBVIOUS
  <2> HIDE DEF S
  <2> QED
    BY <2>1, <2>2, SeqMonotonic
<1> HIDE DEF S
<1>2. /\ s \o t \in Seq(S) /\ Len(s \o t) = Len(s) + Len(t)
      /\ \A i \in 1 .. Len(s) + Len(t) :
            (s \o t)[i] = IF i <= Len(s) THEN s[i] ELSE t[i - Len(s)]
  BY <1>1, ConcatProperties
<1>3. List(s \o t)
  BY <1>2, SeqIsList
<1>4. Len(s) \in Nat /\ Len(t) \in Nat
  BY ListFacts
<1>5. ASSUME NEW i \in 1 .. Len(s) PROVE (s \o t)[i] = s[i]
  BY <1>2, <1>4
<1>6. ASSUME NEW i \in 1 .. Len(t) PROVE (s \o t)[Len(s) + i] = t[i]
  <2>1. Len(s) + i \in 1 .. Len(s) + Len(t) /\ ~(Len(s) + i <= Len(s)) /\ (Len(s) + i) - Len(s) = i
    BY <1>4
  <2> QED
    BY <1>2, <2>1
<1> QED
  BY <1>2, <1>3, <1>5, <1>6

\* A position in a concatenation is one in its parts.
LEMMA ConcatWhere ==
    ASSUME NEW s, NEW t, List(s), List(t), NEW j \in 1 .. Len(s \o t)
    PROVE  \/ j \in 1 .. Len(s) /\ (s \o t)[j] = s[j]
           \/ \E i \in 1 .. Len(t) : j = Len(s) + i /\ (s \o t)[j] = t[i]
<1>1. Len(s) \in Nat /\ Len(t) \in Nat /\ Len(s \o t) = Len(s) + Len(t)
  BY ListFacts, ListConcat
<1>2. CASE j <= Len(s)
  <2>1. j \in 1 .. Len(s)
    BY <1>1, <1>2
  <2> QED
    BY <2>1, ListConcat
<1>3. CASE j > Len(s)
  <2>1. j - Len(s) \in 1 .. Len(t) /\ j = Len(s) + (j - Len(s))
    BY <1>1, <1>3
  <2>2. (s \o t)[Len(s) + (j - Len(s))] = t[j - Len(s)]
    BY <2>1, ListConcat
  <2> QED
    BY <2>1, <2>2
<1> QED
  BY <1>1, <1>2, <1>3

\* A list of one, and of none.
LEMMA SingleList == ASSUME NEW e PROVE List(<<e>>) /\ Len(<<e>>) = 1 /\ <<e>>[1] = e
<1>1. <<e>> \in Seq({e})
  OBVIOUS
<1> QED
  BY <1>1, SeqIsList

LEMMA EmptyList == List(<<>>) /\ Len(<<>>) = 0
<1>1. <<>> \in Seq({})
  OBVIOUS
<1> QED
  BY <1>1, SeqIsList

-----------------------------------------------------------------------------
(* FlattenSeq. *)

\* What is true of the first and passes from each to the next is true of all.
LEMMA Every ==
    ASSUME NEW n \in Nat, NEW T, 1 \in T, \A i \in 1 .. n : i \in T /\ i + 1 \in 1 .. n => i + 1 \in T
    PROVE  1 .. n \subseteq T
<1> DEFINE U == (1 .. n) \ T
<1> SUFFICES ASSUME U # {} PROVE FALSE
  OBVIOUS
<1>1. PICK x \in U : \A y \in U : x <= y
  <2>1. U \subseteq Nat
    OBVIOUS
  <2> HIDE DEF U
  <2> QED
    BY <2>1, Smallest
<1>2. x \in 2 .. n
  BY <1>1
<1>3. x - 1 \in 1 .. n /\ (x - 1) + 1 = x /\ ~(x <= x - 1)
  BY <1>2
<1>4. x - 1 \in T
  BY <1>1, <1>3
<1> QED
  BY <1>1, <1>3, <1>4

\* FlattenSeq joins from the left: f[i] is the first i lists of ss in one.
Joined(ss, f, i) == IF i = 1 THEN ss[i] ELSE f[i - 1] \o ss[i]
Joins(ss, n, f) == f = [i \in 1 .. n |-> Joined(ss, f, i)]

\* There is one such f.
LEMMA JoinsFun ==
    ASSUME NEW ss, NEW n \in Nat, NEW f, Joins(ss, n, f)
    PROVE  f = [i \in 1 .. n |-> f[i]]
BY DEF Joins

LEMMA JoinsFacts ==
    ASSUME NEW ss, NEW n \in Nat \ {0}, NEW f, Joins(ss, n, f)
    PROVE  \A i \in 1 .. n : f[i] = Joined(ss, f, i)
BY DEF Joins

LEMMA JoinsOnce ==
    ASSUME NEW ss, NEW n \in Nat \ {0}, NEW f, NEW g, Joins(ss, n, f), Joins(ss, n, g)
    PROVE  f = g
<1>1. /\ \A i \in 1 .. n : f[i] = Joined(ss, f, i)
      /\ \A i \in 1 .. n : g[i] = Joined(ss, g, i)
  BY JoinsFacts, Zenon
<1>2. /\ f[1] = ss[1] /\ g[1] = ss[1]
      /\ \A i \in 1 .. n : i # 1 => f[i] = f[i - 1] \o ss[i] /\ g[i] = g[i - 1] \o ss[i]
  <2>1. 1 \in 1 .. n
    OBVIOUS
  <2> QED
    BY <1>1, <2>1 DEF Joined
<1> DEFINE T == {i \in Int : f[i] = g[i]}
<1>3. 1 \in T
  BY <1>2
<1>4. ASSUME NEW i \in 1 .. n, i \in T, i + 1 \in 1 .. n PROVE i + 1 \in T
  <2>1. i + 1 # 1 /\ (i + 1) - 1 = i /\ i + 1 \in Int
    OBVIOUS
  <2>2. f[i + 1] = f[i] \o ss[i + 1] /\ g[i + 1] = g[i] \o ss[i + 1]
    BY <1>2, <1>4, <2>1
  <2> QED
    BY <1>4, <2>1, <2>2
<1> HIDE DEF T
<1>5. 1 .. n \subseteq T
  BY <1>3, <1>4, Every
<1>6. \A i \in 1 .. n : f[i] = g[i]
  BY <1>5 DEF T
<1>7. [i \in 1 .. n |-> f[i]] = [i \in 1 .. n |-> g[i]]
  BY <1>6, Zenon
<1>8. f = [i \in 1 .. n |-> f[i]] /\ g = [i \in 1 .. n |-> g[i]]
  BY JoinsFun
<1> QED
  BY <1>7, <1>8, Zenon

\* s is ss[1] .. ss[n] laid end to end; off[a] is where ss[a] ends.
Laid(s, ss, n, off) ==
    /\ off \in [0 .. n -> Nat] /\ off[0] = 0 /\ off[n] = Len(s)
    /\ \A a \in 1 .. n : off[a] = off[a - 1] + Len(ss[a])
    /\ \A a \in 1 .. n : \A b \in 1 .. Len(ss[a]) : s[off[a - 1] + b] = ss[a][b]

Flat(s, ss, n) == List(s) /\ \E off : Laid(s, ss, n, off)

\* Position j of the whole is position b of part a.
InPart(s, ss, n, off, j) ==
    \E a \in 1 .. n : \E b \in 1 .. Len(ss[a]) : j = off[a - 1] + b /\ s[j] = ss[a][b]

\* One list lies end to end; and so does a further one behind those that do.
LEMMA FlatFirst ==
    ASSUME NEW ss, List(ss[1])
    PROVE  Flat(ss[1], ss, 1)
<1> DEFINE off == [i \in 0 .. 1 |-> IF i = 0 THEN 0 ELSE Len(ss[1])]
<1>1. Len(ss[1]) \in Nat
  BY ListFacts
<1>2. off \in [0 .. 1 -> Nat] /\ off[0] = 0 /\ off[1] = Len(ss[1])
  BY <1>1
<1> HIDE DEF off
<1>3. \A a \in 1 .. 1 : a = 1 /\ a - 1 = 0
  OBVIOUS
<1>4. \A b \in 1 .. Len(ss[1]) : off[0] + b = b
  BY <1>1, <1>2
<1>5. \A a \in 1 .. 1 : off[a] = off[a - 1] + Len(ss[a])
  BY <1>1, <1>2, <1>3
<1>6. \A a \in 1 .. 1 : \A b \in 1 .. Len(ss[a]) : ss[1][off[a - 1] + b] = ss[a][b]
  BY <1>3, <1>4
<1> QED
  BY <1>2, <1>5, <1>6 DEF Flat, Laid

\* Offsets do not fall.
LEMMA OffsetsRise ==
    ASSUME NEW s, NEW ss, NEW n \in Nat, NEW off, Laid(s, ss, n, off),
           \A a \in 1 .. n : Len(ss[a]) \in Nat,
           NEW a \in 0 .. n, NEW c \in 0 .. n, a <= c
    PROVE  off[a] <= off[c]
<1> DEFINE T == {i \in Int : i - 1 \in 0 .. n /\ (a <= i - 1 => off[a] <= off[i - 1])}
<1>1. /\ off \in [0 .. n -> Nat] /\ off[0] = 0
      /\ \A i \in 1 .. n : off[i] = off[i - 1] + Len(ss[i])
  BY DEF Laid
<1>2. 1 \in T
  BY <1>1
<1>3. ASSUME NEW i \in 1 .. n + 1, i \in T, i + 1 \in 1 .. n + 1 PROVE i + 1 \in T
  <2>1. i \in 1 .. n /\ (i + 1) - 1 = i /\ i \in 0 .. n /\ i - 1 \in 0 .. n
    BY <1>3
  <2>2. off[i] = off[i - 1] + Len(ss[i]) /\ Len(ss[i]) \in Nat
    BY <1>1, <2>1
  <2>3. off[i] \in Nat /\ off[i - 1] \in Nat /\ off[a] \in Nat
    BY <1>1, <2>1
  <2>4. off[i - 1] <= off[i]
    BY <2>2, <2>3
  <2>5. a <= i => off[a] <= off[i]
    <3>1. CASE a = i
      BY <3>1, <2>3
    <3>2. CASE a <= i - 1
      BY <3>2, <1>3, <2>3, <2>4
    <3> QED
      BY <3>1, <3>2, <2>1
  <2> QED
    BY <2>1, <2>5
<1> HIDE DEF T
<1>4. 1 .. n + 1 \subseteq T
  <2>1. n + 1 \in Nat
    OBVIOUS
  <2> QED
    BY <2>1, <1>2, <1>3, Every
<1>5. c + 1 \in T /\ (c + 1) - 1 = c
  BY <1>4
<1> QED
  BY <1>5 DEF T

\* Every position is in one of the parts.
LEMMA LaidWhere ==
    ASSUME NEW s, NEW ss, NEW n \in Nat, NEW off, Laid(s, ss, n, off),
           \A a \in 1 .. n : Len(ss[a]) \in Nat, NEW j \in 1 .. Len(s)
    PROVE  InPart(s, ss, n, off, j)
<1>1. /\ off \in [0 .. n -> Nat] /\ off[0] = 0 /\ off[n] = Len(s)
      /\ \A i \in 1 .. n : off[i] = off[i - 1] + Len(ss[i])
      /\ \A a \in 1 .. n : \A b \in 1 .. Len(ss[a]) : s[off[a - 1] + b] = ss[a][b]
  BY DEF Laid
<1> DEFINE T == {i \in 0 .. n : j <= off[i]}
<1>2. n \in T /\ T \subseteq Nat
  BY <1>1
<1>3. PICK a \in T : \A y \in T : a <= y
  <2> HIDE DEF T
  <2> QED
    BY <1>2, Smallest
<1>4. a \in 1 .. n /\ a - 1 \in 0 .. n
  BY <1>1, <1>3
<1>5. ~(j <= off[a - 1]) /\ j <= off[a]
  BY <1>3, <1>4
<1>6. off[a] \in Nat /\ off[a - 1] \in Nat /\ off[a] = off[a - 1] + Len(ss[a]) /\ Len(ss[a]) \in Nat
  BY <1>1, <1>4
<1>7. j - off[a - 1] \in 1 .. Len(ss[a]) /\ j = off[a - 1] + (j - off[a - 1])
  BY <1>5, <1>6
<1>8. s[off[a - 1] + (j - off[a - 1])] = ss[a][j - off[a - 1]]
  BY <1>1, <1>4, <1>7
<1> QED
  BY <1>4, <1>7, <1>8 DEF InPart

\* The step from n lists to n + 1.
LEMMA FlatNext ==
    ASSUME NEW ss, NEW n \in Nat, NEW s, Flat(s, ss, n), List(ss[n + 1]),
           \A a \in 1 .. n : Len(ss[a]) \in Nat
    PROVE  Flat(s \o ss[n + 1], ss, n + 1)
<1> DEFINE t == ss[n + 1]
           r == s \o t
<1>1. PICK f : Laid(s, ss, n, f)
  BY DEF Flat
<1>2. /\ f \in [0 .. n -> Nat] /\ f[0] = 0 /\ f[n] = Len(s)
      /\ \A a \in 1 .. n : f[a] = f[a - 1] + Len(ss[a])
      /\ \A a \in 1 .. n : \A b \in 1 .. Len(ss[a]) : s[f[a - 1] + b] = ss[a][b]
  BY <1>1 DEF Laid
<1>3. List(s) /\ List(t)
  BY DEF Flat
<1>4. /\ List(r) /\ Len(r) = Len(s) + Len(t) /\ Len(s) \in Nat /\ Len(t) \in Nat
      /\ \A i \in 1 .. Len(s) : r[i] = s[i]
      /\ \A i \in 1 .. Len(t) : r[Len(s) + i] = t[i]
  BY <1>3, ListFacts, ListConcat
<1> DEFINE off == [i \in 0 .. n + 1 |-> IF i <= n THEN f[i] ELSE Len(r)]
<1> HIDE DEF r, t
<1>5. /\ off \in [0 .. n + 1 -> Nat] /\ off[n + 1] = Len(r)
      /\ \A i \in 0 .. n : off[i] = f[i]
  BY <1>2, <1>4
<1> HIDE DEF off
<1>6. ASSUME NEW a \in 1 .. n + 1 PROVE off[a] = off[a - 1] + Len(ss[a])
  <2>1. CASE a = n + 1
    <3>1. a - 1 = n /\ n \in 0 .. n
      BY <2>1
    <3> QED
      BY <2>1, <3>1, <1>2, <1>4, <1>5 DEF t
  <2>2. CASE a \in 1 .. n
    <3>1. a \in 0 .. n /\ a - 1 \in 0 .. n
      BY <2>2
    <3> QED
      BY <2>2, <3>1, <1>2, <1>5
  <2> QED
    BY <2>1, <2>2
<1>7. ASSUME NEW a \in 1 .. n + 1, NEW b \in 1 .. Len(ss[a])
      PROVE  r[off[a - 1] + b] = ss[a][b]
  <2>1. CASE a = n + 1
    <3>1. a - 1 = n /\ n \in 0 .. n
      BY <2>1
    <3>2. off[a - 1] = Len(s)
      BY <3>1, <1>2, <1>5
    <3>3. b \in 1 .. Len(t)
      BY <2>1 DEF t
    <3> QED
      BY <2>1, <3>2, <3>3, <1>4 DEF t
  <2>2. CASE a \in 1 .. n
    <3>1. a \in 0 .. n /\ a - 1 \in 0 .. n
      BY <2>2
    <3>2. off[a - 1] = f[a - 1] /\ s[f[a - 1] + b] = ss[a][b]
      BY <2>2, <3>1, <1>2, <1>5
    <3>3. f[a - 1] + b \in 1 .. Len(s)
      <4>1. f[a] <= f[n]
        <5>1. n \in 0 .. n /\ a <= n
          BY <2>2
        <5> QED
          BY <1>1, <3>1, <5>1, OffsetsRise
      <4>2. f[a] = f[a - 1] + Len(ss[a]) /\ f[a - 1] \in Nat /\ Len(ss[a]) \in Nat
        BY <2>2, <3>1, <1>2
      <4> QED
        BY <4>1, <4>2, <1>2, <1>4
    <3> QED
      BY <3>2, <3>3, <1>4
  <2> QED
    BY <2>1, <2>2
<1>8. off[0] = 0
  BY <1>2, <1>5
<1>9. Laid(r, ss, n + 1, off)
  BY <1>5, <1>6, <1>7, <1>8 DEF Laid
<1> QED
  BY <1>4, <1>9 DEF Flat, r, t

\* FlattenSeq lays its lists end to end.
LEMMA FlattenIs ==
    ASSUME NEW ss, List(ss), \A a \in 1 .. Len(ss) : List(ss[a])
    PROVE  Flat(FlattenSeq(ss), ss, Len(ss))
<1> DEFINE n == Len(ss)
           T == {m \in Int : \E f : Joins(ss, m, f) /\ Flat(f[m], ss, m)}
<1>1. n \in Nat
  BY ListFacts
<1>2. CASE n = 0
  <2>1. FlattenSeq(ss) = ss
    BY <1>2 DEF FlattenSeq
  <2> DEFINE off == [i \in 0 .. 0 |-> 0]
  <2>2. Laid(ss, ss, 0, off)
    <3>1. off \in [0 .. 0 -> Nat] /\ off[0] = 0
      OBVIOUS
    <3>2. \A a \in 1 .. 0 : FALSE
      OBVIOUS
    <3> HIDE DEF off
    <3> QED
      BY <1>2, <3>1, <3>2 DEF Laid
  <2> HIDE DEF off
  <2> QED
    BY <1>2, <2>1, <2>2 DEF Flat
<1>3. CASE n # 0
  <2>1. 1 \in 1 .. n
    BY <1>1, <1>3
  <2>2. 1 \in T
    <3> DEFINE f == [i \in 1 .. 1 |-> ss[1]]
               g == [i \in 1 .. 1 |-> IF i = 1 THEN ss[i] ELSE f[i - 1] \o ss[i]]
    <3>0. \A i \in 1 .. 1 : f[i] = g[i]
      OBVIOUS
    <3>1. f = g /\ f[1] = ss[1]
      <4>1. [i \in 1 .. 1 |-> f[i]] = [i \in 1 .. 1 |-> g[i]]
        <5> HIDE DEF f, g
        <5> QED
          BY <3>0, Zenon
      <4>2. f = [i \in 1 .. 1 |-> f[i]] /\ g = [i \in 1 .. 1 |-> g[i]]
        OBVIOUS
      <4>3. f[1] = ss[1]
        OBVIOUS
      <4> HIDE DEF f, g
      <4> QED
        BY <4>1, <4>2, <4>3, Zenon
    <3>2. Joins(ss, 1, f)
      BY <3>1 DEF Joins, Joined
    <3>3. Flat(ss[1], ss, 1)
      BY <2>1, FlatFirst
    <3> HIDE DEF f, g
    <3> QED
      BY <3>1, <3>2, <3>3
  <2>3. ASSUME NEW m \in 1 .. n, m \in T, m + 1 \in 1 .. n PROVE m + 1 \in T
    <3>0. m \in Nat \ {0} /\ m \in 1 .. m + 1
      BY <1>1
    <3>1. PICK f : Joins(ss, m, f) /\ Flat(f[m], ss, m)
      BY <2>3
    <3> DEFINE g == [i \in 1 .. m + 1 |-> IF i <= m THEN f[i] ELSE f[m] \o ss[m + 1]]
               h == [i \in 1 .. m + 1 |-> IF i = 1 THEN ss[i] ELSE g[i - 1] \o ss[i]]
    <3>2. g[m + 1] = f[m] \o ss[m + 1]
      <4>1. m + 1 \in 1 .. m + 1 /\ ~(m + 1 <= m)
        BY <3>0
      <4> QED
        BY <4>1
    <3>3. f[1] = ss[1] /\ \A i \in 1 .. m : i # 1 => f[i] = f[i - 1] \o ss[i]
      <4>1. \A i \in 1 .. m : f[i] = Joined(ss, f, i)
        BY <3>0, <3>1, JoinsFacts, Zenon
      <4>2. 1 \in 1 .. m
        BY <3>0
      <4> QED
        BY <4>1, <4>2 DEF Joined
    <3>4. ASSUME NEW i \in 1 .. m + 1 PROVE g[i] = h[i]
      <4>1. CASE i = 1
        BY <4>1, <3>3
      <4>2. CASE i \in 2 .. m
        <5>1. i - 1 \in 1 .. m + 1 /\ i - 1 <= m /\ i <= m /\ i # 1 /\ i \in 1 .. m
          BY <4>2
        <5>2. g[i] = f[i] /\ g[i - 1] = f[i - 1] /\ h[i] = g[i - 1] \o ss[i]
          BY <5>1
        <5> QED
          BY <5>1, <5>2, <3>3
      <4>3. CASE i = m + 1
        <5>1. m \in 1 .. m + 1 /\ i # 1 /\ i - 1 = m /\ ~(i <= m) /\ m <= m
          BY <3>0, <4>3
        <5>2. g[i] = f[m] \o ss[m + 1] /\ g[m] = f[m] /\ h[i] = g[i - 1] \o ss[i]
          BY <5>1
        <5> QED
          BY <4>3, <5>1, <5>2
      <4> QED
        BY <4>1, <4>2, <4>3
    <3>5. g = h
      BY <3>4
    <3>6. Joins(ss, m + 1, g)
      BY <3>5 DEF Joins, Joined
    <3>7. Flat(g[m + 1], ss, m + 1)
      <4>1. List(ss[m + 1]) /\ m \in Nat
        BY <2>3
      <4>2. \A a \in 1 .. m : Len(ss[a]) \in Nat
        <5>1. \A a \in 1 .. m : List(ss[a])
          BY <1>1
        <5> QED
          BY <5>1, ListFacts
      <4> HIDE DEF g
      <4> QED
        BY <3>1, <3>2, <4>1, <4>2, FlatNext
    <3> HIDE DEF g
    <3> QED
      BY <3>6, <3>7
  <2> HIDE DEF T
  <2>4. n \in T
    <3>1. 1 .. n \subseteq T
      BY <1>1, <2>2, <2>3, Every
    <3> QED
      BY <1>1, <1>3, <3>1
  <2>5. PICK f : Joins(ss, n, f) /\ Flat(f[n], ss, n)
    BY <2>4 DEF T
  <2> DEFINE g == CHOOSE f0 : Joins(ss, n, f0)
  <2>6. Joins(ss, n, g)
    BY <2>5
  <2>7. FlattenSeq(ss) = g[n]
    BY <1>3 DEF FlattenSeq, Joins, Joined
  <2> HIDE DEF g
  <2>8. f = g
    <3> HIDE DEF n
    <3> QED
      BY <1>1, <1>3, <2>5, <2>6, JoinsOnce
  <2> QED
    BY <2>5, <2>7, <2>8
<1> QED
  BY <1>2, <1>3

\* The elements of a concatenation, and of lists laid end to end.
LEMMA ElementsConcat ==
    ASSUME NEW s, NEW t, List(s), List(t)
    PROVE  Elements(s \o t) = Elements(s) \cup Elements(t)
<1>0. List(s \o t)
  BY ListConcat
<1>1. /\ Elements(s) = {s[i] : i \in 1 .. Len(s)} /\ Elements(t) = {t[i] : i \in 1 .. Len(t)}
      /\ Elements(s \o t) = {(s \o t)[i] : i \in 1 .. Len(s \o t)}
  BY <1>0, ElementsAre
<1>2. /\ Len(s \o t) = Len(s) + Len(t) /\ Len(s) \in Nat /\ Len(t) \in Nat
      /\ \A i \in 1 .. Len(s) : (s \o t)[i] = s[i]
      /\ \A i \in 1 .. Len(t) : (s \o t)[Len(s) + i] = t[i]
  BY ListConcat, ListFacts
<1>3. Elements(s \o t) \subseteq Elements(s) \cup Elements(t)
  <2> SUFFICES ASSUME NEW j \in 1 .. Len(s \o t)
               PROVE  (s \o t)[j] \in Elements(s) \cup Elements(t)
    BY <1>1
  <2> QED
    BY <1>1, ConcatWhere
<1>4. Elements(s) \subseteq Elements(s \o t)
  <2> SUFFICES ASSUME NEW i \in 1 .. Len(s) PROVE s[i] \in Elements(s \o t)
    BY <1>1
  <2>1. i \in 1 .. Len(s \o t)
    BY <1>2
  <2> QED
    BY <2>1, <1>1, <1>2
<1>5. Elements(t) \subseteq Elements(s \o t)
  <2> SUFFICES ASSUME NEW i \in 1 .. Len(t) PROVE t[i] \in Elements(s \o t)
    BY <1>1
  <2>1. Len(s) + i \in 1 .. Len(s \o t)
    BY <1>2
  <2> QED
    BY <2>1, <1>1, <1>2
<1> QED
  BY <1>3, <1>4, <1>5

\* A position b of part a, in the whole.
LEMMA LaidAt ==
    ASSUME NEW s, NEW ss, NEW n \in Nat, NEW off, Laid(s, ss, n, off), List(s),
           \A c \in 1 .. n : Len(ss[c]) \in Nat,
           NEW a \in 1 .. n, NEW b \in 1 .. Len(ss[a])
    PROVE  off[a - 1] \in Nat /\ off[a - 1] + b \in 1 .. Len(s) /\ s[off[a - 1] + b] = ss[a][b]
<1>1. /\ off \in [0 .. n -> Nat] /\ off[n] = Len(s)
      /\ off[a] = off[a - 1] + Len(ss[a]) /\ s[off[a - 1] + b] = ss[a][b]
  BY DEF Laid
<1>2. a \in 0 .. n /\ a - 1 \in 0 .. n /\ n \in 0 .. n /\ a <= n
  OBVIOUS
<1>3. off[a] <= off[n]
  BY <1>2, OffsetsRise
<1>4. off[a - 1] \in Nat /\ off[n] \in Nat /\ Len(ss[a]) \in Nat
  BY <1>1, <1>2
<1> QED
  BY <1>1, <1>3, <1>4

\* An element of the whole is one of a part.
LEMMA ElementsFlat ==
    ASSUME NEW ss, NEW n \in Nat, NEW s, Flat(s, ss, n), \A a \in 1 .. n : List(ss[a])
    PROVE  \A x : x \in Elements(s) <=> \E a \in 1 .. n : x \in Elements(ss[a])
<1>1. PICK off : Laid(s, ss, n, off)
  BY DEF Flat
<1>2. \A a \in 1 .. n : Len(ss[a]) \in Nat
  BY ListFacts
<1>3. List(s)
  BY DEF Flat
<1>4. Elements(s) = {s[i] : i \in 1 .. Len(s)}
  BY <1>3, ElementsAre
<1>5. \A a \in 1 .. n : Elements(ss[a]) = {ss[a][i] : i \in 1 .. Len(ss[a])}
  BY ElementsAre
<1>6. ASSUME NEW j \in 1 .. Len(s) PROVE \E a \in 1 .. n : s[j] \in Elements(ss[a])
  <2>1. PICK a \in 1 .. n : \E b \in 1 .. Len(ss[a]) : j = off[a - 1] + b /\ s[j] = ss[a][b]
    BY <1>1, <1>2, LaidWhere DEF InPart
  <2> QED
    BY <2>1, <1>5
<1>7. ASSUME NEW a \in 1 .. n, NEW b \in 1 .. Len(ss[a]) PROVE ss[a][b] \in Elements(s)
  <2>1. off[a - 1] \in Nat /\ off[a - 1] + b \in 1 .. Len(s) /\ s[off[a - 1] + b] = ss[a][b]
    BY <1>1, <1>2, <1>3, LaidAt
  <2> QED
    BY <2>1, <1>4
<1> TAKE x
<1>8. ASSUME x \in Elements(s) PROVE \E a \in 1 .. n : x \in Elements(ss[a])
  <2>1. PICK j \in 1 .. Len(s) : x = s[j]
    BY <1>4, <1>8
  <2> QED
    BY <1>6, <2>1
<1>9. ASSUME NEW a \in 1 .. n, x \in Elements(ss[a]) PROVE x \in Elements(s)
  <2>1. PICK b \in 1 .. Len(ss[a]) : x = ss[a][b]
    BY <1>5, <1>9
  <2> QED
    BY <1>7, <2>1
<1> QED
  BY <1>8, <1>9

LEMMA ElementsFlatten ==
    ASSUME NEW ss, List(ss), \A a \in 1 .. Len(ss) : List(ss[a])
    PROVE  /\ List(FlattenSeq(ss))
           /\ \A x : x \in Elements(FlattenSeq(ss)) <=> \E a \in 1 .. Len(ss) : x \in Elements(ss[a])
<1>1. Flat(FlattenSeq(ss), ss, Len(ss)) /\ Len(ss) \in Nat
  BY FlattenIs, ListFacts
<1> QED
  BY <1>1, ElementsFlat, Zenon DEF Flat

-----------------------------------------------------------------------------
(* Equations between lists. *)

\* Lists of one length with the same elements at each position are equal.
LEMMA ListEqual ==
    ASSUME NEW s, NEW t, List(s), List(t), Len(s) = Len(t), \A i \in 1 .. Len(s) : s[i] = t[i]
    PROVE  s = t
<1>1. s = [i \in 1 .. Len(s) |-> s[i]] /\ t = [i \in 1 .. Len(t) |-> t[i]]
  BY ListFacts
<1>2. [i \in 1 .. Len(s) |-> s[i]] = [i \in 1 .. Len(t) |-> t[i]]
  OBVIOUS
<1> QED
  BY <1>1, <1>2

\* ListConcat for a list that has a name.
IsConcat(r, s, t) ==
    /\ List(r) /\ Len(r) = Len(s) + Len(t)
    /\ \A i \in 1 .. Len(s) : r[i] = s[i]
    /\ \A i \in 1 .. Len(t) : r[Len(s) + i] = t[i]

LEMMA ListJoined == \A r, s, t : List(s) /\ List(t) /\ r = s \o t => IsConcat(r, s, t)
BY ListConcat DEF IsConcat

LEMMA ListAssociative ==
    ASSUME NEW a, NEW b, NEW c, List(a), List(b), List(c)
    PROVE  (a \o b) \o c = a \o (b \o c)
<1> DEFINE S == Elements(a) \cup Elements(b) \cup Elements(c)
<1>1. a \in Seq(Elements(a)) /\ b \in Seq(Elements(b)) /\ c \in Seq(Elements(c))
  BY DEF List
<1>2. Elements(a) \subseteq S /\ Elements(b) \subseteq S /\ Elements(c) \subseteq S
  OBVIOUS
<1> HIDE DEF S
<1>3. a \in Seq(S) /\ b \in Seq(S) /\ c \in Seq(S)
  BY <1>1, <1>2, SeqMonotonic
<1> QED
  BY ONLY <1>3, ConcatAssociative

\* The empty list is neutral.
LEMMA ListNeutral ==
    ASSUME NEW s, List(s)
    PROVE  s \o <<>> = s /\ <<>> \o s = s
<1>1. s \in Seq(Elements(s))
  BY DEF List
<1> QED
  BY <1>1, ConcatEmptySeq

\* A list is its head and its tail, and Append joins a list of one.
LEMMA ListHead ==
    ASSUME NEW s, List(s), s # <<>>
    PROVE  /\ List(Tail(s)) /\ s = <<Head(s)>> \o Tail(s)
           /\ Head(s) = s[1] /\ 1 \in 1 .. Len(s) /\ Head(s) \in Elements(s)
<1>1. s \in Seq(Elements(s))
  BY DEF List
<1>2. /\ Head(s) \in Elements(s) /\ Tail(s) \in Seq(Elements(s)) /\ Head(s) = s[1]
      /\ Len(s) \in Nat \ {0} /\ Len(Tail(s)) = Len(s) - 1
      /\ \A i \in 1 .. Len(Tail(s)) : Tail(s)[i] = s[i + 1]
  BY <1>1, HeadTailProperties, EmptySeq, LenProperties
<1> DEFINE t == Tail(s)
           e == <<Head(s)>>
<1>3. List(t)
  BY <1>2, SeqIsList
<1>4. List(e) /\ Len(e) = 1 /\ e[1] = Head(s)
  BY SingleList
<1>6. Len(t) = Len(s) - 1 /\ \A i \in 1 .. Len(t) : t[i] = s[i + 1]
  BY <1>2
<1> DEFINE r == e \o t
<1> HIDE DEF t, e
<1>0. r = e \o t
  OBVIOUS
<1> HIDE DEF r
<1>a. IsConcat(r, e, t)
  BY ONLY <1>0, <1>3, <1>4, ListJoined, Zenon
<1>5. /\ List(r) /\ Len(r) = Len(e) + Len(t)
      /\ \A i \in 1 .. Len(e) : r[i] = e[i]
      /\ \A i \in 1 .. Len(t) : r[Len(e) + i] = t[i]
  BY <1>a DEF IsConcat
<1>7. Len(s) = Len(r)
  BY <1>2, <1>4, <1>5, <1>6
<1>8. ASSUME NEW i \in 1 .. Len(s) PROVE s[i] = r[i]
  <2>1. CASE i = 1
    BY <2>1, <1>2, <1>4, <1>5
  <2>2. CASE i # 1
    <3>1. i - 1 \in 1 .. Len(t) /\ Len(e) + (i - 1) = i /\ (i - 1) + 1 = i
      BY <2>2, <1>2, <1>4, <1>6
    <3> QED
      BY <3>1, <1>5, <1>6
  <2> QED
    BY <2>1, <2>2
<1>9. s = r
  BY <1>5, <1>7, <1>8, ListEqual
<1> QED
  BY <1>2, <1>3, <1>9 DEF r, t, e

LEMMA ListAppend ==
    ASSUME NEW s, List(s), NEW x
    PROVE  Append(s, x) = s \o <<x>> /\ List(Append(s, x)) /\ Elements(Append(s, x)) = Elements(s) \cup {x}
<1> DEFINE S == Elements(s) \cup {x}
           e == <<x>>
           t == Append(s, x)
<1>1. s \in Seq(S)
  <2>1. s \in Seq(Elements(s)) /\ Elements(s) \subseteq S
    BY DEF List
  <2> QED
    BY <2>1, SeqMonotonic
<1>2. x \in S
  OBVIOUS
<1> HIDE DEF S
<1>3. /\ t \in Seq(S) /\ Len(t) = Len(s) + 1 /\ t[Len(s) + 1] = x
      /\ \A i \in 1 .. Len(s) : t[i] = s[i]
  BY <1>1, <1>2, AppendProperties
<1>4. List(t) /\ Len(s) \in Nat
  BY <1>3, SeqIsList, ListFacts
<1>5. List(e) /\ Len(e) = 1 /\ e[1] = x
  BY SingleList
<1> DEFINE r == s \o e
<1> HIDE DEF e, t
<1>0. r = s \o e
  OBVIOUS
<1> HIDE DEF r
<1>a. IsConcat(r, s, e)
  <2>1. List(s)
    OBVIOUS
  <2> QED
    BY ONLY <2>1, <1>0, <1>5, ListJoined, Zenon
<1>6. /\ List(r) /\ Len(r) = Len(s) + Len(e)
      /\ \A i \in 1 .. Len(s) : r[i] = s[i]
      /\ \A i \in 1 .. Len(e) : r[Len(s) + i] = e[i]
  BY <1>a DEF IsConcat
<1>7. Len(t) = Len(r)
  BY <1>3, <1>5, <1>6
<1>8. ASSUME NEW i \in 1 .. Len(t) PROVE t[i] = r[i]
  <2>1. CASE i \in 1 .. Len(s)
    BY <2>1, <1>3, <1>6
  <2>2. CASE i = Len(s) + 1
    <3>1. 1 \in 1 .. Len(e)
      BY <1>5
    <3> QED
      BY <2>2, <3>1, <1>3, <1>5, <1>6
  <2>3. i \in 1 .. Len(s) \/ i = Len(s) + 1
    BY <1>3, <1>4
  <2> QED
    BY <2>1, <2>2, <2>3
<1>9. t = r
  BY <1>4, <1>6, <1>7, <1>8, ListEqual
<1>10. Elements(r) = Elements(s) \cup Elements(e)
  BY <1>0, <1>5, ElementsConcat
<1>11. Elements(e) = {x}
  <2>1. DOMAIN e = 1 .. 1
    BY <1>5, ListFacts
  <2> QED
    BY <2>1, <1>5 DEF Elements
<1> QED
  BY <1>0, <1>4, <1>9, <1>10, <1>11 DEF t, e

LEMMA ElementsFew ==
    /\ Elements(<<>>) = {}
    /\ \A x : Elements(<<x>>) = {x}
<1>1. Elements(<<>>) = {}
  BY DEF Elements
<1>2. ASSUME NEW x PROVE Elements(<<x>>) = {x}
  <2> DEFINE e == <<x>>
  <2>1. List(e) /\ Len(e) = 1 /\ e[1] = x
    BY SingleList
  <2> HIDE DEF e
  <2>2. DOMAIN e = 1 .. 1
    BY <2>1, ListFacts
  <2>3. Elements(e) = {x}
    BY <2>1, <2>2 DEF Elements
  <2> QED
    BY <2>3 DEF e
<1> QED
  BY <1>1, <1>2

-----------------------------------------------------------------------------
(* FlattenSeq joins what is joined. *)

\* There is one list of which given lists, laid end to end, are the parts.
LEMMA FlatOnce ==
    ASSUME NEW ss, NEW n \in Nat, NEW s, NEW t, Flat(s, ss, n), Flat(t, ss, n),
           \A a \in 1 .. n : List(ss[a])
    PROVE  s = t
<1>1. PICK f : Laid(s, ss, n, f)
  BY DEF Flat
<1>2. PICK g : Laid(t, ss, n, g)
  BY DEF Flat
<1>3. List(s) /\ List(t) /\ \A a \in 1 .. n : Len(ss[a]) \in Nat
  BY ListFacts DEF Flat
<1>4. /\ f \in [0 .. n -> Nat] /\ f[0] = 0 /\ f[n] = Len(s)
      /\ \A a \in 1 .. n : f[a] = f[a - 1] + Len(ss[a])
  BY <1>1 DEF Laid
<1>5. /\ g \in [0 .. n -> Nat] /\ g[0] = 0 /\ g[n] = Len(t)
      /\ \A a \in 1 .. n : g[a] = g[a - 1] + Len(ss[a])
      /\ \A a \in 1 .. n : \A b \in 1 .. Len(ss[a]) : t[g[a - 1] + b] = ss[a][b]
  BY <1>2 DEF Laid
<1> DEFINE T == {i \in Nat : f[i] = g[i]}
<1>6. 0 \in T
  BY <1>4, <1>5
<1>7. ASSUME NEW i \in 0 .. n, i \in T, i + 1 \in 0 .. n PROVE i + 1 \in T
  <2>1. i + 1 \in 1 .. n /\ (i + 1) - 1 = i /\ i + 1 \in Nat
    BY <1>7
  <2> QED
    BY <2>1, <1>4, <1>5, <1>7
<1> HIDE DEF T
<1>8. 0 .. n \subseteq T
  BY <1>6, <1>7, EveryFrom
<1>9. \A i \in 0 .. n : f[i] = g[i]
  BY <1>8 DEF T
<1>10. Len(s) = Len(t)
  BY <1>4, <1>5, <1>9
<1>11. ASSUME NEW j \in 1 .. Len(s) PROVE s[j] = t[j]
  <2>1. PICK a \in 1 .. n : \E b \in 1 .. Len(ss[a]) : j = f[a - 1] + b /\ s[j] = ss[a][b]
    <3>1. InPart(s, ss, n, f, j)
      BY <1>1, <1>3, LaidWhere
    <3> QED
      BY <3>1, Zenon DEF InPart
  <2>2. a - 1 \in 0 .. n
    BY <2>1
  <2> QED
    BY <2>1, <2>2, <1>5, <1>9
<1> QED
  BY <1>3, <1>10, <1>11, ListEqual

LEMMA FlattenNone == FlattenSeq(<<>>) = <<>>
BY EmptySeq DEF FlattenSeq

\* A list of lists.
ListOfLists(ss) == List(ss) /\ \A a \in 1 .. Len(ss) : List(ss[a])

\* Of a list of lists and one more.
LEMMA FlattenMore ==
    ASSUME NEW ss, ListOfLists(ss), NEW x, List(x)
    PROVE  FlattenSeq(ss \o <<x>>) = FlattenSeq(ss) \o x /\ ListOfLists(ss \o <<x>>)
<1> DEFINE n == Len(ss)
           e == <<x>>
           tt == ss \o e
<1>1. List(e) /\ Len(e) = 1 /\ e[1] = x /\ 1 \in 1 .. Len(e)
  BY SingleList
<1> HIDE DEF e
<1>0. tt = ss \o e /\ n = Len(ss)
  OBVIOUS
<1>a. List(ss) /\ n \in Nat
  BY ListFacts DEF ListOfLists
<1> HIDE DEF tt, n
<1>c. IsConcat(tt, ss, e)
  BY ONLY <1>0, <1>1, <1>a, ListJoined, Zenon
<1>b. /\ List(tt) /\ Len(tt) = Len(ss) + Len(e)
      /\ \A i \in 1 .. Len(ss) : tt[i] = ss[i]
      /\ \A i \in 1 .. Len(e) : tt[Len(ss) + i] = e[i]
  BY <1>c DEF IsConcat
<1>2. /\ n \in Nat /\ List(tt) /\ Len(tt) = n + 1 /\ tt[n + 1] = x
      /\ \A i \in 1 .. n : tt[i] = ss[i]
  BY <1>0, <1>1, <1>a, <1>b
<1>3. \A i \in 1 .. n : List(ss[i])
  BY <1>0 DEF ListOfLists
<1> DEFINE s == FlattenSeq(ss)
<1>4. Flat(s, ss, n)
  BY <1>0, <1>3, FlattenIs DEF ListOfLists
<1>5. Flat(s, tt, n)
  <2>1. PICK off : Laid(s, ss, n, off)
    BY <1>4 DEF Flat
  <2>2. Laid(s, tt, n, off)
    BY <2>1, <1>2 DEF Laid
  <2> QED
    BY <1>4, <2>2 DEF Flat
<1>6. \A i \in 1 .. n + 1 : List(tt[i])
  BY <1>2, <1>3
<1>7. ListOfLists(tt)
  BY <1>2, <1>6 DEF ListOfLists
<1>8. \A i \in 1 .. n : Len(tt[i]) \in Nat
  BY <1>6, ListFacts, <1>2
<1> HIDE DEF s
<1>9. Flat(s \o tt[n + 1], tt, n + 1)
  <2>1. List(tt[n + 1])
    BY <1>2
  <2> QED
    BY <1>2, <1>5, <1>8, <2>1, FlatNext
<1>10. Flat(FlattenSeq(tt), tt, n + 1)
  BY <1>2, <1>7, FlattenIs DEF ListOfLists
<1>11. s \o tt[n + 1] = FlattenSeq(tt)
  <2>1. n + 1 \in Nat
    BY <1>2
  <2> QED
    BY <2>1, <1>6, <1>9, <1>10, FlatOnce
<1> QED
  BY <1>0, <1>2, <1>7, <1>11 DEF s, e

\* Flattening joined lists joins the flattened.
LEMMA FlattenJoined ==
    ASSUME NEW ss, NEW tt, ListOfLists(ss), ListOfLists(tt)
    PROVE  FlattenSeq(ss \o tt) = FlattenSeq(ss) \o FlattenSeq(tt) /\ ListOfLists(ss \o tt)
<1> DEFINE P(t) == FlattenSeq(ss \o t) = FlattenSeq(ss) \o FlattenSeq(t) /\ ListOfLists(ss \o t)
           T == {i \in Nat : \A t : (ListOfLists(t) /\ Len(t) = i) => P(t)}
<1>0. List(FlattenSeq(ss)) /\ List(ss)
  BY ElementsFlatten DEF ListOfLists
<1>1. 0 \in T
  <2> SUFFICES ASSUME NEW t, ListOfLists(t), Len(t) = 0 PROVE P(t)
    OBVIOUS
  <2>1. t = <<>>
    <3>1. List(t) /\ List(<<>>) /\ Len(<<>>) = 0
      BY EmptyList DEF ListOfLists
    <3> QED
      BY <3>1, ListEqual
  <2>2. ss \o <<>> = ss /\ FlattenSeq(ss) \o <<>> = FlattenSeq(ss)
    BY <1>0, ListNeutral
  <2> QED
    BY <2>1, <2>2, FlattenNone
<1>2. ASSUME NEW i \in 0 .. Len(tt), i \in T PROVE i + 1 \in T
  <2>0. i \in Nat /\ \A t : (ListOfLists(t) /\ Len(t) = i) => P(t)
    BY <1>2
  <2> SUFFICES ASSUME NEW t, ListOfLists(t), Len(t) = i + 1 PROVE P(t)
    BY <2>0
  <2> DEFINE r == [k \in 1 .. i |-> t[k]]
             x == t[i + 1]
             e == <<x>>
  <2>1. List(r) /\ Len(r) = i
    <3>1. i \in Nat /\ DOMAIN r = 1 .. i /\ r = [k \in 1 .. i |-> r[k]]
      BY <2>0
    <3> HIDE DEF r
    <3> QED
      BY <3>1, FunIsList
  <2>2. \A k \in 1 .. i : r[k] = t[k]
    OBVIOUS
  <2>3. /\ \A k \in 1 .. i : List(r[k])
        /\ List(x) /\ List(t)
    BY <2>0, <2>2 DEF ListOfLists
  <2>4. ListOfLists(r)
    BY <2>1, <2>3 DEF ListOfLists
  <2>5. List(e) /\ Len(e) = 1 /\ e[1] = x
    BY SingleList
  <2> HIDE DEF r, e
  <2>6. t = r \o e
    <3> DEFINE w == r \o e
    <3>0. w = r \o e
      OBVIOUS
    <3> HIDE DEF w, x
    <3>a. IsConcat(w, r, e)
      BY ONLY <3>0, <2>1, <2>5, ListJoined, Zenon
    <3>1. /\ List(w) /\ Len(w) = Len(r) + Len(e)
          /\ \A k \in 1 .. Len(r) : w[k] = r[k]
          /\ \A k \in 1 .. Len(e) : w[Len(r) + k] = e[k]
      BY <3>a DEF IsConcat
    <3>2. w[i + 1] = x
      BY <3>1, <2>1, <2>5
    <3>3. \A k \in 1 .. Len(t) : t[k] = w[k]
      <4> TAKE k \in 1 .. Len(t)
      <4>1. k \in 1 .. i \/ k = i + 1
        BY <2>0
      <4> QED
        BY <4>1, <3>1, <3>2, <2>0, <2>1, <2>2 DEF x
    <3>4. Len(t) = Len(w)
      BY <3>1, <2>0, <2>1, <2>5
    <3>5. t = w
      BY <3>1, <3>3, <3>4, <2>3, ListEqual
    <3> QED
      BY <3>0, <3>5
  <2>7. P(r)
    BY <2>0, <2>1, <2>4
  <2>8. FlattenSeq(r \o e) = FlattenSeq(r) \o x
    BY <2>3, <2>4, FlattenMore DEF e
  <2>9. FlattenSeq((ss \o r) \o e) = FlattenSeq(ss \o r) \o x /\ ListOfLists((ss \o r) \o e)
    BY <2>3, <2>7, FlattenMore DEF e
  <2>10. (ss \o r) \o e = ss \o (r \o e)
    BY <1>0, <2>1, <2>5, ListAssociative
  <2>11. List(FlattenSeq(r))
    BY <2>4, ElementsFlatten DEF ListOfLists
  <2> HIDE DEF x
  <2>12. (FlattenSeq(ss) \o FlattenSeq(r)) \o x = FlattenSeq(ss) \o (FlattenSeq(r) \o x)
    <3> DEFINE u == FlattenSeq(ss)
               v == FlattenSeq(r)
    <3>1. List(u) /\ List(v) /\ List(x)
      BY <1>0, <2>3, <2>11
    <3> HIDE DEF u, v
    <3>2. (u \o v) \o x = u \o (v \o x)
      BY ONLY <3>1, ListAssociative
    <3> QED
      BY <3>2 DEF u, v
  <2>13. FlattenSeq(ss \o t) = (FlattenSeq(ss) \o FlattenSeq(r)) \o x
    BY ONLY <2>6, <2>7, <2>9, <2>10, Zenon
  <2>14. FlattenSeq(ss \o t) = FlattenSeq(ss) \o FlattenSeq(t)
    BY ONLY <2>6, <2>8, <2>12, <2>13, Zenon
  <2>15. ListOfLists(ss \o t)
    BY ONLY <2>6, <2>9, <2>10, Zenon
  <2> QED
    BY <2>14, <2>15
<1> HIDE DEF T
<1>3. Len(tt) \in Nat
  BY ListFacts DEF ListOfLists
<1>4. 0 .. Len(tt) \subseteq T
  BY <1>1, <1>2, <1>3, EveryFrom
<1>5. Len(tt) \in T
  BY <1>3, <1>4
<1> QED
  BY <1>5 DEF T

\* Of one list.
LEMMA FlattenOne ==
    ASSUME NEW x, List(x)
    PROVE  FlattenSeq(<<x>>) = x /\ ListOfLists(<<x>>)
<1>1. ListOfLists(<<>>)
  BY EmptyList DEF ListOfLists
<1>2. FlattenSeq(<<>> \o <<x>>) = FlattenSeq(<<>>) \o x /\ ListOfLists(<<>> \o <<x>>)
  BY <1>1, FlattenMore
<1>3. <<>> \o <<x>> = <<x>> /\ <<>> \o x = x
  BY SingleList, ListNeutral
<1> QED
  BY <1>2, <1>3, FlattenNone
=============================================================================
