----------------------------- MODULE WireProofs -----------------------------
(***************************************************************************)
(* What the byte-level operators of Wire compute, for every input: the     *)
(* checksum of build_l2_udp_frame is the one a receiver recomputes to      *)
(* zero, and parse_options reads what to_bytes wrote.  The operators are   *)
(* recursive functions: each fact rests on the existence of the function   *)
(* and on its recurrence, and induction is by a least counterexample.      *)
(***************************************************************************)
EXTENDS Wire, NaturalsInduction, WellFoundedInduction, SequenceTheorems, TLAPS

(* A set of naturals has a least element. *)
LEMMA LeastNumber ==
    ASSUME NEW T, T \subseteq Nat, T # {}
    PROVE  \E x \in T : \A y \in T : x <= y
<1>0. \A x, y \in Nat : ~ (y < x) => x <= y
  OBVIOUS
<1> DEFINE R == OpToRel(<, Nat)
<1>1. IsWellFoundedOn(R, Nat)
  BY NatLessThanWellFounded
<1>2. PICK x \in T : \A y \in T : ~ (<<y, x>> \in R)
  <2> HIDE DEF R
  <2> QED
    BY <1>1, WFMin
<1>3. \A y \in T : ~ (y < x)
  BY <1>2 DEF OpToRel
<1> QED
  BY <1>0, <1>3, Zenon

-----------------------------------------------------------------------------
(* The checksum of the IP header. *)

Round(f, sum) == IF sum < 65536 THEN sum ELSE f[(sum % 65536) + (sum \div 65536)]
IsFold(f) == f = [sum \in Nat |-> Round(f, sum)]

LEMMA Divide ==
    ASSUME NEW s \in Nat
    PROVE  /\ s % 65536 \in Nat /\ s % 65536 < 65536 /\ s \div 65536 \in Nat
           /\ s = 65536 * (s \div 65536) + (s % 65536)
<1>1. s % 65536 \in Nat /\ s % 65536 < 65536
  BY SMT
<1>2. s \div 65536 \in Nat
  BY SMT
<1>3. s = 65536 * (s \div 65536) + (s % 65536)
  BY SMT
<1> QED
  BY <1>1, <1>2, <1>3

(* Numbers that are apart by a multiple of 65535 leave the same remainder. *)
LEMMA SameRemainder ==
    ASSUME NEW a \in Nat, NEW q \in Nat
    PROVE  (a + 65535 * q) % 65535 = a % 65535
  BY SMT

(* Ending around the carry keeps a positive number positive and its value  *)
(* modulo 65535, so the repetition has this closed form.                   *)
LEMMA FoldExists == \E f : IsFold(f)
<1> DEFINE g == [s \in Nat |-> IF s = 0 THEN 0 ELSE ((s - 1) % 65535) + 1]
<1>1. ASSUME NEW s \in Nat
      PROVE  g[s] = Round(g, s)
  <2> USE DEF Round
  <2>1. CASE s = 0
    BY <2>1
  <2>2. CASE s > 0 /\ s < 65536
    <3>1. (s - 1) % 65535 = s - 1
      BY <2>2
    <3> QED
      BY <2>2, <3>1
  <2>3. CASE s >= 65536
    <3> DEFINE q == s \div 65536
               t == (s % 65536) + (s \div 65536)
    <3>1. q \in Nat /\ q >= 1 /\ t \in Nat /\ s = t + 65535 * q /\ t >= 1
      BY <2>3, Divide
    <3> HIDE DEF q, t
    <3>2. (s - 1) % 65535 = (t - 1) % 65535
      <4>1. t - 1 \in Nat /\ s - 1 = (t - 1) + 65535 * q
        BY <3>1
      <4> QED
        BY <3>1, <4>1, SameRemainder
    <3>3. g[s] = g[t]
      BY <3>1, <3>2
    <3> QED
      BY <2>3, <3>3 DEF t
  <2> QED
    BY <2>1, <2>2, <2>3
<1>2. IsFold(g)
  <2> HIDE DEF g
  <2>1. g = [s \in Nat |-> g[s]]
    BY DEF g
  <2> QED
    BY <1>1, <2>1 DEF IsFold
<1> QED
  BY <1>2

LEMMA FoldRecurrence ==
    ASSUME NEW s \in Nat
    PROVE  Fold[s] = IF s < 65536 THEN s ELSE Fold[(s % 65536) + (s \div 65536)]
<1>1. IsFold(CHOOSE f : IsFold(f))
  BY FoldExists, Zenon
<1>2. Fold = CHOOSE f : IsFold(f)
  BY DEF Fold, IsFold, Round
<1>3. IsFold(Fold)
  BY <1>1, <1>2, Zenon
<1> QED
  BY <1>3 DEF IsFold, Round

(* Two rounds suffice for the sum of an IP header. *)
LEMMA FoldCongruent ==
    ASSUME NEW s \in Nat, s < 700000
    PROVE  /\ Fold[s] \in Nat /\ Fold[s] < 65536
           /\ \E k \in Nat : s = Fold[s] + 65535 * k
<1>1. CASE s < 65536
  <2>1. Fold[s] = s
    BY <1>1, FoldRecurrence, SMT
  <2>2. s = s + 65535 * 0
    BY SMT
  <2> QED
    BY <1>1, <2>1, <2>2, SMT
<1>2. CASE s >= 65536
  <2> DEFINE q == s \div 65536
             t == (s % 65536) + (s \div 65536)
  <2>1. q \in 1..15 /\ t \in Nat /\ t < 65551 /\ s = t + 65535 * q
    BY <1>2, Divide, SMT
  <2>2. Fold[s] = Fold[t]
    BY <1>2, FoldRecurrence, SMT
  <2> HIDE DEF q, t
  <2>3. CASE t < 65536
    <3>1. Fold[t] = t
      BY <2>1, <2>3, FoldRecurrence, SMT
    <3> QED
      BY <2>1, <2>2, <2>3, <3>1, SMT
  <2>4. CASE t >= 65536
    <3> DEFINE u == (t % 65536) + (t \div 65536)
    <3>1. u = t - 65535 /\ u \in 1..15
      BY <2>1, <2>4, SMT
    <3>2. Fold[t] = Fold[u]
      BY <2>1, <2>4, FoldRecurrence, SMT
    <3> HIDE DEF u
    <3>3. Fold[u] = u
      BY <3>1, FoldRecurrence, SMT
    <3>4. s = Fold[s] + 65535 * (q + 1) /\ q + 1 \in Nat
      BY <2>1, <2>2, <3>1, <3>2, <3>3, SMT
    <3> QED
      BY <2>2, <3>1, <3>2, <3>3, <3>4, SMT
  <2> QED
    BY <2>1, <2>3, <2>4, SMT
<1> QED
  BY <1>1, <1>2, SMT

(* The recursion of WordSum. *)
SumStep(f, data, i) ==
    IF i = 0 THEN 0
    ELSE f[i - 1] + 256 * data[2 * i - 1] + (IF 2 * i > Len(data) THEN 0 ELSE data[2 * i])
IsSum(f, n, data) == f = [i \in 0..n |-> SumStep(f, data, i)]

LEMMA SumExists ==
    ASSUME NEW n \in Nat, NEW data
    PROVE  \E f : IsSum(f, n, data)
<1> DEFINE Bad == {m \in 0..n : ~ \E f : IsSum(f, m, data)}
<1> SUFFICES ASSUME Bad # {} PROVE FALSE
  <2>1. n \in 0..n
    OBVIOUS
  <2> QED
    BY <2>1, Zenon
<1>1. PICK m \in Bad : \A y \in Bad : m <= y
  <2>1. Bad \subseteq Nat
    OBVIOUS
  <2> HIDE DEF Bad
  <2> QED
    BY <2>1, LeastNumber
<1>2. CASE m = 0
  <2>1. IsSum([i \in 0..0 |-> 0], 0, data)
    BY DEF IsSum, SumStep
  <2> QED
    BY <1>1, <1>2, <2>1
<1>3. CASE m > 0
  <2>1. m - 1 \in 0..n /\ m - 1 \notin Bad
    BY <1>1, <1>3
  <2>2. PICK f : IsSum(f, m - 1, data)
    BY <2>1
  <2> DEFINE g == [i \in 0..m |-> IF i = m THEN SumStep(f, data, m) ELSE f[i]]
  <2>3. \A i \in 0..m : g[i] = IF i = m THEN SumStep(f, data, m) ELSE f[i]
    OBVIOUS
  <2>4. \A i \in 0..(m - 1) : f[i] = SumStep(f, data, i)
    BY <2>2 DEF IsSum
  <2>5. DOMAIN g = 0..m /\ g = [i \in 0..m |-> g[i]]
    OBVIOUS
  <2> HIDE DEF g
  <2>6. ASSUME NEW i \in 0..m
        PROVE  SumStep(g, data, i) = SumStep(f, data, i)
    <3>1. CASE i = 0
      BY <3>1 DEF SumStep
    <3>2. CASE i # 0
      <4>1. g[i - 1] = f[i - 1]
        BY <1>1, <1>3, <2>3, <3>2
      <4> QED
        BY <3>2, <4>1 DEF SumStep
    <3> QED
      BY <3>1, <3>2
  <2>7. ASSUME NEW i \in 0..m
        PROVE  g[i] = SumStep(g, data, i)
    <3>1. CASE i = m
      BY <2>3, <2>6, <3>1
    <3>2. CASE i # m
      <4>1. i \in 0..(m - 1)
        BY <1>1, <3>2
      <4> QED
        BY <2>3, <2>4, <2>6, <3>2, <4>1
    <3> QED
      BY <3>1, <3>2
  <2>8. IsSum(g, m, data)
    BY <2>5, <2>7 DEF IsSum
  <2> QED
    BY <1>1, <2>8
<1> QED
  BY <1>1, <1>2, <1>3

LEMMA SumRecurrence ==
    ASSUME NEW data, (Len(data) + 1) \div 2 \in Nat
    PROVE  \E f : /\ WordSum(data) = f[(Len(data) + 1) \div 2]
                  /\ \A i \in 0..((Len(data) + 1) \div 2) : f[i] = SumStep(f, data, i)
<1> DEFINE n == (Len(data) + 1) \div 2
           f == CHOOSE h : IsSum(h, n, data)
<1>1. IsSum(f, n, data)
  <2> HIDE DEF n
  <2> QED
    BY SumExists, Zenon DEF n
<1>2. WordSum(data) = f[n]
  BY DEF WordSum, IsSum, SumStep
<1> HIDE DEF f, n
<1>3. \A i \in 0..n : f[i] = SumStep(f, data, i)
  BY <1>1 DEF IsSum
<1> QED
  BY <1>2, <1>3 DEF n

LEMMA ElementIn ==
    ASSUME NEW S, NEW s \in Seq(S), NEW i \in Nat, i >= 1, i <= Len(s)
    PROVE  s[i] \in S
  OBVIOUS

LEMMA ByteBounds ==
    ASSUME NEW x \in 0..255
    PROVE  x \in Nat /\ x < 256
  BY SMT

(* One word more, of two sums that differ by c. *)
LEMMA SameWord ==
    ASSUME NEW x \in Nat, x < 256, NEW y \in Nat, y < 256, NEW c \in Nat, NEW m \in Nat,
           NEW f0 \in Nat, f0 <= m, NEW g0, g0 = f0 + c,
           NEW f1, f1 = f0 + 256 * x + y, NEW g1, g1 = g0 + 256 * x + y
    PROVE  f1 \in Nat /\ f1 <= m + 65535 /\ g1 = f1 + c
  BY SMT

(* The two headers differ in their sixth word at most, and d has a zero there. *)
OnlyChecksum(d, e) ==
    /\ \A k \in Nat : k >= 1 /\ k <= 20 /\ k # 11 /\ k # 12 => e[k] = d[k]
    /\ d[11] = 0 /\ d[12] = 0

(* The bytes of a header, and the bytes it has while its checksum, the     *)
(* sixth word, is zero.                                                    *)
LEMMA HeaderSums ==
    ASSUME NEW d \in Seq(0..255), NEW e \in Seq(0..255), Len(d) = 20, Len(e) = 20,
           OnlyChecksum(d, e)
    PROVE  /\ WordSum(d) \in Nat
           /\ WordSum(d) <= 655350
           /\ WordSum(e) = WordSum(d) + 256 * e[11] + e[12]
<1> DEFINE n == (Len(d) + 1) \div 2
           c == 256 * e[11] + e[12]
<1>1. n = 10 /\ (Len(e) + 1) \div 2 = n
  OBVIOUS
<1> HIDE DEF n
<1>2. PICK f : WordSum(d) = f[n] /\ \A i \in 0..n : f[i] = SumStep(f, d, i)
  <2>1. (Len(d) + 1) \div 2 \in Nat
    BY <1>1 DEF n
  <2> QED
    BY <2>1, SumRecurrence, Zenon DEF n
<1>3. PICK g : WordSum(e) = g[n] /\ \A i \in 0..n : g[i] = SumStep(g, e, i)
  <2>1. (Len(e) + 1) \div 2 \in Nat
    BY <1>1
  <2>2. PICK g : /\ WordSum(e) = g[(Len(e) + 1) \div 2]
                 /\ \A i \in 0..((Len(e) + 1) \div 2) : g[i] = SumStep(g, e, i)
    BY <2>1, SumRecurrence, Zenon
  <2> QED
    BY <1>1, <2>2, Zenon
<1>4. \A i \in Nat : i <= 10 => f[i] = SumStep(f, d, i) /\ g[i] = SumStep(g, e, i)
  <2>1. \A i \in Nat : i <= 10 => i \in 0..n
    BY <1>1
  <2> QED
    BY <1>2, <1>3, <2>1, Zenon
<1>5. f[0] = 0 /\ g[0] = 0
  BY <1>4 DEF SumStep
<1>6. ASSUME NEW i \in Nat, i <= 9
      PROVE  /\ f[i + 1] = f[i] + 256 * d[2 * i + 1] + d[2 * i + 2]
             /\ g[i + 1] = g[i] + 256 * e[2 * i + 1] + e[2 * i + 2]
  <2> DEFINE j == i + 1
  <2>1. /\ j # 0 /\ ~ (2 * j > Len(d)) /\ ~ (2 * j > Len(e)) /\ j - 1 = i
        /\ 2 * j - 1 = 2 * i + 1 /\ 2 * j = 2 * i + 2
    BY <1>6
  <2>2. f[j] = SumStep(f, d, j) /\ g[j] = SumStep(g, e, j)
    BY <1>4, <1>6
  <2> HIDE DEF j
  <2>3. f[j] = f[j - 1] + 256 * d[2 * j - 1] + d[2 * j]
    BY <2>1, <2>2 DEF SumStep
  <2>4. g[j] = g[j - 1] + 256 * e[2 * j - 1] + e[2 * j]
    BY <2>1, <2>2 DEF SumStep
  <2> QED
    BY <2>1, <2>3, <2>4, Zenon DEF j
<1>7. ASSUME NEW k \in Nat, k >= 1, k <= 20
      PROVE  d[k] \in Nat /\ d[k] < 256 /\ e[k] \in Nat /\ e[k] < 256
  <2>1. d[k] \in 0..255 /\ e[k] \in 0..255
    BY <1>7, ElementIn
  <2> QED
    BY <2>1, ByteBounds
<1>8. /\ c \in Nat
      /\ \A k \in Nat : k >= 1 /\ k <= 20 /\ k # 11 /\ k # 12 => e[k] = d[k]
      /\ d[11] = 0 /\ d[12] = 0
  BY <1>7 DEF OnlyChecksum
<1> HIDE DEF c
<1>9. ASSUME NEW i \in Nat, i <= 9, i # 5, NEW m \in Nat, NEW x \in Nat,
             f[i] \in Nat, f[i] <= m, g[i] = f[i] + x
      PROVE  f[i + 1] \in Nat /\ f[i + 1] <= m + 65535 /\ g[i + 1] = f[i + 1] + x
  <2>1. /\ 2 * i + 1 \in Nat /\ 2 * i + 1 >= 1 /\ 2 * i + 1 <= 20
        /\ 2 * i + 2 \in Nat /\ 2 * i + 2 >= 1 /\ 2 * i + 2 <= 20
        /\ 2 * i + 1 # 11 /\ 2 * i + 1 # 12 /\ 2 * i + 2 # 11 /\ 2 * i + 2 # 12
    BY <1>9
  <2>2. e[2 * i + 1] = d[2 * i + 1] /\ e[2 * i + 2] = d[2 * i + 2]
    BY <1>8, <2>1
  <2>3. /\ d[2 * i + 1] \in Nat /\ d[2 * i + 1] < 256
        /\ d[2 * i + 2] \in Nat /\ d[2 * i + 2] < 256
    BY <1>7, <2>1
  <2> DEFINE u == d[2 * i + 1]
             v == d[2 * i + 2]
             f0 == f[i]
             f1 == f[i + 1]
             g0 == g[i]
             g1 == g[i + 1]
  <2>4. f1 = f0 + 256 * u + v /\ g1 = g0 + 256 * u + v
    <3>1. f1 = f0 + 256 * u + v /\ g1 = g0 + 256 * e[2 * i + 1] + e[2 * i + 2]
      BY <1>6, <1>9
    <3> QED
      BY <2>2, <3>1
  <2>5. /\ u \in Nat /\ u < 256 /\ v \in Nat /\ v < 256
        /\ f0 \in Nat /\ f0 <= m /\ g0 = f0 + x
    BY <1>9, <2>3, Zenon
  <2> HIDE DEF u, v, f0, f1, g0, g1
  <2>6. f1 \in Nat /\ f1 <= m + 65535 /\ g1 = f1 + x
    BY <2>4, <2>5, SameWord
  <2> QED
    BY <2>6 DEF f1, g1
<1>10. f[1] \in Nat /\ f[1] <= 65535 /\ g[1] = f[1] + 0
  BY <1>5, <1>9, SMT
<1>11. f[2] \in Nat /\ f[2] <= 131070 /\ g[2] = f[2] + 0
  BY <1>9, <1>10, SMT
<1>12. f[3] \in Nat /\ f[3] <= 196605 /\ g[3] = f[3] + 0
  BY <1>9, <1>11, SMT
<1>13. f[4] \in Nat /\ f[4] <= 262140 /\ g[4] = f[4] + 0
  BY <1>9, <1>12, SMT
<1>14. f[5] \in Nat /\ f[5] <= 327675 /\ g[5] = f[5] + 0
  BY <1>9, <1>13, SMT
<1>15. f[6] \in Nat /\ f[6] <= 393210 /\ g[6] = f[6] + c
  <2> DEFINE u == e[11]
             v == e[12]
             f0 == f[5]
             f1 == f[6]
             g0 == g[5]
             g1 == g[6]
  <2>1. f1 = f0 + 256 * 0 + 0 /\ g1 = g0 + 256 * u + v
    BY <1>6, <1>8
  <2>2. u \in Nat /\ v \in Nat /\ c = 256 * u + v
    BY <1>7 DEF c
  <2>3. f0 \in Nat /\ f0 <= 327675 /\ g0 = f0 + 0
    BY <1>14
  <2> HIDE DEF u, v, f0, f1, g0, g1
  <2>4. f1 \in Nat /\ f1 <= 393210 /\ g1 = f1 + c
    BY <2>1, <2>2, <2>3, SMT
  <2> QED
    BY <2>4 DEF f1, g1
<1>16. f[7] \in Nat /\ f[7] <= 458745 /\ g[7] = f[7] + c
  BY <1>8, <1>9, <1>15, SMT
<1>17. f[8] \in Nat /\ f[8] <= 524280 /\ g[8] = f[8] + c
  BY <1>8, <1>9, <1>16, SMT
<1>18. f[9] \in Nat /\ f[9] <= 589815 /\ g[9] = f[9] + c
  BY <1>8, <1>9, <1>17, SMT
<1>19. f[10] \in Nat /\ f[10] <= 655350 /\ g[10] = f[10] + c
  BY <1>8, <1>9, <1>18, SMT
<1>20. WordSum(d) \in Nat /\ WordSum(d) <= 655350 /\ WordSum(e) = WordSum(d) + c
  BY <1>1, <1>2, <1>3, <1>19, SMT
<1> QED
  BY <1>7, <1>20, SMT DEF c

-----------------------------------------------------------------------------
(* The bytes of an IP header. *)

(* r is s followed by t. *)
Joined(r, s, t, S) ==
    /\ r \in Seq(S)
    /\ Len(r) = Len(s) + Len(t)
    /\ \A i \in Nat : i >= 1 /\ i <= Len(s) => r[i] = s[i]
    /\ \A i \in Nat : i >= 1 /\ i <= Len(t) => r[Len(s) + i] = t[i]

LEMMA ConcatAt ==
    ASSUME NEW S, NEW s \in Seq(S), NEW t \in Seq(S)
    PROVE  Joined(s \o t, s, t, S)
  BY DEF Joined

(* A 16-bit number is the word its two bytes are read as. *)
LEMMA Be16 ==
    ASSUME NEW n \in Nat, n < 65536
    PROVE  /\ be16(n) \in Seq(0..255) /\ Len(be16(n)) = 2
           /\ be16(n)[1] \in Nat /\ be16(n)[2] \in Nat
           /\ 256 * be16(n)[1] + be16(n)[2] = n
<1> DEFINE h == n \div 256
           l == n % 256
<1>1. h \in Nat /\ h < 256 /\ l \in Nat /\ l < 256 /\ 256 * h + l = n
  BY SMT
<1>2. h \in 0..255 /\ l \in 0..255
  BY <1>1, SMT
<1>3. be16(n) = <<h, l>>
  BY DEF be16
<1> HIDE DEF h, l
<1> QED
  BY <1>1, <1>2, <1>3

(* Two headers that differ in their checksum differ in bytes 11 and 12. *)
LEMMA HeaderBytes ==
    ASSUME NEW len \in Nat, len < 65536, NEW cksum \in Nat, cksum < 65536,
           NEW src \in Ipv4Addr, NEW dst \in Ipv4Addr
    PROVE  LET h == ip_header(len, cksum, src, dst)
               z == ip_header(len, 0, src, dst)
           IN  /\ h \in Seq(0..255) /\ Len(h) = 20
               /\ z \in Seq(0..255) /\ Len(z) = 20
               /\ OnlyChecksum(z, h)
               /\ h[11] = be16(cksum)[1] /\ h[12] = be16(cksum)[2]
               /\ SubSeq(h, 3, 4) = be16(len)
<1> DEFINE B == 0..255
           a == <<69, 0>>
           b == be16(len)
           c == <<0, 0, 64, 0, 128, 17>>
           d == be16(cksum)
           o == be16(0)
           p == a \o b
           q == p \o c
           h1 == q \o d
           z1 == q \o o
           h2 == h1 \o src
           z2 == z1 \o src
           h == h2 \o dst
           z == z2 \o dst
<1>1. h = ip_header(len, cksum, src, dst) /\ z = ip_header(len, 0, src, dst)
  BY DEF ip_header
<1>2. a \in Seq(B) /\ Len(a) = 2
  OBVIOUS
<1>3. c \in Seq(B) /\ Len(c) = 6
  OBVIOUS
<1>4. b \in Seq(B) /\ Len(b) = 2 /\ d \in Seq(B) /\ Len(d) = 2
  BY Be16
<1>5. o \in Seq(B) /\ Len(o) = 2 /\ o[1] = 0 /\ o[2] = 0
  BY DEF be16
<1>6. src \in Seq(B) /\ Len(src) = 4 /\ dst \in Seq(B) /\ Len(dst) = 4
  BY DEF Ipv4Addr
<1> HIDE DEF a, b, c, d, o, p, q, h1, z1, h2, z2, h, z, B
<1>7. Joined(p, a, b, B)
  BY <1>2, <1>4, ConcatAt DEF p
<1>8. p \in Seq(B) /\ Len(p) = 4 /\ p[3] = b[1] /\ p[4] = b[2]
  BY <1>2, <1>4, <1>7 DEF Joined
<1>9. Joined(q, p, c, B)
  BY <1>3, <1>8, ConcatAt DEF q
<1>10. q \in Seq(B) /\ Len(q) = 10 /\ q[3] = b[1] /\ q[4] = b[2]
  BY <1>3, <1>8, <1>9 DEF Joined
<1>11. Joined(h1, q, d, B) /\ Joined(z1, q, o, B)
  BY <1>4, <1>5, <1>10, ConcatAt DEF h1, z1
<1>12. /\ h1 \in Seq(B) /\ Len(h1) = 12 /\ z1 \in Seq(B) /\ Len(z1) = 12
       /\ h1[11] = d[1] /\ h1[12] = d[2] /\ z1[11] = 0 /\ z1[12] = 0
  BY <1>4, <1>5, <1>10, <1>11 DEF Joined
<1>13. \A k \in Nat : k >= 1 /\ k <= 10 => h1[k] = q[k] /\ z1[k] = q[k]
  BY <1>10, <1>11 DEF Joined
<1>14. Joined(h2, h1, src, B) /\ Joined(z2, z1, src, B)
  BY <1>6, <1>12, ConcatAt DEF h2, z2
<1>15. h2 \in Seq(B) /\ Len(h2) = 16 /\ z2 \in Seq(B) /\ Len(z2) = 16
  BY <1>6, <1>12, <1>14 DEF Joined
<1>16. /\ \A k \in Nat : k >= 1 /\ k <= 12 => h2[k] = h1[k] /\ z2[k] = z1[k]
       /\ \A k \in Nat : k >= 1 /\ k <= 4 => h2[12 + k] = src[k] /\ z2[12 + k] = src[k]
  BY <1>6, <1>12, <1>14 DEF Joined
<1>17. Joined(h, h2, dst, B) /\ Joined(z, z2, dst, B)
  BY <1>6, <1>15, ConcatAt DEF h, z
<1>18. h \in Seq(B) /\ Len(h) = 20 /\ z \in Seq(B) /\ Len(z) = 20
  BY <1>6, <1>15, <1>17 DEF Joined
<1>19. /\ \A k \in Nat : k >= 1 /\ k <= 16 => h[k] = h2[k] /\ z[k] = z2[k]
       /\ \A k \in Nat : k >= 1 /\ k <= 4 => h[16 + k] = dst[k] /\ z[16 + k] = dst[k]
  BY <1>6, <1>15, <1>17 DEF Joined
<1>20. ASSUME NEW k \in Nat, k >= 1, k <= 20, k # 11, k # 12
       PROVE  h[k] = z[k]
  <2>1. CASE k <= 10
    BY <1>13, <1>16, <1>19, <1>20, <2>1
  <2>2. CASE k > 12 /\ k <= 16
    <3>1. k - 12 \in Nat /\ k - 12 >= 1 /\ k - 12 <= 4 /\ 12 + (k - 12) = k
      BY <2>2
    <3>2. h2[k] = z2[k]
      BY <1>16, <3>1
    <3> QED
      BY <1>19, <1>20, <2>2, <3>2
  <2>3. CASE k > 16
    <3>1. k - 16 \in Nat /\ k - 16 >= 1 /\ k - 16 <= 4 /\ 16 + (k - 16) = k
      BY <1>20, <2>3
    <3> QED
      BY <1>19, <3>1
  <2> QED
    BY <1>20, <2>1, <2>2, <2>3
<1>21. h[11] = d[1] /\ h[12] = d[2] /\ z[11] = 0 /\ z[12] = 0
  BY <1>12, <1>16, <1>19
<1>22. SubSeq(h, 3, 4) = b
  <2>1. h[3] = b[1] /\ h[4] = b[2]
    BY <1>10, <1>13, <1>16, <1>19
  <2> QED
    BY <1>4, <1>18, <2>1
<1> QED
  BY <1>1, <1>18, <1>20, <1>21, <1>22 DEF B, b, d, OnlyChecksum

(***************************************************************************)
(* A receiver that adds up the header build_l2_udp_frame has filled in,    *)
(* checksum included, gets zero in one's complement, for every length and  *)
(* every pair of addresses: ip_checksum folds all carries back.            *)
(***************************************************************************)
THEOREM ChecksumCloses ==
    ASSUME NEW len \in Nat, len < 65536, NEW src \in Ipv4Addr, NEW dst \in Ipv4Addr
    PROVE  LET cksum == ip_checksum(ip_header(len, 0, src, dst))
               h == ip_header(len, cksum, src, dst)
           IN  /\ Len(h) = 20
               /\ WordSum(h) % 65535 = 0
               /\ SubSeq(h, 3, 4) = be16(len)
<1> DEFINE z == ip_header(len, 0, src, dst)
           sum == WordSum(z)
           cksum == ip_checksum(z)
           h == ip_header(len, cksum, src, dst)
<1>0. 0 \in Nat /\ 0 < 65536
  BY SMT
<1>1. z \in Seq(0..255) /\ Len(z) = 20 /\ OnlyChecksum(z, z)
  <2> HIDE DEF cksum, h, sum
  <2>1. \A c \in Nat : c = 0 =>
           LET h0 == ip_header(len, c, src, dst)
           IN  z \in Seq(0..255) /\ Len(z) = 20 /\ OnlyChecksum(z, h0)
    BY HeaderBytes
  <2>2. z \in Seq(0..255) /\ Len(z) = 20 /\ OnlyChecksum(z, ip_header(len, 0, src, dst))
    <3> HIDE DEF z
    <3> QED
      BY <1>0, <2>1
  <2> QED
    BY <2>2
<1> HIDE DEF z
<1>2. sum \in Nat /\ sum <= 655350
  BY <1>1, HeaderSums
<1>3. cksum = 65535 - Fold[sum]
  BY DEF ip_checksum
<1> HIDE DEF sum
<1>4. PICK k \in Nat : Fold[sum] \in Nat /\ Fold[sum] < 65536 /\ sum = Fold[sum] + 65535 * k
  <2>1. sum < 700000
    BY <1>2, SMT
  <2>2. /\ Fold[sum] \in Nat /\ Fold[sum] < 65536
        /\ \E k \in Nat : sum = Fold[sum] + 65535 * k
    BY <1>2, <2>1, FoldCongruent, SMT
  <2> QED
    BY <2>2, SMT
<1>5. cksum \in Nat /\ cksum < 65536
  BY <1>3, <1>4, SMT
<1> HIDE DEF cksum
<1>6. /\ h \in Seq(0..255) /\ Len(h) = 20 /\ SubSeq(h, 3, 4) = be16(len)
      /\ OnlyChecksum(z, h) /\ h[11] = be16(cksum)[1] /\ h[12] = be16(cksum)[2]
  BY <1>5, HeaderBytes DEF z
<1> HIDE DEF h
<1>7. WordSum(h) = sum + 256 * h[11] + h[12]
  BY <1>1, <1>6, HeaderSums DEF sum
<1>8. /\ h[11] \in Nat /\ h[12] \in Nat /\ 256 * h[11] + h[12] = cksum
  <2>1. /\ be16(cksum)[1] \in Nat /\ be16(cksum)[2] \in Nat
        /\ 256 * be16(cksum)[1] + be16(cksum)[2] = cksum
    BY <1>5, Be16
  <2>2. h[11] = be16(cksum)[1] /\ h[12] = be16(cksum)[2]
    BY <1>6
  <2> HIDE <1>6
  <2> QED
    BY <2>1, <2>2
<1>9. WordSum(h) = 0 + 65535 * (k + 1)
  BY <1>2, <1>3, <1>4, <1>7, <1>8, SMT
<1>10. WordSum(h) % 65535 = 0
  BY <1>9, SameRemainder
<1> QED
  BY <1>6, <1>10 DEF h, cksum, z

-----------------------------------------------------------------------------
(* FlattenSeq: where each part begins. *)

FlatStep(f, seqs, i) == IF i = 1 THEN seqs[i] ELSE f[i - 1] \o seqs[i]
IsFlat(f, n, seqs) == f = [i \in 1..n |-> FlatStep(f, seqs, i)]

LEMMA FlatExists ==
    ASSUME NEW n \in Nat \ {0}, NEW seqs
    PROVE  \E f : IsFlat(f, n, seqs)
<1> DEFINE Bad == {m \in 1..n : ~ \E f : IsFlat(f, m, seqs)}
<1> SUFFICES ASSUME Bad # {} PROVE FALSE
  <2>1. n \in 1..n
    OBVIOUS
  <2> QED
    BY <2>1, Zenon
<1>1. PICK m \in Bad : \A y \in Bad : m <= y
  <2>1. Bad \subseteq Nat
    OBVIOUS
  <2> HIDE DEF Bad
  <2> QED
    BY <2>1, LeastNumber
<1>2. CASE m = 1
  <2>1. IsFlat([i \in 1..1 |-> seqs[1]], 1, seqs)
    BY DEF IsFlat, FlatStep
  <2> QED
    BY <1>1, <1>2, <2>1
<1>3. CASE m > 1
  <2>1. m - 1 \in 1..n /\ m - 1 \notin Bad
    BY <1>1, <1>3
  <2>2. PICK f : IsFlat(f, m - 1, seqs)
    BY <2>1
  <2> DEFINE g == [i \in 1..m |-> IF i = m THEN FlatStep(f, seqs, m) ELSE f[i]]
  <2>3. \A i \in 1..m : g[i] = IF i = m THEN FlatStep(f, seqs, m) ELSE f[i]
    OBVIOUS
  <2>4. \A i \in 1..(m - 1) : f[i] = FlatStep(f, seqs, i)
    BY <2>2 DEF IsFlat
  <2>5. DOMAIN g = 1..m /\ g = [i \in 1..m |-> g[i]]
    OBVIOUS
  <2> HIDE DEF g
  <2>6. ASSUME NEW i \in 1..m
        PROVE  FlatStep(g, seqs, i) = FlatStep(f, seqs, i)
    <3>1. CASE i = 1
      BY <3>1 DEF FlatStep
    <3>2. CASE i # 1
      <4>1. g[i - 1] = f[i - 1]
        BY <1>1, <1>3, <2>3, <3>2
      <4> QED
        BY <3>2, <4>1 DEF FlatStep
    <3> QED
      BY <3>1, <3>2
  <2>7. ASSUME NEW i \in 1..m
        PROVE  g[i] = FlatStep(g, seqs, i)
    <3>1. CASE i = m
      BY <2>3, <2>6, <3>1
    <3>2. CASE i # m
      <4>1. i \in 1..(m - 1)
        BY <1>1, <3>2
      <4> QED
        BY <2>3, <2>4, <2>6, <3>2, <4>1
    <3> QED
      BY <3>1, <3>2
  <2>8. IsFlat(g, m, seqs)
    BY <2>5, <2>7 DEF IsFlat
  <2> QED
    BY <1>1, <2>8
<1> QED
  BY <1>1, <1>2, <1>3

LEMMA FlatRecurrence ==
    ASSUME NEW seqs, Len(seqs) \in Nat, Len(seqs) # 0
    PROVE  \E f : /\ FlattenSeq(seqs) = f[Len(seqs)]
                  /\ \A i \in 1..Len(seqs) : f[i] = FlatStep(f, seqs, i)
<1> DEFINE n == Len(seqs)
           f == CHOOSE h : IsFlat(h, n, seqs)
<1>1. IsFlat(f, n, seqs)
  <2>1. n \in Nat \ {0}
    OBVIOUS
  <2> HIDE DEF n
  <2> QED
    BY <2>1, FlatExists, Zenon
<1>2. FlattenSeq(seqs) = f[n]
  BY DEF FlattenSeq, IsFlat, FlatStep
<1> HIDE DEF f, n
<1>3. \A i \in 1..n : f[i] = FlatStep(f, seqs, i)
  BY <1>1 DEF IsFlat
<1> QED
  BY <1>2, <1>3 DEF n

LEMMA JoinEmpty ==
    ASSUME NEW S, NEW s \in Seq(S)
    PROVE  Joined(s, <<>>, s, S)
  BY DEF Joined

(* The parts of the result up to each element. *)
LEMMA FlattenParts ==
    ASSUME NEW S, NEW seqs \in Seq(Seq(S))
    PROVE  \E g : /\ g[0] = <<>>
                  /\ FlattenSeq(seqs) = g[Len(seqs)]
                  /\ \A i \in 1..Len(seqs) : Joined(g[i], g[i - 1], seqs[i], S)
<1> DEFINE n == Len(seqs)
<1>0. n \in Nat /\ \A i \in 1..n : seqs[i] \in Seq(S)
  OBVIOUS
<1>1. CASE n = 0
  <2> DEFINE g == [i \in 0..0 |-> <<>>]
  <2>1. g[0] = <<>>
    OBVIOUS
  <2>2. FlattenSeq(seqs) = <<>>
    BY <1>1 DEF FlattenSeq
  <2>3. \A i \in 1..n : Joined(g[i], g[i - 1], seqs[i], S)
    BY <1>1
  <2> QED
    BY <1>1, <2>1, <2>2, <2>3
<1>2. CASE n # 0
  <2>1. PICK f : /\ FlattenSeq(seqs) = f[n]
                 /\ \A i \in 1..n : f[i] = FlatStep(f, seqs, i)
    BY <1>0, <1>2, FlatRecurrence
  <2> DEFINE g == [i \in 0..n |-> IF i = 0 THEN <<>> ELSE f[i]]
  <2>2. g[0] = <<>> /\ \A i \in 1..n : g[i] = f[i]
    BY <1>0
  <2> HIDE DEF g, n
  <2>3. ASSUME NEW i \in 1..n, g[i - 1] \in Seq(S)
        PROVE  Joined(g[i], g[i - 1], seqs[i], S)
    <3>1. g[i] = FlatStep(f, seqs, i) /\ seqs[i] \in Seq(S)
      BY <1>0, <2>1, <2>2
    <3>2. CASE i = 1
      <4>1. g[i] = seqs[i] /\ g[i - 1] = <<>>
        BY <2>2, <3>1, <3>2 DEF FlatStep
      <4>2. Joined(seqs[i], <<>>, seqs[i], S)
        BY <3>1, JoinEmpty
      <4> QED
        BY <4>1, <4>2
    <3>3. CASE i # 1
      <4>1. i - 1 \in 1..n
        BY <1>0, <3>3
      <4>2. g[i] = g[i - 1] \o seqs[i]
        BY <2>2, <3>1, <3>3, <4>1 DEF FlatStep
      <4> QED
        BY <2>3, <3>1, <4>2, ConcatAt
    <3> QED
      BY <3>2, <3>3
  <2>4. \A i \in 0..n : g[i] \in Seq(S)
    <3> DEFINE Bad == {i \in 0..n : g[i] \notin Seq(S)}
    <3> SUFFICES ASSUME Bad # {} PROVE FALSE
      OBVIOUS
    <3>1. PICK m \in Bad : \A y \in Bad : m <= y
      <4>1. Bad \subseteq Nat
        OBVIOUS
      <4> HIDE DEF Bad
      <4> QED
        BY <4>1, LeastNumber
    <3>2. m # 0
      <4>1. <<>> \in Seq(S)
        OBVIOUS
      <4>2. g[m] \notin Seq(S)
        BY <3>1
      <4> QED
        BY <2>2, <4>1, <4>2, Zenon
    <3>3. m \in 1..n /\ g[m - 1] \in Seq(S)
      BY <1>0, <3>1, <3>2
    <3>4. Joined(g[m], g[m - 1], seqs[m], S)
      BY <2>3, <3>3
    <3> QED
      BY <3>1, <3>4 DEF Joined
  <2>5. \A i \in 1..n : Joined(g[i], g[i - 1], seqs[i], S)
    BY <1>0, <2>3, <2>4
  <2>6. FlattenSeq(seqs) = g[n]
    BY <1>0, <1>2, <2>1, <2>2
  <2> QED
    BY <2>2, <2>5, <2>6 DEF n
<1> QED
  BY <1>1, <1>2

(* flat is the sequences seqs one after the other, and at[i] the length of *)
(* the first i of them.                                                    *)
Parts(flat, seqs, at, S) ==
    /\ flat \in Seq(S)
    /\ at[0] = 0
    /\ at[Len(seqs)] = Len(flat)
    /\ \A i \in 0..Len(seqs) : at[i] \in Nat /\ at[i] <= Len(flat)
    /\ \A i \in 1..Len(seqs) : at[i] = at[i - 1] + Len(seqs[i])
    /\ \A i \in 1..Len(seqs) :
          \A k \in Nat : k >= 1 /\ k <= Len(seqs[i]) => flat[at[i - 1] + k] = seqs[i][k]

IsPrefixPart(s, t) ==
    /\ Len(s) <= Len(t)
    /\ \A k \in Nat : k >= 1 /\ k <= Len(s) => t[k] = s[k]

LEMMA PrefixStep ==
    ASSUME NEW S, NEW r \in Seq(S), NEW s \in Seq(S), NEW t \in Seq(S), NEW u \in Seq(S),
           Joined(r, s, t, S), IsPrefixPart(r, u)
    PROVE  IsPrefixPart(s, u)
<1>1. Len(r) \in Nat /\ Len(s) \in Nat /\ Len(t) \in Nat /\ Len(u) \in Nat
  OBVIOUS
<1>2. Len(r) = Len(s) + Len(t)
  BY DEF Joined
<1>3. ASSUME NEW k \in Nat, k >= 1, k <= Len(s) PROVE u[k] = s[k]
  <2>1. r[k] = s[k]
    BY <1>3 DEF Joined
  <2>2. u[k] = r[k]
    BY <1>1, <1>2, <1>3 DEF IsPrefixPart
  <2> QED
    BY <2>1, <2>2
<1> QED
  BY <1>1, <1>2, <1>3 DEF IsPrefixPart

LEMMA FlattenAt ==
    ASSUME NEW S, NEW seqs \in Seq(Seq(S))
    PROVE  \E at : Parts(FlattenSeq(seqs), seqs, at, S)
<1> DEFINE n == Len(seqs)
           flat == FlattenSeq(seqs)
<1>1. n \in Nat /\ \A i \in 1..n : seqs[i] \in Seq(S)
  OBVIOUS
<1>2. PICK g : /\ g[0] = <<>>
               /\ flat = g[n]
               /\ \A i \in 1..n : Joined(g[i], g[i - 1], seqs[i], S)
  BY FlattenParts
<1> DEFINE at == [i \in 0..n |-> Len(g[i])]
<1> HIDE DEF n, flat
<1>3. ASSUME NEW i \in 0..n PROVE g[i] \in Seq(S)
  <2>1. CASE i = 0
    <3>1. <<>> \in Seq(S)
      OBVIOUS
    <3> QED
      BY <1>2, <2>1, <3>1
  <2>2. CASE i # 0
    <3>1. i \in 1..n
      BY <1>1, <2>2
    <3> QED
      BY <1>2, <3>1 DEF Joined
  <2> QED
    BY <2>1, <2>2
<1>4. n \in 0..n /\ 0 \in 0..n
  BY <1>1
<1>5. \A m \in 0..n : IsPrefixPart(g[n - m], flat)
  <2> DEFINE Bad == {m \in 0..n : ~ IsPrefixPart(g[n - m], flat)}
  <2> SUFFICES ASSUME Bad # {} PROVE FALSE
    OBVIOUS
  <2>1. PICK m \in Bad : \A y \in Bad : m <= y
    <3>1. Bad \subseteq Nat
      OBVIOUS
    <3> HIDE DEF Bad
    <3> QED
      BY <3>1, LeastNumber
  <2>2. flat \in Seq(S)
    BY <1>2, <1>3, <1>4
  <2>3. m # 0
    <3>1. IsPrefixPart(flat, flat)
      BY <2>2 DEF IsPrefixPart
    <3>2. n - 0 = n
      BY <1>1
    <3> QED
      BY <1>2, <2>1, <3>1, <3>2
  <2> DEFINE i == n - m
  <2>4. m - 1 \in 0..n /\ i \in 0..n /\ i + 1 \in 1..n /\ i + 1 \in 0..n /\ n - (m - 1) = i + 1
        /\ (i + 1) - 1 = i
    BY <1>1, <2>1, <2>3
  <2>5. m - 1 \notin Bad
    <3>1. ~ (m <= m - 1)
      BY <1>1, <2>1
    <3> HIDE DEF Bad
    <3> QED
      BY <2>1, <3>1
  <2>6. IsPrefixPart(g[i + 1], flat)
    BY <2>4, <2>5
  <2>7. Joined(g[i + 1], g[i], seqs[i + 1], S)
    BY <1>2, <2>4
  <2>8. IsPrefixPart(g[i], flat)
    BY <1>1, <1>3, <2>2, <2>4, <2>6, <2>7, PrefixStep
  <2> QED
    BY <2>1, <2>8
<1>6. \A i \in 0..n : at[i] = Len(g[i]) /\ at[i] \in Nat
  BY <1>3
<1> HIDE DEF at
<1>7. \A i \in 0..n : IsPrefixPart(g[i], flat)
  <2>1. \A i \in 0..n : n - i \in 0..n /\ n - (n - i) = i
    BY <1>1
  <2> QED
    BY <1>5, <2>1
<1>8. flat \in Seq(S)
  BY <1>2, <1>3, <1>4
<1>9. at[0] = 0
  <2>1. Len(<<>>) = 0
    OBVIOUS
  <2> QED
    BY <1>2, <1>4, <1>6, <2>1
<1>10. at[n] = Len(flat)
  BY <1>2, <1>4, <1>6
<1>11. ASSUME NEW i \in 0..n PROVE at[i] \in Nat /\ at[i] <= Len(flat)
  BY <1>6, <1>7 DEF IsPrefixPart
<1>12. ASSUME NEW i \in 1..n
       PROVE  /\ at[i] = at[i - 1] + Len(seqs[i])
              /\ \A k \in Nat : k >= 1 /\ k <= Len(seqs[i]) => flat[at[i - 1] + k] = seqs[i][k]
  <2>1. i \in 0..n /\ i - 1 \in 0..n
    BY <1>1
  <2>2. Joined(g[i], g[i - 1], seqs[i], S)
    BY <1>2
  <2>3. /\ at[i] = Len(g[i]) /\ at[i - 1] = Len(g[i - 1]) /\ at[i] \in Nat /\ at[i - 1] \in Nat
        /\ IsPrefixPart(g[i], flat)
    BY <1>6, <1>7, <2>1
  <2>4. at[i] = at[i - 1] + Len(seqs[i]) /\ Len(seqs[i]) \in Nat
    BY <1>1, <2>2, <2>3 DEF Joined
  <2>5. ASSUME NEW k \in Nat, k >= 1, k <= Len(seqs[i])
        PROVE  flat[at[i - 1] + k] = seqs[i][k]
    <3>1. g[i][Len(g[i - 1]) + k] = seqs[i][k]
      BY <2>2, <2>5 DEF Joined
    <3>2. at[i - 1] + k \in Nat /\ at[i - 1] + k >= 1 /\ at[i - 1] + k <= Len(g[i])
      BY <2>3, <2>4, <2>5
    <3>3. flat[at[i - 1] + k] = g[i][at[i - 1] + k]
      BY <2>3, <3>2 DEF IsPrefixPart
    <3> QED
      BY <2>3, <3>1, <3>3
  <2> QED
    BY <2>4, <2>5
<1>13. Parts(flat, seqs, at, S)
  BY <1>8, <1>9, <1>10, <1>11, <1>12 DEF Parts, n
<1> QED
  BY <1>13 DEF flat

-----------------------------------------------------------------------------
(* parse_options: the recursion, from the end of the data to its beginning. *)

IsParse(f, lo, data) == f = [i \in lo..(Len(data) + 1) |-> parse_at(f, data, i)]

(* A position is read with the help of later ones only. *)
LEMMA ParseLater ==
    ASSUME NEW data \in Seq(Nat), NEW f, NEW g, NEW i \in 1..(Len(data) + 1),
           \A j \in (i + 1)..(Len(data) + 1) : f[j] = g[j]
    PROVE  parse_at(f, data, i) = parse_at(g, data, i)
<1> DEFINE n == Len(data)
<1>1. n \in Nat /\ \A k \in 1..n : data[k] \in Nat
  OBVIOUS
<1>2. CASE i > n
  BY <1>2 DEF parse_at
<1>3. CASE i <= n /\ data[i] = 255
  BY <1>3 DEF parse_at
<1>4. CASE i <= n /\ data[i] = 0
  <2>1. f[i + 1] = g[i + 1]
    BY <1>1, <1>4
  <2> QED
    BY <1>4, <2>1 DEF parse_at
<1>5. CASE i = n /\ data[i] \notin {0, 255}
  BY <1>5 DEF parse_at
<1>6. CASE i < n /\ data[i] \notin {0, 255}
  <2> DEFINE next == i + 2 + data[i + 1]
             one == parse_option(data[i], SubSeq(data, i + 2, next - 1))
  <2>1. data[i + 1] \in Nat
    BY <1>1, <1>6
  <2>2. next \in Nat /\ next > i
    BY <2>1
  <2>3. ASSUME ~ (next - 1 > n) PROVE f[next] = g[next]
    <3>1. next \in (i + 1)..(n + 1)
      BY <1>1, <2>2, <2>3
    <3> HIDE DEF next
    <3> QED
      BY <3>1
  <2>4. /\ parse_at(f, data, i) = IF next - 1 > n THEN <<>> ELSE <<one>> \o f[next]
        /\ parse_at(g, data, i) = IF next - 1 > n THEN <<>> ELSE <<one>> \o g[next]
    BY <1>6 DEF parse_at
  <2> HIDE DEF next, one
  <2> QED
    BY <2>3, <2>4
<1> QED
  BY <1>1, <1>2, <1>3, <1>4, <1>5, <1>6

LEMMA ParseExists ==
    ASSUME NEW data \in Seq(Nat)
    PROVE  \E f : IsParse(f, 1, data)
<1> DEFINE n == Len(data)
           Bad == {m \in 0..n : ~ \E f : IsParse(f, n + 1 - m, data)}
<1>0. n \in Nat
  OBVIOUS
<1> SUFFICES ASSUME Bad # {} PROVE FALSE
  <2>1. n \in 0..n /\ n + 1 - n = 1
    BY <1>0
  <2> QED
    BY <2>1
<1>1. PICK m \in Bad : \A y \in Bad : m <= y
  <2>1. Bad \subseteq Nat
    OBVIOUS
  <2> HIDE DEF Bad
  <2> QED
    BY <2>1, LeastNumber
<1>2. CASE m = 0
  <2> DEFINE g == [i \in (n + 1)..(n + 1) |-> <<>>]
  <2>1. \A i \in (n + 1)..(n + 1) : parse_at(g, data, i) = <<>>
    <3> HIDE DEF g
    <3> QED
      BY <1>0 DEF parse_at
  <2>2. IsParse(g, n + 1, data)
    BY <2>1 DEF IsParse
  <2>3. n + 1 - 0 = n + 1
    BY <1>0
  <2> QED
    BY <1>1, <1>2, <2>2, <2>3
<1>3. CASE m > 0
  <2> DEFINE lo == n + 1 - m
  <2>1. m \in 1..n /\ lo \in 1..n /\ n + 1 - (m - 1) = lo + 1
    BY <1>0, <1>1, <1>3
  <2>2. m - 1 \in 0..n /\ ~ (m <= m - 1)
    BY <1>0, <2>1
  <2>3. m - 1 \notin Bad
    <3> HIDE DEF Bad
    <3> QED
      BY <1>1, <2>2
  <2>4. PICK f : IsParse(f, lo + 1, data)
    BY <2>1, <2>2, <2>3
  <2> HIDE DEF lo
  <2> DEFINE g == [i \in lo..(n + 1) |-> IF i = lo THEN parse_at(f, data, lo) ELSE f[i]]
  <2>5. \A i \in lo..(n + 1) : g[i] = IF i = lo THEN parse_at(f, data, lo) ELSE f[i]
    OBVIOUS
  <2>6. \A i \in (lo + 1)..(n + 1) : f[i] = parse_at(f, data, i)
    BY <2>4 DEF IsParse
  <2>7. g = [i \in lo..(n + 1) |-> g[i]]
    OBVIOUS
  <2> HIDE DEF g
  <2>8. \A i \in (lo + 1)..(n + 1) : g[i] = f[i]
    <3>1. \A i \in (lo + 1)..(n + 1) : i \in lo..(n + 1) /\ i # lo
      BY <1>0, <2>1
    <3> QED
      BY <2>5, <3>1, Zenon
  <2>9. ASSUME NEW i \in lo..(n + 1)
        PROVE  g[i] = parse_at(g, data, i)
    <3>1. i \in 1..(n + 1) /\ \A j \in (i + 1)..(n + 1) : g[j] = f[j]
      BY <1>0, <2>1, <2>8
    <3>2. parse_at(g, data, i) = parse_at(f, data, i)
      BY <3>1, ParseLater
    <3>3. CASE i = lo
      BY <2>5, <3>2, <3>3
    <3>4. CASE i # lo
      <4>1. i \in (lo + 1)..(n + 1)
        BY <1>0, <2>1, <3>4
      <4> QED
        BY <2>6, <2>8, <3>2, <4>1
    <3> QED
      BY <3>3, <3>4
  <2>10. IsParse(g, lo, data)
    BY <2>7, <2>9 DEF IsParse
  <2> QED
    BY <1>1, <2>10 DEF lo
<1> QED
  BY <1>0, <1>1, <1>2, <1>3

LEMMA ParseRecurrence ==
    ASSUME NEW data \in Seq(Nat)
    PROVE  \E f : /\ parse_options(data) = f[1]
                  /\ \A i \in 1..(Len(data) + 1) : f[i] = parse_at(f, data, i)
<1> DEFINE f == CHOOSE h : IsParse(h, 1, data)
<1>1. IsParse(f, 1, data)
  BY ParseExists, Zenon
<1>2. parse_options(data) = f[1]
  BY DEF parse_options, IsParse
<1> HIDE DEF f
<1>3. \A i \in 1..(Len(data) + 1) : f[i] = parse_at(f, data, i)
  BY <1>1 DEF IsParse
<1> QED
  BY <1>2, <1>3

(* The options that can be read out of the data. *)
Readings(data) ==
    {End} \cup {parse_option(data[i], SubSeq(data, j, k)) : i \in Nat, j \in Nat, k \in Int}

LEMMA ParseTypedStep ==
    ASSUME NEW data \in Seq(Nat), NEW f, NEW i \in 1..(Len(data) + 1),
           \A j \in (i + 1)..(Len(data) + 1) : f[j] \in Seq(Readings(data))
    PROVE  parse_at(f, data, i) \in Seq(Readings(data))
<1> DEFINE n == Len(data)
           T == Readings(data)
<1>1. n \in Nat /\ \A k \in 1..n : data[k] \in Nat
  OBVIOUS
<1>2. <<>> \in Seq(T)
  OBVIOUS
<1>3. CASE i > n
  BY <1>2, <1>3 DEF parse_at
<1>4. CASE i <= n /\ data[i] = 255
  <2>1. End \in T
    BY DEF Readings
  <2>2. parse_at(f, data, i) = <<End>>
    BY <1>4 DEF parse_at
  <2> HIDE DEF T
  <2> QED
    BY <2>1, <2>2 DEF T
<1>5. CASE i <= n /\ data[i] = 0
  <2>1. f[i + 1] \in Seq(T)
    BY <1>1, <1>5
  <2> QED
    BY <1>5, <2>1 DEF parse_at
<1>6. CASE i = n /\ data[i] \notin {0, 255}
  BY <1>2, <1>6 DEF parse_at
<1>7. CASE i < n /\ data[i] \notin {0, 255}
  <2> DEFINE next == i + 2 + data[i + 1]
             one == parse_option(data[i], SubSeq(data, i + 2, next - 1))
  <2>1. data[i + 1] \in Nat
    BY <1>1, <1>7
  <2>2. next \in Nat /\ next > i /\ next - 1 \in Int /\ i + 2 \in Nat /\ i \in Nat
    BY <2>1
  <2>3. parse_at(f, data, i) = IF next - 1 > n THEN <<>> ELSE <<one>> \o f[next]
    BY <1>7 DEF parse_at
  <2>4. one \in T
    <3> HIDE DEF next
    <3> QED
      BY <2>2 DEF Readings
  <2> HIDE DEF next, one, T
  <2>5. CASE next - 1 > n
    BY <1>2, <2>3, <2>5 DEF T
  <2>6. CASE ~ (next - 1 > n)
    <3>1. next \in (i + 1)..(n + 1)
      BY <1>1, <2>2, <2>6
    <3>2. f[next] \in Seq(T)
      BY <3>1 DEF T
    <3>3. <<one>> \o f[next] \in Seq(T)
      BY <2>4, <3>2
    <3> QED
      BY <2>3, <2>6, <3>3 DEF T
  <2> QED
    BY <2>5, <2>6
<1> QED
  BY <1>1, <1>3, <1>4, <1>5, <1>6, <1>7

LEMMA ParseTyped ==
    ASSUME NEW data \in Seq(Nat), NEW f,
           \A i \in 1..(Len(data) + 1) : f[i] = parse_at(f, data, i)
    PROVE  \A i \in 1..(Len(data) + 1) : f[i] \in Seq(Readings(data))
<1> DEFINE n == Len(data)
           T == Readings(data)
           Bad == {m \in 0..n : f[n + 1 - m] \notin Seq(T)}
<1>0. n \in Nat
  OBVIOUS
<1> SUFFICES ASSUME Bad # {} PROVE FALSE
  <2>1. \A i \in 1..(n + 1) : n + 1 - i \in 0..n /\ n + 1 - (n + 1 - i) = i
    BY <1>0
  <2> QED
    BY <2>1
<1>1. PICK m \in Bad : \A y \in Bad : m <= y
  <2>1. Bad \subseteq Nat
    OBVIOUS
  <2> HIDE DEF Bad
  <2> QED
    BY <2>1, LeastNumber
<1> DEFINE i == n + 1 - m
<1>2. i \in 1..(n + 1) /\ m \in 0..n
  BY <1>0, <1>1
<1>3. ASSUME NEW j \in (i + 1)..(n + 1) PROVE f[j] \in Seq(T)
  <2>1. n + 1 - j \in 0..n /\ n + 1 - (n + 1 - j) = j /\ ~ (m <= n + 1 - j)
    BY <1>0, <1>2
  <2>2. n + 1 - j \notin Bad
    <3> HIDE DEF Bad
    <3> QED
      BY <1>1, <2>1
  <2> QED
    BY <2>1, <2>2
<1>4. f[i] \in Seq(T)
  <2> HIDE DEF i
  <2>1. parse_at(f, data, i) \in Seq(T)
    BY <1>2, <1>3, ParseTypedStep
  <2> QED
    BY <1>2, <2>1
<1> QED
  BY <1>1, <1>4

-----------------------------------------------------------------------------
(* What is written is read back. *)

(* The option reads back from its code and data, whatever its length. *)
Wellformed(o) ==
    /\ o.kind # "End"
    /\ Encoded(o)[1] \in Nat \ {0, 255}
    /\ Encoded(o)[2] \in Seq(Nat)
    /\ parse_option(Encoded(o)[1], Encoded(o)[2]) = o

LEMMA OptionBytes ==
    ASSUME NEW o, Wellformed(o)
    PROVE  LET c == Encoded(o)[1]
               d == Encoded(o)[2]
               e == option_to_bytes(o)
           IN  /\ e \in Seq(Nat) /\ Len(e) = 2 + Len(d)
               /\ e[1] = c /\ e[2] = Len(d) % 256
               /\ \A k \in Nat : k >= 1 /\ k <= Len(d) => e[2 + k] = d[k]
<1> DEFINE c == Encoded(o)[1]
           d == Encoded(o)[2]
           h == <<c, Len(d) % 256>>
           e == option_to_bytes(o)
<1>1. c \in Nat /\ d \in Seq(Nat) /\ e = h \o d
  BY DEF Wellformed, option_to_bytes
<1> HIDE DEF c, d, e
<1>2. Len(d) % 256 \in Nat
  BY <1>1
<1>3. h \in Seq(Nat) /\ Len(h) = 2 /\ h[1] = c /\ h[2] = Len(d) % 256
  BY <1>1, <1>2
<1> HIDE DEF h
<1>4. Joined(e, h, d, Nat)
  BY <1>1, <1>3, ConcatAt
<1>5. /\ e \in Seq(Nat) /\ Len(e) = 2 + Len(d) /\ e[1] = c /\ e[2] = Len(d) % 256
      /\ \A k \in Nat : k >= 1 /\ k <= Len(d) => e[2 + k] = d[k]
  BY <1>3, <1>4 DEF Joined
<1> QED
  BY <1>5 DEF c, d, e

LEMMA OneByte ==
    ASSUME NEW x \in Nat, x <= 255
    PROVE  x % 256 = x
  BY SMT

LEMMA SameSeq ==
    ASSUME NEW S, NEW s \in Seq(S), NEW t \in Seq(S), Len(s) = Len(t),
           \A k \in 1..Len(t) : s[k] = t[k]
    PROVE  s = t
  OBVIOUS

(* f is what parse_options computes from each position of data on. *)
Parses(f, data) == \A i \in 1..(Len(data) + 1) : f[i] = parse_at(f, data, i)

(* The bytes e are in data after position p. *)
Written(e, data, p) ==
    /\ p + Len(e) <= Len(data)
    /\ \A k \in Nat : k >= 1 /\ k <= Len(e) => data[p + k] = e[k]

(* The code of an option that has a length and data. *)
IsCode(c) == c \in Nat \ {0, 255}

(* The bytes e are the code c, the length of d and d. *)
Encodes(e, c, d) ==
    /\ Len(e) = 2 + Len(d) /\ e[1] = c /\ e[2] = Len(d)
    /\ \A k \in Nat : k >= 1 /\ k <= Len(d) => e[2 + k] = d[k]

LEMMA Slice ==
    ASSUME NEW data \in Seq(Nat), NEW a \in Nat, NEW l \in Nat, a + l <= Len(data)
    PROVE  /\ SubSeq(data, a + 1, a + l) \in Seq(Nat)
           /\ Len(SubSeq(data, a + 1, a + l)) = l
           /\ \A k \in 1..l : SubSeq(data, a + 1, a + l)[k] = data[a + k]
  OBVIOUS

(* The place after an option of l bytes at p + 1. *)
LEMMA NextOption ==
    ASSUME NEW p \in Nat, NEW l \in Nat, NEW n \in Nat, NEW next, NEW len,
           len = 2 + l, p + (2 + l) <= n, next = p + 3 + l
    PROVE  next - 1 = (p + 2) + l /\ next = p + len + 1 /\ ~ (next - 1 > n)
  OBVIOUS

(* One option at p + 1: code c, length and data d. *)
LEMMA ReadOne ==
    ASSUME NEW data \in Seq(Nat), NEW f, Parses(f, data), NEW p \in Nat,
           NEW c, IsCode(c), NEW d \in Seq(Nat), NEW e \in Seq(Nat),
           Encodes(e, c, d), Written(e, data, p)
    PROVE  f[p + 1] = <<parse_option(c, d)>> \o f[p + Len(e) + 1]
<1> DEFINE n == Len(data)
           l == Len(d)
           next == p + 1 + 2 + data[p + 1 + 1]
           t == SubSeq(data, (p + 2) + 1, (p + 2) + l)
<1>1. n \in Nat /\ l \in Nat /\ Len(e) = 2 + l /\ p + (2 + l) <= n
  BY DEF Written, Encodes
<1>2. data[p + 1] = c
  <2>1. 1 \in Nat /\ 1 >= 1 /\ 1 <= Len(e)
    BY <1>1
  <2> QED
    BY <2>1 DEF Written, Encodes
<1>3. data[p + 2] = l
  <2>1. 2 \in Nat /\ 2 >= 1 /\ 2 <= Len(e)
    BY <1>1
  <2> QED
    BY <2>1 DEF Written, Encodes
<1>4. ASSUME NEW k \in 1..l PROVE data[(p + 2) + k] = d[k]
  <2>1. 2 + k \in Nat /\ 2 + k >= 1 /\ 2 + k <= Len(e) /\ p + (2 + k) = (p + 2) + k
    BY <1>1
  <2>2. data[p + (2 + k)] = e[2 + k]
    BY <2>1 DEF Written
  <2>3. e[2 + k] = d[k]
    BY <1>1 DEF Encodes
  <2> QED
    BY <2>1, <2>2, <2>3
<1>5. /\ p + 1 < n /\ p + 1 \in 1..(n + 1) /\ p + 1 + 1 = p + 2 /\ p + 1 + 2 = (p + 2) + 1
      /\ p + 1 + 2 = p + 3
  BY <1>1
<1>6. next = p + 3 + l
  BY <1>3, <1>5
<1>7. next - 1 = (p + 2) + l /\ next = p + Len(e) + 1 /\ ~ (next - 1 > n)
  <2> HIDE DEF next, l, n
  <2> QED
    BY <1>1, <1>6, NextOption
<1>8. t = d
  <2>1. t \in Seq(Nat) /\ Len(t) = l /\ \A k \in 1..l : t[k] = data[(p + 2) + k]
    <3>1. (p + 2) + l <= n /\ p + 2 \in Nat
      BY <1>1
    <3> HIDE DEF l
    <3> QED
      BY <1>1, <3>1, Slice
  <2>2. \A k \in 1..l : t[k] = d[k]
    BY <1>4, <2>1
  <2> HIDE DEF t
  <2> QED
    BY <2>1, <2>2, SameSeq
<1>9. parse_at(f, data, p + 1) =
         IF next - 1 > n THEN <<>>
         ELSE <<parse_option(data[p + 1], SubSeq(data, p + 1 + 2, next - 1))>> \o f[next]
  <2>1. data[p + 1] \notin {0, 255} /\ p + 1 < n
    BY <1>2, <1>5 DEF IsCode
  <2> QED
    BY <2>1 DEF parse_at
<1>10. f[p + 1] = parse_at(f, data, p + 1)
  BY <1>5 DEF Parses
<1> HIDE DEF next, l, n
<1>11. SubSeq(data, p + 1 + 2, next - 1) = d
  BY <1>5, <1>7, <1>8
<1> QED
  BY <1>2, <1>7, <1>9, <1>10, <1>11

(* What is read after position p is o, and then what follows its bytes. *)
ReadsAt(f, p, o) == f[p + 1] = <<o>> \o f[p + Len(option_to_bytes(o)) + 1]

(* An option written after position p is the one read there. *)
LEMMA ReadStep ==
    ASSUME NEW data \in Seq(Nat), NEW f, Parses(f, data), NEW p \in Nat,
           NEW o, Wellformed(o), ~ Overlong(o), Written(option_to_bytes(o), data, p)
    PROVE  ReadsAt(f, p, o)
<1> DEFINE c == Encoded(o)[1]
           d == Encoded(o)[2]
           e == option_to_bytes(o)
<1>1. c \in Nat \ {0, 255} /\ d \in Seq(Nat) /\ parse_option(c, d) = o
  BY DEF Wellformed
<1>2. Len(d) <= 255
  BY DEF Overlong, Wellformed
<1>3. /\ e \in Seq(Nat) /\ Len(e) = 2 + Len(d) /\ e[1] = c /\ e[2] = Len(d) % 256
      /\ \A k \in Nat : k >= 1 /\ k <= Len(d) => e[2 + k] = d[k]
  BY OptionBytes
<1> HIDE DEF c, d, e
<1>4. Len(d) \in Nat
  BY <1>1
<1>5. e[2] = Len(d)
  BY <1>2, <1>3, <1>4, OneByte
<1>6. Written(e, data, p) /\ Encodes(e, c, d)
  BY <1>3, <1>5 DEF e, Encodes
<1>7. IsCode(c) /\ d \in Seq(Nat) /\ e \in Seq(Nat)
  BY <1>1, <1>3 DEF IsCode
<1>8. f[p + 1] = <<parse_option(c, d)>> \o f[p + Len(e) + 1]
  BY <1>6, <1>7, ReadOne
<1> QED
  BY <1>1, <1>8 DEF e, ReadsAt

(* The first i options are read, and the reading goes on with rest. *)
Reads(r, opts, i, rest) ==
    /\ Len(r) = i + Len(rest)
    /\ \A k \in Nat : k >= 1 /\ k <= i => r[k] = opts[k]
    /\ \A k \in Nat : k >= 1 /\ k <= Len(rest) => r[i + k] = rest[k]

LEMMA ReadsStep ==
    ASSUME NEW U, NEW r \in Seq(U), NEW rest \in Seq(U), NEW later \in Seq(U), NEW o \in U,
           rest = <<o>> \o later, NEW opts, NEW i \in Nat, opts[i + 1] = o,
           Reads(r, opts, i, rest)
    PROVE  Reads(r, opts, i + 1, later)
<1>1. Len(r) \in Nat /\ Len(rest) \in Nat /\ Len(later) \in Nat
  OBVIOUS
<1>2. <<o>> \in Seq(U) /\ Len(<<o>>) = 1 /\ <<o>>[1] = o
  OBVIOUS
<1>3. Joined(rest, <<o>>, later, U)
  BY <1>2, ConcatAt
<1>4. Len(rest) = 1 + Len(later) /\ rest[1] = o
  BY <1>1, <1>2, <1>3 DEF Joined
<1>5. ASSUME NEW k \in Nat, k >= 1, k <= Len(later) PROVE rest[1 + k] = later[k]
  BY <1>2, <1>3, <1>5 DEF Joined
<1>6. Len(r) = i + 1 + Len(later)
  BY <1>1, <1>4 DEF Reads
<1>7. ASSUME NEW k \in Nat, k >= 1, k <= i + 1 PROVE r[k] = opts[k]
  <2>1. CASE k <= i
    BY <1>7, <2>1 DEF Reads
  <2>2. CASE k = i + 1
    <3>1. 1 \in Nat /\ 1 >= 1 /\ 1 <= Len(rest)
      BY <1>1, <1>4
    <3> QED
      BY <1>4, <2>2, <3>1 DEF Reads
  <2> QED
    BY <1>7, <2>1, <2>2
<1>8. ASSUME NEW k \in Nat, k >= 1, k <= Len(later) PROVE r[i + 1 + k] = later[k]
  <2>1. 1 + k \in Nat /\ 1 + k >= 1 /\ 1 + k <= Len(rest) /\ i + (1 + k) = i + 1 + k
    BY <1>1, <1>4, <1>8
  <2>2. r[i + (1 + k)] = rest[1 + k]
    BY <2>1 DEF Reads
  <2> QED
    BY <1>5, <1>8, <2>1, <2>2
<1> QED
  BY <1>6, <1>7, <1>8 DEF Reads

(* The bytes of the options, one sequence each, and the end of the list. *)
LEMMA OptionParts ==
    ASSUME NEW O, NEW opts \in Seq(O), \A i \in 1..Len(opts) : Wellformed(opts[i])
    PROVE  LET seqs == [i \in DOMAIN opts |-> option_to_bytes(opts[i])] \o <<<<255>>>>
           IN  /\ seqs \in Seq(Seq(Nat)) /\ Len(seqs) = Len(opts) + 1
               /\ \A i \in 1..Len(opts) : seqs[i] = option_to_bytes(opts[i])
               /\ seqs[Len(opts) + 1] = <<255>>
<1> DEFINE n == Len(opts)
           enc == [i \in 1..n |-> option_to_bytes(opts[i])]
           last == <<<<255>>>>
           seqs == enc \o last
<1>1. n \in Nat /\ DOMAIN opts = 1..n
  OBVIOUS
<1>2. \A i \in 1..n : option_to_bytes(opts[i]) \in Seq(Nat)
  BY OptionBytes
<1>3. enc \in Seq(Seq(Nat)) /\ Len(enc) = n /\ \A i \in 1..n : enc[i] = option_to_bytes(opts[i])
  BY <1>1, <1>2
<1>4. last \in Seq(Seq(Nat)) /\ Len(last) = 1 /\ last[1] = <<255>>
  OBVIOUS
<1> HIDE DEF enc, last
<1>5. Joined(seqs, enc, last, Seq(Nat))
  BY <1>3, <1>4, ConcatAt
<1> HIDE DEF seqs
<1>6. seqs \in Seq(Seq(Nat)) /\ Len(seqs) = n + 1
  BY <1>3, <1>4, <1>5 DEF Joined
<1>7. \A i \in 1..n : seqs[i] = enc[i]
  BY <1>1, <1>3, <1>5 DEF Joined
<1>8. seqs[n + 1] = last[1]
  <2>1. 1 \in Nat /\ 1 >= 1 /\ 1 <= Len(last)
    BY <1>4
  <2> QED
    BY <1>3, <1>5, <2>1 DEF Joined
<1> HIDE DEF n
<1>9. [i \in DOMAIN opts |-> option_to_bytes(opts[i])] \o <<<<255>>>> = seqs
  BY <1>1 DEF seqs, enc, last
<1> QED
  BY <1>3, <1>4, <1>6, <1>7, <1>8, <1>9 DEF n

(* r is a prefix of the options, and more when an option was too long. *)
ReadBack(r, opts, good) ==
    /\ \E U : r \in Seq(U)
    /\ good <= Len(r)
    /\ \A k \in 1..good : r[k] = opts[k]
    /\ good = Len(opts) => r = Append(opts, End)

LEMMA ReadAll ==
    ASSUME NEW O, NEW opts \in Seq(O), NEW U, End \in U, O \subseteq U,
           NEW r \in Seq(U), Reads(r, opts, Len(opts), <<End>>)
    PROVE  r = Append(opts, End)
<1>1. Len(opts) \in Nat /\ Len(<<End>>) = 1 /\ <<End>>[1] = End /\ Len(r) = Len(opts) + 1
  BY DEF Reads
<1>2. \A k \in 1..Len(opts) : r[k] = opts[k]
  BY <1>1 DEF Reads
<1>3. r[Len(opts) + 1] = End
  <2>1. 1 \in Nat /\ 1 >= 1 /\ 1 <= Len(<<End>>)
    BY <1>1
  <2> QED
    BY <1>1, <2>1 DEF Reads
<1> DEFINE a == Append(opts, End)
<1>4. opts \in Seq(U)
  <2>1. \A k \in 1..Len(opts) : opts[k] \in U
    OBVIOUS
  <2> QED
    BY <2>1
<1>5. /\ a \in Seq(U) /\ Len(a) = Len(opts) + 1 /\ a[Len(opts) + 1] = End
      /\ \A k \in 1..Len(opts) : a[k] = opts[k]
  BY <1>4, AppendProperties
<1> HIDE DEF a
<1>6. \A k \in 1..Len(a) : r[k] = a[k]
  <2>1. \A k \in 1..Len(a) : k \in 1..Len(opts) \/ k = Len(opts) + 1
    BY <1>1, <1>5
  <2> QED
    BY <1>2, <1>3, <1>5, <2>1
<1> QED
  BY <1>1, <1>5, <1>6, SameSeq DEF a

LEMMA ReadInitial ==
    ASSUME NEW U, NEW r \in Seq(U), NEW opts
    PROVE  Reads(r, opts, 0, r)
<1>1. Len(r) \in Nat
  OBVIOUS
<1> QED
  BY <1>1 DEF Reads

(***************************************************************************)
(* DhcpPacket::parse reads the options DhcpPacket::to_bytes wrote: all of  *)
(* them, closed by End, when the length of each fits its length byte, and  *)
(* the ones before the first too long option in any case.                  *)
(***************************************************************************)
THEOREM ReadsBack ==
    ASSUME NEW O, NEW opts \in Seq(O), \A i \in 1..Len(opts) : Wellformed(opts[i]),
           NEW good \in 0..Len(opts), \A i \in 1..good : ~ Overlong(opts[i])
    PROVE  ReadBack(parse_options(FlattenSeq(
                        [i \in DOMAIN opts |-> option_to_bytes(opts[i])] \o <<<<255>>>>)),
                    opts, good)
<1> DEFINE n == Len(opts)
           seqs == [i \in DOMAIN opts |-> option_to_bytes(opts[i])] \o <<<<255>>>>
           data == FlattenSeq(seqs)
<1>1. n \in Nat /\ good \in Nat /\ good <= n
  OBVIOUS
<1>2. /\ seqs \in Seq(Seq(Nat)) /\ Len(seqs) = n + 1
      /\ \A i \in 1..n : seqs[i] = option_to_bytes(opts[i])
      /\ seqs[n + 1] = <<255>>
  BY OptionParts
<1> HIDE DEF seqs
<1>3. PICK at : Parts(data, seqs, at, Nat)
  BY <1>2, FlattenAt
<1> HIDE DEF data
<1>4. data \in Seq(Nat) /\ Len(data) \in Nat
  BY <1>3 DEF Parts
<1>5. PICK f : parse_options(data) = f[1] /\ Parses(f, data)
  BY <1>4, ParseRecurrence DEF Parses
<1> DEFINE U == Readings(data) \cup O \cup {End}
<1>6. \A i \in 1..(Len(data) + 1) : f[i] \in Seq(U)
  <2>1. \A i \in 1..(Len(data) + 1) : f[i] \in Seq(Readings(data))
    BY <1>4, <1>5, ParseTyped DEF Parses
  <2>2. \A s \in Seq(Readings(data)) : s \in Seq(U)
    OBVIOUS
  <2> QED
    BY <2>1, <2>2
<1>7. End \in U /\ O \subseteq U
  OBVIOUS
<1> HIDE DEF U
<1>8. /\ at[0] = 0 /\ at[n + 1] = Len(data)
      /\ \A i \in 0..(n + 1) : at[i] \in Nat /\ at[i] <= Len(data)
      /\ \A i \in 1..(n + 1) : at[i] = at[i - 1] + Len(seqs[i])
      /\ \A i \in 1..(n + 1) :
            \A k \in Nat : k >= 1 /\ k <= Len(seqs[i]) => data[at[i - 1] + k] = seqs[i][k]
  BY <1>2, <1>3 DEF Parts
<1>9. ASSUME NEW i \in 0..(n + 1) PROVE f[at[i] + 1] \in Seq(U)
  <2>1. at[i] + 1 \in 1..(Len(data) + 1)
    BY <1>4, <1>8
  <2> QED
    BY <1>6, <2>1
<1>10. f[1] \in Seq(U)
  BY <1>1, <1>8, <1>9
<1>11. ASSUME NEW i \in 0..good, i + 1 \in 1..good
       PROVE  f[at[i] + 1] = <<opts[i + 1]>> \o f[at[i + 1] + 1]
  <2> DEFINE o == opts[i + 1]
             p == at[i]
  <2>1. i \in Nat /\ i + 1 \in 1..n /\ i + 1 \in 1..(n + 1) /\ i \in 0..(n + 1)
        /\ i + 1 \in 0..(n + 1) /\ (i + 1) - 1 = i
    BY <1>1, <1>11
  <2>2. Wellformed(o) /\ ~ Overlong(o)
    BY <1>11, <2>1
  <2>3. seqs[i + 1] = option_to_bytes(o)
    BY <1>2, <2>1
  <2>4. at[i + 1] = p + Len(option_to_bytes(o)) /\ p \in Nat /\ at[i + 1] <= Len(data)
    <3>1. at[i + 1] = at[(i + 1) - 1] + Len(seqs[i + 1])
      BY <1>8, <2>1
    <3> QED
      BY <1>8, <2>1, <2>3, <3>1
  <2>5. \A k \in Nat : k >= 1 /\ k <= Len(seqs[i + 1]) => data[at[i] + k] = seqs[i + 1][k]
    <3>1. \A k \in Nat : k >= 1 /\ k <= Len(seqs[i + 1])
                            => data[at[(i + 1) - 1] + k] = seqs[i + 1][k]
      BY <1>8, <2>1
    <3> QED
      BY <2>1, <3>1
  <2> HIDE DEF o, p
  <2>6. Written(option_to_bytes(o), data, p)
    BY <2>3, <2>4, <2>5 DEF Written, p
  <2>7. ReadsAt(f, p, o)
    <3>1. p \in Nat /\ data \in Seq(Nat) /\ Parses(f, data) /\ Wellformed(o) /\ ~ Overlong(o)
      BY <1>4, <1>5, <2>2, <2>4
    <3> QED
      BY <2>6, <3>1, ReadStep
  <2> QED
    BY <2>4, <2>7 DEF o, p, ReadsAt
<1> DEFINE Good(i) == Reads(f[1], opts, i, f[at[i] + 1])
           Bad == {i \in 0..good : ~ Good(i)}
<1>12. \A i \in 0..good : Good(i)
  <2> SUFFICES ASSUME Bad # {} PROVE FALSE
    OBVIOUS
  <2>1. PICK m \in Bad : \A y \in Bad : m <= y
    <3>1. Bad \subseteq Nat
      OBVIOUS
    <3> HIDE DEF Bad
    <3> QED
      BY <3>1, LeastNumber
  <2>2. m \in 0..good /\ m \in Nat /\ ~ Good(m)
    BY <2>1
  <2>3. CASE m = 0
    <3>1. f[at[0] + 1] = f[1]
      BY <1>8
    <3>2. Good(0)
      BY <1>10, <3>1, ReadInitial
    <3> QED
      BY <2>2, <2>3, <3>2
  <2>4. CASE m # 0
    <3> DEFINE i == m - 1
    <3>1. i \in 0..good /\ i \in Nat /\ i + 1 = m /\ i + 1 \in 1..good /\ ~ (m <= i)
      BY <1>1, <2>2, <2>4
    <3> HIDE DEF i
    <3>2. Good(i)
      <4>1. i \notin Bad
        <5> HIDE DEF Bad
        <5> QED
          BY <2>1, <3>1
      <4> QED
        BY <3>1, <4>1
    <3>3. i \in 0..(n + 1) /\ i + 1 \in 0..(n + 1) /\ i + 1 \in 1..n
      BY <1>1, <3>1
    <3>4. opts[i + 1] \in U
      <4>1. opts[i + 1] \in O
        BY <3>3
      <4> QED
        BY <1>7, <4>1
    <3>5. f[at[i] + 1] = <<opts[i + 1]>> \o f[at[i + 1] + 1]
      BY <1>11, <3>1
    <3>6. Reads(f[1], opts, i + 1, f[at[i + 1] + 1])
      <4>1. f[at[i] + 1] \in Seq(U) /\ f[at[i + 1] + 1] \in Seq(U)
        BY <1>9, <3>3
      <4> QED
        BY <1>10, <3>1, <3>2, <3>4, <3>5, <4>1, ReadsStep
    <3> QED
      BY <2>2, <3>1, <3>6
  <2> QED
    BY <2>3, <2>4
<1>13. Reads(f[1], opts, good, f[at[good] + 1]) /\ f[at[good] + 1] \in Seq(U)
  <2>1. good \in 0..good /\ good \in 0..(n + 1)
    BY <1>1
  <2> QED
    BY <1>9, <1>12, <2>1
<1>14. good <= Len(f[1]) /\ \A k \in 1..good : f[1][k] = opts[k]
  <2>1. Len(f[at[good] + 1]) \in Nat
    BY <1>13
  <2> QED
    BY <1>1, <1>13, <2>1 DEF Reads
<1>15. ASSUME good = n PROVE f[1] = Append(opts, End)
  <2>1. n + 1 \in 1..(n + 1) /\ (n + 1) - 1 = n /\ n \in 0..(n + 1)
    BY <1>1
  <2>2. Len(seqs[n + 1]) = 1 /\ seqs[n + 1][1] = 255
    BY <1>2
  <2>3. at[n + 1] = at[n] + 1 /\ at[n] \in Nat
    <3>1. at[n + 1] = at[(n + 1) - 1] + Len(seqs[n + 1])
      BY <1>8, <2>1
    <3> QED
      BY <1>8, <2>1, <2>2, <3>1
  <2>4. data[at[n] + 1] = 255
    <3>1. \A k \in Nat : k >= 1 /\ k <= Len(seqs[n + 1])
                            => data[at[(n + 1) - 1] + k] = seqs[n + 1][k]
      BY <1>8, <2>1
    <3> QED
      BY <2>1, <2>2, <3>1
  <2>5. at[n] + 1 = Len(data)
    BY <1>8, <2>3
  <2>6. parse_at(f, data, at[n] + 1) = <<End>>
    BY <1>4, <2>4, <2>5 DEF parse_at
  <2>7. f[at[n] + 1] = <<End>>
    BY <1>4, <1>5, <2>3, <2>5, <2>6 DEF Parses
  <2>8. Reads(f[1], opts, n, <<End>>)
    BY <1>13, <1>15, <2>7
  <2> QED
    BY <1>7, <1>10, <2>8, ReadAll
<1>16. ReadBack(f[1], opts, good)
  BY <1>10, <1>14, <1>15 DEF ReadBack
<1> QED
  BY <1>5, <1>16 DEF data, seqs

-----------------------------------------------------------------------------
(* The options of a reply are read as the kinds they are written as. *)

AddrKinds == {"SubnetMask", "RequestedIpAddress", "ServerIdentifier"}
ListKinds == {"Router", "DnsServer"}
TextKinds == {"DomainName", "Hostname"}
TimeKinds == {"LeaseTime", "RenewalTime", "RebindingTime"}

LEMMA Kinds ==
    /\ DOMAIN AddrOption = AddrKinds
    /\ DOMAIN ListOption = ListKinds
    /\ DOMAIN TextOption = TextKinds
    /\ DOMAIN TimeOption = TimeKinds
  BY DEF AddrOption, ListOption, TextOption, TimeOption,
         AddrKinds, ListKinds, TextKinds, TimeKinds

LEMMA Codes ==
    /\ AddrOption["SubnetMask"] = 1 /\ AddrOption["RequestedIpAddress"] = 50
    /\ AddrOption["ServerIdentifier"] = 54
    /\ ListOption["Router"] = 3 /\ ListOption["DnsServer"] = 6
    /\ TextOption["DomainName"] = 15 /\ TextOption["Hostname"] = 12
    /\ TimeOption["LeaseTime"] = 51 /\ TimeOption["RenewalTime"] = 58
    /\ TimeOption["RebindingTime"] = 59
  BY DEF AddrOption, ListOption, TextOption, TimeOption

LEMMA AddrCodes ==
    /\ \A c : HasCode(AddrOption, c) <=> c \in {1, 50, 54}
    /\ \A k \in AddrKinds : KindOf(AddrOption, AddrOption[k]) = k
<1>1. \A k, j \in AddrKinds : AddrOption[j] = AddrOption[k] => j = k
  BY Codes DEF AddrKinds
<1>2. \A k \in AddrKinds : KindOf(AddrOption, AddrOption[k]) = k
  BY <1>1, Kinds DEF KindOf
<1>3. \A c : HasCode(AddrOption, c) <=> c \in {1, 50, 54}
  BY Codes, Kinds DEF HasCode, AddrKinds
<1> QED
  BY <1>2, <1>3

LEMMA ListCodes ==
    /\ \A c : HasCode(ListOption, c) <=> c \in {3, 6}
    /\ \A k \in ListKinds : KindOf(ListOption, ListOption[k]) = k
<1>1. \A k, j \in ListKinds : ListOption[j] = ListOption[k] => j = k
  BY Codes DEF ListKinds
<1>2. \A k \in ListKinds : KindOf(ListOption, ListOption[k]) = k
  BY <1>1, Kinds DEF KindOf
<1>3. \A c : HasCode(ListOption, c) <=> c \in {3, 6}
  BY Codes, Kinds DEF HasCode, ListKinds
<1> QED
  BY <1>2, <1>3

LEMMA TextCodes ==
    /\ \A c : HasCode(TextOption, c) <=> c \in {15, 12}
    /\ \A k \in TextKinds : KindOf(TextOption, TextOption[k]) = k
<1>1. \A k, j \in TextKinds : TextOption[j] = TextOption[k] => j = k
  BY Codes DEF TextKinds
<1>2. \A k \in TextKinds : KindOf(TextOption, TextOption[k]) = k
  BY <1>1, Kinds DEF KindOf
<1>3. \A c : HasCode(TextOption, c) <=> c \in {15, 12}
  BY Codes, Kinds DEF HasCode, TextKinds
<1> QED
  BY <1>2, <1>3

LEMMA TimeCodes ==
    /\ \A c : HasCode(TimeOption, c) <=> c \in {51, 58, 59}
    /\ \A k \in TimeKinds : KindOf(TimeOption, TimeOption[k]) = k
<1>1. \A k, j \in TimeKinds : TimeOption[j] = TimeOption[k] => j = k
  BY Codes DEF TimeKinds
<1>2. \A k \in TimeKinds : KindOf(TimeOption, TimeOption[k]) = k
  BY <1>1, Kinds DEF KindOf
<1>3. \A c : HasCode(TimeOption, c) <=> c \in {51, 58, 59}
  BY Codes, Kinds DEF HasCode, TimeKinds
<1> QED
  BY <1>2, <1>3

LEMMA WellformedFrom ==
    ASSUME NEW o, o.kind # "End", NEW c, IsCode(c), NEW d \in Seq(Nat),
           Encoded(o) = <<c, d>>, parse_option(c, d) = o
    PROVE  Wellformed(o) /\ (Len(d) <= 255 => ~ Overlong(o))
<1>1. Encoded(o)[1] = c /\ Encoded(o)[2] = d
  OBVIOUS
<1>2. Wellformed(o)
  BY <1>1 DEF Wellformed, IsCode
<1>3. ASSUME Len(d) <= 255 PROVE ~ Overlong(o)
  <2>1. Len(d) \in Nat /\ ~ (Len(d) > 255)
    BY <1>3
  <2> QED
    BY <1>1, <2>1 DEF Overlong
<1> QED
  BY <1>2, <1>3

LEMMA AddrWellformed ==
    ASSUME NEW k \in AddrKinds, NEW v \in Seq(Nat), Len(v) = 4
    PROVE  /\ Wellformed(Option(k, v)) /\ ~ Overlong(Option(k, v))
<1> DEFINE o == Option(k, v)
           c == AddrOption[k]
<1>1. o.kind = k /\ o.value = v /\ o.kind # "End"
  BY DEF Option, AddrKinds
<1>2. c \in {1, 50, 54}
  BY Codes DEF AddrKinds
<1>3. KindOf(AddrOption, c) = k /\ HasCode(AddrOption, c)
  BY <1>2, AddrCodes
<1> HIDE DEF c, o
<1>4. Encoded(o) = <<c, v>>
  <2>1. k \notin TimeKinds /\ k \notin ListKinds /\ k \notin TextKinds
        /\ k # "MessageType" /\ k # "Unknown"
    BY DEF AddrKinds, TimeKinds, ListKinds, TextKinds
  <2> QED
    BY <1>1, <2>1, Kinds DEF Encoded, c
<1>5. parse_option(c, v) = o
  <2>1. ~ HasCode(TimeOption, c) /\ ~ HasCode(ListOption, c) /\ ~ HasCode(TextOption, c) /\ c # 53
    BY <1>2, TimeCodes, ListCodes, TextCodes
  <2> QED
    BY <1>3, <2>1 DEF parse_option, o
<1>6. IsCode(c)
  BY <1>2 DEF IsCode
<1>7. Wellformed(o) /\ (Len(v) <= 255 => ~ Overlong(o))
  BY <1>1, <1>4, <1>5, <1>6, WellformedFrom
<1>8. Len(v) <= 255
  OBVIOUS
<1> QED
  BY <1>7, <1>8 DEF o

LEMMA TextWellformed ==
    ASSUME NEW k \in TextKinds, NEW v \in Seq(Nat)
    PROVE  Wellformed(Option(k, v))
<1> DEFINE o == Option(k, v)
           c == TextOption[k]
<1>1. o.kind = k /\ o.value = v /\ o.kind # "End"
  BY DEF Option, TextKinds
<1>2. c \in {15, 12}
  BY Codes DEF TextKinds
<1>3. KindOf(TextOption, c) = k /\ HasCode(TextOption, c)
  BY <1>2, TextCodes
<1> HIDE DEF c, o
<1>4. Encoded(o) = <<c, v>>
  <2>1. k \notin TimeKinds /\ k \notin ListKinds /\ k \notin AddrKinds
        /\ k # "MessageType" /\ k # "Unknown"
    BY DEF AddrKinds, TimeKinds, ListKinds, TextKinds
  <2> QED
    BY <1>1, <2>1, Kinds DEF Encoded, c
<1>5. parse_option(c, v) = o
  <2>1. ~ HasCode(TimeOption, c) /\ ~ HasCode(ListOption, c) /\ ~ HasCode(AddrOption, c) /\ c # 53
    BY <1>2, TimeCodes, ListCodes, AddrCodes
  <2> QED
    BY <1>3, <2>1 DEF parse_option, o
<1>6. IsCode(c)
  BY <1>2 DEF IsCode
<1>7. Wellformed(o)
  BY <1>1, <1>4, <1>5, <1>6, WellformedFrom
<1> QED
  BY <1>7 DEF o

(* A number of any size is read back from its four bytes. *)
LEMMA TimeBytes ==
    ASSUME NEW n \in Nat
    PROVE  /\ to_be_bytes(n) \in Seq(Nat) /\ Len(to_be_bytes(n)) = 4
           /\ from_be_bytes(to_be_bytes(n)) = n
<1> DEFINE a == n \div 16777216
           b == (n \div 65536) % 256
           c == (n \div 256) % 256
           d == n % 256
<1>1. a \in Nat /\ b \in Nat /\ c \in Nat /\ d \in Nat
  BY SMT
<1>2. 16777216 * a + 65536 * b + 256 * c + d = n
  <2> DEFINE x == n \div 256
             y == x \div 256
             z == y \div 256
  <2>1. x \in Nat /\ n = 256 * x + d
    BY SMT
  <2>2. y \in Nat /\ x = 256 * y + c
    BY <2>1, SMT
  <2>3. z \in Nat /\ y = 256 * z + (y % 256)
    BY <2>2, SMT
  <2>4. y = n \div 65536
    BY SMT
  <2>5. z = n \div 16777216
    BY SMT
  <2> QED
    BY <2>1, <2>2, <2>3, <2>4, <2>5, SMT
<1>3. to_be_bytes(n) = <<a, b, c, d>>
  BY DEF to_be_bytes
<1> HIDE DEF a, b, c, d
<1>4. /\ <<a, b, c, d>> \in Seq(Nat) /\ Len(<<a, b, c, d>>) = 4
      /\ <<a, b, c, d>>[1] = a /\ <<a, b, c, d>>[2] = b
      /\ <<a, b, c, d>>[3] = c /\ <<a, b, c, d>>[4] = d
  BY <1>1
<1> QED
  BY <1>2, <1>3, <1>4 DEF from_be_bytes

LEMMA TimeWellformed ==
    ASSUME NEW k \in TimeKinds, NEW n \in Nat
    PROVE  Wellformed(Option(k, n)) /\ ~ Overlong(Option(k, n))
<1> DEFINE o == Option(k, n)
           c == TimeOption[k]
           v == to_be_bytes(n)
<1>1. o.kind = k /\ o.value = n /\ o.kind # "End"
  BY DEF Option, TimeKinds
<1>2. c \in {51, 58, 59}
  BY Codes DEF TimeKinds
<1>3. KindOf(TimeOption, c) = k /\ HasCode(TimeOption, c)
  BY <1>2, TimeCodes
<1>4. v \in Seq(Nat) /\ Len(v) = 4 /\ from_be_bytes(v) = n
  BY TimeBytes
<1> HIDE DEF c, o
<1>5. Encoded(o) = <<c, v>>
  <2>1. k \notin AddrKinds /\ k \notin ListKinds /\ k \notin TextKinds
        /\ k # "MessageType" /\ k # "Unknown"
    BY DEF AddrKinds, TimeKinds, ListKinds, TextKinds
  <2> QED
    BY <1>1, <2>1, Kinds DEF Encoded, c
<1> HIDE DEF v
<1>6. parse_option(c, v) = o
  <2>1. ~ HasCode(AddrOption, c) /\ ~ HasCode(ListOption, c) /\ ~ HasCode(TextOption, c) /\ c # 53
    BY <1>2, AddrCodes, ListCodes, TextCodes
  <2> QED
    BY <1>3, <1>4, <2>1 DEF parse_option, o
<1>7. IsCode(c)
  BY <1>2 DEF IsCode
<1>8. Wellformed(o) /\ (Len(v) <= 255 => ~ Overlong(o))
  BY <1>1, <1>4, <1>5, <1>6, <1>7, WellformedFrom
<1>9. Len(v) <= 255
  BY <1>4
<1> QED
  BY <1>8, <1>9 DEF o

LEMMA TypeWellformed ==
    ASSUME NEW mt \in {"Offer", "Ack"}
    PROVE  /\ Wellformed(Option("MessageType", mt)) /\ ~ Overlong(Option("MessageType", mt))
<1> DEFINE o == Option("MessageType", mt)
           c == 53
           x == to_u8(mt)
           v == <<x>>
<1>1. o.kind = "MessageType" /\ o.value = mt /\ o.kind # "End"
  BY DEF Option
<1>2. x \in 1..8 /\ MessageType[x] = mt
  <2>1. \E n \in 1..8 : MessageType[n] = mt
    <3>1. MessageType[2] = "Offer" /\ MessageType[5] = "Ack"
      BY DEF MessageType
    <3> QED
      BY <3>1
  <2> QED
    BY <2>1 DEF to_u8
<1> HIDE DEF x, o
<1>3. v \in Seq(Nat) /\ Len(v) = 1 /\ v[1] = x
  BY <1>2
<1>4. Encoded(o) = <<c, v>>
  <2>1. "MessageType" \notin AddrKinds \cup ListKinds \cup TextKinds \cup TimeKinds
    BY DEF AddrKinds, TimeKinds, ListKinds, TextKinds
  <2> QED
    BY <1>1, <2>1, Kinds DEF Encoded, x
<1> HIDE DEF v
<1>5. from_u8(v[1]) = {mt}
  BY <1>2, <1>3 DEF from_u8
<1>6. parse_option(c, v) = o
  <2>1. ~ HasCode(AddrOption, c) /\ ~ HasCode(ListOption, c) /\ ~ HasCode(TextOption, c)
        /\ ~ HasCode(TimeOption, c)
    BY AddrCodes, ListCodes, TextCodes, TimeCodes
  <2>2. (CHOOSE m \in {mt} : TRUE) = mt
    OBVIOUS
  <2> QED
    BY <1>3, <1>5, <2>1, <2>2 DEF parse_option, o
<1>7. IsCode(c)
  BY DEF IsCode
<1>8. Wellformed(o) /\ (Len(v) <= 255 => ~ Overlong(o))
  BY <1>1, <1>3, <1>4, <1>6, <1>7, WellformedFrom
<1>9. Len(v) <= 255
  BY <1>3
<1> QED
  BY <1>8, <1>9 DEF o

(* What is written after position a is cut out of the data. *)
LEMMA CutOut ==
    ASSUME NEW data \in Seq(Nat), NEW b \in Seq(Nat), NEW a \in Nat, Written(b, data, a)
    PROVE  SubSeq(data, a + 1, a + Len(b)) = b
<1> DEFINE l == Len(b)
           t == SubSeq(data, a + 1, a + l)
<1>1. l \in Nat /\ a + l <= Len(data)
  BY DEF Written
<1>2. \A k \in 1..l : data[a + k] = b[k]
  BY <1>1 DEF Written
<1>3. t \in Seq(Nat) /\ Len(t) = l /\ \A k \in 1..l : t[k] = data[a + k]
  <2> HIDE DEF l
  <2> QED
    BY <1>1, Slice
<1> HIDE DEF t
<1>4. t = b
  BY <1>2, <1>3, SameSeq
<1> QED
  BY <1>4 DEF t

(* Addresses one after the other are at the multiples of four. *)
LEMMA AddressesAt ==
    ASSUME NEW addrs \in Seq(Seq(Nat)), \A i \in 1..Len(addrs) : Len(addrs[i]) = 4,
           NEW flat, NEW at, Parts(flat, addrs, at, Nat)
    PROVE  \A i \in 0..Len(addrs) : at[i] = 4 * i
<1> DEFINE n == Len(addrs)
           Bad == {i \in 0..n : at[i] # 4 * i}
<1>0. n \in Nat
  OBVIOUS
<1> SUFFICES ASSUME Bad # {} PROVE FALSE
  OBVIOUS
<1>1. PICK m \in Bad : \A y \in Bad : m <= y
  <2>1. Bad \subseteq Nat
    OBVIOUS
  <2> HIDE DEF Bad
  <2> QED
    BY <2>1, LeastNumber
<1>2. m \in 0..n /\ m \in Nat /\ at[m] # 4 * m
  BY <1>1
<1>3. CASE m = 0
  BY <1>2, <1>3 DEF Parts
<1>4. CASE m # 0
  <2>1. m - 1 \in 0..n /\ m - 1 \in Nat /\ m \in 1..n /\ ~ (m <= m - 1)
    BY <1>0, <1>2, <1>4
  <2>2. m - 1 \notin Bad
    <3> HIDE DEF Bad
    <3> QED
      BY <1>1, <2>1
  <2>3. at[m - 1] = 4 * (m - 1)
    BY <2>1, <2>2
  <2>4. at[m] = at[m - 1] + Len(addrs[m]) /\ Len(addrs[m]) = 4
    BY <2>1 DEF Parts
  <2>5. 4 * (m - 1) + 4 = 4 * m
    BY <2>1
  <2> QED
    BY <1>2, <2>3, <2>4, <2>5
<1> QED
  BY <1>3, <1>4

LEMMA ChunksBack ==
    ASSUME NEW addrs \in Seq(Seq(Nat)), \A i \in 1..Len(addrs) : Len(addrs[i]) = 4
    PROVE  /\ FlattenSeq(addrs) \in Seq(Nat) /\ Len(FlattenSeq(addrs)) = 4 * Len(addrs)
           /\ chunks_exact(FlattenSeq(addrs)) = addrs
<1> DEFINE n == Len(addrs)
           flat == FlattenSeq(addrs)
<1>0. n \in Nat
  OBVIOUS
<1>1. PICK at : Parts(flat, addrs, at, Nat)
  BY FlattenAt
<1> HIDE DEF flat
<1>2. \A i \in 0..n : at[i] = 4 * i
  BY <1>1, AddressesAt
<1>3. flat \in Seq(Nat) /\ Len(flat) = 4 * n
  <2>1. n \in 0..n
    BY <1>0
  <2> QED
    BY <1>1, <1>2, <2>1 DEF Parts
<1>4. ASSUME NEW i \in 1..n PROVE SubSeq(flat, 4 * i - 3, 4 * i) = addrs[i]
  <2> DEFINE a == 4 * (i - 1)
             b == addrs[i]
  <2>1. a \in Nat /\ a + 1 = 4 * i - 3 /\ a + 4 = 4 * i /\ a + 4 <= 4 * n
    BY <1>0
  <2>2. at[i - 1] = a
    BY <1>0, <1>2
  <2>3. b \in Seq(Nat) /\ Len(b) = 4
    OBVIOUS
  <2>4. \A k \in Nat : k >= 1 /\ k <= Len(b) => flat[at[i - 1] + k] = b[k]
    BY <1>1 DEF Parts
  <2> HIDE DEF a, b
  <2>5. Written(b, flat, a)
    BY <1>3, <2>1, <2>2, <2>3, <2>4 DEF Written
  <2>6. SubSeq(flat, a + 1, a + Len(b)) = b
    BY <1>3, <2>1, <2>3, <2>5, CutOut
  <2> QED
    BY <2>1, <2>3, <2>6 DEF b
<1>5. Len(flat) \div 4 = n
  BY <1>0, <1>3, SMT
<1>6. chunks_exact(flat) = [i \in 1..n |-> addrs[i]]
  BY <1>4, <1>5 DEF chunks_exact
<1>7. [i \in 1..n |-> addrs[i]] = addrs
  OBVIOUS
<1> QED
  BY <1>3, <1>6, <1>7 DEF flat

LEMMA ListWellformed ==
    ASSUME NEW k \in ListKinds, NEW addrs \in Seq(Seq(Nat)),
           \A i \in 1..Len(addrs) : Len(addrs[i]) = 4
    PROVE  /\ Wellformed(Option(k, addrs))
           /\ 4 * Len(addrs) <= 255 => ~ Overlong(Option(k, addrs))
<1> DEFINE o == Option(k, addrs)
           c == ListOption[k]
           v == FlattenSeq(addrs)
<1>1. o.kind = k /\ o.value = addrs /\ o.kind # "End"
  BY DEF Option, ListKinds
<1>2. c \in {3, 6}
  BY Codes DEF ListKinds
<1>3. KindOf(ListOption, c) = k /\ HasCode(ListOption, c)
  BY <1>2, ListCodes
<1>4. v \in Seq(Nat) /\ Len(v) = 4 * Len(addrs) /\ chunks_exact(v) = addrs
  BY ChunksBack
<1> HIDE DEF c, o
<1>5. Encoded(o) = <<c, v>>
  <2>1. k \notin AddrKinds /\ k \notin TimeKinds /\ k \notin TextKinds
        /\ k # "MessageType" /\ k # "Unknown"
    BY DEF AddrKinds, TimeKinds, ListKinds, TextKinds
  <2> QED
    BY <1>1, <2>1, Kinds DEF Encoded, c
<1> HIDE DEF v
<1>6. parse_option(c, v) = o
  <2>1. ~ HasCode(AddrOption, c) /\ ~ HasCode(TimeOption, c) /\ ~ HasCode(TextOption, c) /\ c # 53
    BY <1>2, AddrCodes, TimeCodes, TextCodes
  <2> QED
    BY <1>3, <1>4, <2>1 DEF parse_option, o
<1>7. IsCode(c)
  BY <1>2 DEF IsCode
<1>8. Wellformed(o) /\ (Len(v) <= 255 => ~ Overlong(o))
  BY <1>1, <1>4, <1>5, <1>6, <1>7, WellformedFrom
<1> QED
  BY <1>4, <1>8 DEF o
=============================================================================
