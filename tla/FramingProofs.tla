----------------------------- MODULE FramingProofs ----------------------------
(***************************************************************************)
(* Proofs about Framing for any requests, bytes, and width of a length:    *)
(* reading a length inverts writing it, FramingInv is inductive, and the   *)
(* two streams of a tunnel implement three channels.                       *)
(*                                                                         *)
(* The library's induction takes an operator as its parameter; here it is  *)
(* stated for a set of numbers (NatSetInduction), which is enough for the  *)
(* recursive functions of the conversion and the lengths of sequences.     *)
(***************************************************************************)
EXTENDS Framing, TLAPS, SequenceTheorems, WellFoundedInduction

\* A set of numbers that has zero, and the successor of each of its members, has
\* every number.
LEMMA NatSetInduction ==
  ASSUME NEW S, 0 \in S, \A n \in Nat : n \in S => n + 1 \in S
  PROVE  Nat \subseteq S
  <1> DEFINE T == Nat \ S
             R == OpToRel(<, Nat)
  <1> SUFFICES ASSUME T # {} PROVE FALSE
    OBVIOUS
  <1>1. IsWellFoundedOn(R, Nat)
    BY NatLessThanWellFounded
  <1>2. T \subseteq Nat
    OBVIOUS
  <1> HIDE DEF T, R
  <1>3. PICK x \in T : \A y \in T : ~ (<<y, x>> \in R)
    BY <1>1, <1>2, WFMin
  <1>4. x \in Nat /\ x # 0
    BY DEF T
  <1>5. x - 1 \in S
    <2>1. x - 1 \in Nat /\ x - 1 < x
      BY <1>4
    <2>2. <<x - 1, x>> \in R
      BY <1>4, <2>1 DEF R, OpToRel
    <2> QED
      BY <1>3, <2>1, <2>2 DEF T
  <1>6. (x - 1) + 1 \in S
    BY <1>4, <1>5
  <1> QED
    BY <1>4, <1>6 DEF T

\* The values of f start with c, and each step leads from one to the next.
Goes(f, S, n, c, step) ==
  /\ f \in [0..n -> S]
  /\ f[0] = c
  /\ \A k \in 1..n : f[k] = step[k][f[k - 1]]

LEMMA RecursionExists ==
  ASSUME NEW S, NEW c \in S, NEW step \in [Nat -> [S -> S]], NEW n \in Nat
  PROVE  \E f : Goes(f, S, n, c, step)
  <1> DEFINE Good(m, f) == Goes(f, S, m, c, step)
             Has == {m \in Nat : \E f : Good(m, f)}
  <1> USE DEF Goes
  <1>1. 0 \in Has
    <2>1. Good(0, [k \in 0..0 |-> c])
      OBVIOUS
    <2> QED
      BY <2>1
  <1>2. ASSUME NEW m \in Nat, m \in Has
        PROVE  m + 1 \in Has
    <2>1. PICK f : Good(m, f)
      BY <1>2
    <2> DEFINE next == step[m + 1][f[m]]
               g == [k \in 0..(m + 1) |-> IF k = m + 1 THEN next ELSE f[k]]
    <2>2. next \in S
      BY <2>1
    <2>3. g \in [0..(m + 1) -> S] /\ g[0] = c
      BY <2>1, <2>2
    <2>4. ASSUME NEW k \in 1..(m + 1)
          PROVE  g[k] = step[k][g[k - 1]]
      <3>1. CASE k = m + 1
        <4>1. g[k] = next /\ g[k - 1] = f[m]
          BY <3>1
        <4> QED
          BY <3>1, <4>1
      <3>2. CASE k # m + 1
        BY <3>2, <2>1
      <3> QED
        BY <3>1, <3>2
    <2>5. Good(m + 1, g)
      BY <2>3, <2>4
    <2> HIDE DEF Good, g
    <2> QED
      BY <2>5
  <1>3. n \in Has
    <2> HIDE DEF Has
    <2> QED
      BY <1>1, <1>2, NatSetInduction
  <1> QED
    BY <1>3

\* What its first value has, and each value hands on, all values of f have.
LEMMA RecursionStays ==
  ASSUME NEW S, NEW n \in Nat, NEW f, f = [k \in 0..n |-> f[k]],
         f[0] \in S, \A k \in 1..n : f[k - 1] \in S => f[k] \in S
  PROVE  f \in [0..n -> S]
  <1> DEFINE Has == {m \in Nat : m <= n => f[m] \in S}
  <1>1. 0 \in Has
    OBVIOUS
  <1>2. ASSUME NEW m \in Nat, m \in Has
        PROVE  m + 1 \in Has
    <2>1. m + 1 <= n => m + 1 \in 1..n /\ (m + 1) - 1 = m /\ m <= n
      OBVIOUS
    <2>2. ASSUME m + 1 <= n PROVE f[m + 1] \in S
      BY <1>2, <2>1, <2>2
    <2> QED
      BY <1>2, <2>2
  <1>3. Nat \subseteq Has
    <2> HIDE DEF Has
    <2> QED
      BY <1>1, <1>2, NatSetInduction
  <1>4. \A k \in 0..n : f[k] \in S
    BY <1>3
  <1> QED
    BY <1>4

-----------------------------------------------------------------------------
\* Division by the number of values of a byte.
LEMMA Quotient ==
  ASSUME NEW b \in Nat \ {0}, NEW n \in Nat
  PROVE  /\ n \div b \in Nat
         /\ n % b \in 0..(b - 1)
         /\ n = b * (n \div b) + (n % b)
  <1>1. n \div b \in Nat
    OBVIOUS
  <1>2. n % b \in 0..(b - 1)
    OBVIOUS
  <1>3. n = b * (n \div b) + (n % b)
    OBVIOUS
  <1> QED
    BY <1>1, <1>2, <1>3

LEMMA QuotientBound ==
  ASSUME NEW b \in Nat \ {0}, NEW n \in Nat, NEW p \in Nat, n < b * p
  PROVE  n \div b < p
  <1> DEFINE q == n \div b
             r == n % b
  <1>1. q \in Nat /\ r \in Nat /\ n = b * q + r
    BY Quotient
  <1> HIDE DEF q, r
  <1>2. ASSUME p <= q PROVE FALSE
    <2>1. b * p <= b * q
      BY <1>1, <1>2
    <2> QED
      BY <1>1, <2>1
  <1> QED
    BY <1>1, <1>2 DEF q

\* The powers of the number of values of a byte.
LEMMA PowValues ==
  /\ Pow \in [0..Width -> Nat]
  /\ Pow[0] = 1
  /\ \A k \in 1..Width : Pow[k] = Base * Pow[k - 1]
  <1> DEFINE step == [k \in Nat |-> [x \in Nat |-> Base * x]]
  <1>1. Base \in Nat /\ Width \in Nat
    BY FramingAssumption
  <1>2. step \in [Nat -> [Nat -> Nat]]
    BY <1>1
  <1>3. 1 \in Nat
    OBVIOUS
  <1>4. PICK f : Goes(f, Nat, Width, 1, step)
    <2> HIDE DEF step
    <2> QED
      BY <1>1, <1>2, <1>3, RecursionExists, Zenon
  <1>. USE <1>4 DEF Goes
  <1>5. \A k \in 1..Width : f[k] = Base * f[k - 1]
    <2> TAKE k \in 1..Width
    <2>1. f[k - 1] \in Nat /\ k \in Nat
      BY <1>1, <1>4
    <2> QED
      BY <1>4, <2>1
  <1>6. f = [k \in 0..Width |-> IF k = 0 THEN 1 ELSE Base * f[k - 1]]
    <2> DEFINE g == [k \in 0..Width |-> IF k = 0 THEN 1 ELSE Base * f[k - 1]]
    <2>1. \A k \in 0..Width : f[k] = g[k]
      <3> TAKE k \in 0..Width
      <3>1. k # 0 => k \in 1..Width
        BY <1>1
      <3> QED
        BY <1>4, <1>5, <3>1
    <2> QED
      BY <1>4, <2>1
  <1>7. Pow = [k \in 0..Width |-> IF k = 0 THEN 1 ELSE Base * Pow[k - 1]]
    BY <1>6 DEF Pow
  <1>8. /\ Pow = [k \in 0..Width |-> Pow[k]]
        /\ Pow[0] = 1
        /\ \A k \in 1..Width : Pow[k] = Base * Pow[k - 1]
    <2> DEFINE P == Pow
    <2>1. P = [k \in 0..Width |-> IF k = 0 THEN 1 ELSE Base * P[k - 1]]
      BY <1>7
    <2> HIDE DEF P
    <2>2. P = [k \in 0..Width |-> P[k]]
      BY <2>1
    <2>3. P[0] = 1
      BY <1>1, <2>1
    <2>4. \A k \in 1..Width : P[k] = Base * P[k - 1]
      BY <1>1, <2>1
    <2> QED
      BY <2>2, <2>3, <2>4 DEF P
  <1>9. \A k \in 1..Width : Pow[k - 1] \in Nat => Pow[k] \in Nat
    <2> TAKE k \in 1..Width
    <2> HAVE Pow[k - 1] \in Nat
    <2>1. Pow[k] = Base * Pow[k - 1]
      BY <1>8
    <2>2. Base * Pow[k - 1] \in Nat
      BY <1>1
    <2> QED
      BY <2>1, <2>2
  <1>10. Pow \in [0..Width -> Nat]
    BY <1>1, <1>3, <1>8, <1>9, RecursionStays
  <1> QED
    BY <1>8, <1>10

\* The shifts of a length, byte by byte.
LEMMA ShiftedValues ==
  ASSUME NEW n \in Nat
  PROVE  /\ Shifted(n) \in [0..Width -> Nat]
         /\ Shifted(n)[0] = n
         /\ \A k \in 1..Width : Shifted(n)[k] = Shifted(n)[k - 1] \div Base
  <1> DEFINE step == [k \in Nat |-> [x \in Nat |-> x \div Base]]
             F == Shifted(n)
  <1>1. Base \in Nat \ {0} /\ Width \in Nat
    BY FramingAssumption
  <1>2. step \in [Nat -> [Nat -> Nat]]
    BY <1>1, Quotient
  <1>3. PICK f : Goes(f, Nat, Width, n, step)
    <2> HIDE DEF step
    <2> QED
      BY <1>1, <1>2, RecursionExists, Zenon
  <1>4. \A k \in 1..Width : f[k] = f[k - 1] \div Base
    <2> TAKE k \in 1..Width
    <2>1. f[k - 1] \in Nat /\ k \in Nat
      BY <1>1, <1>3 DEF Goes
    <2> QED
      BY <1>3, <2>1 DEF Goes
  <1>5. f = [k \in 0..Width |-> IF k = 0 THEN n ELSE f[k - 1] \div Base]
    <2> DEFINE g == [k \in 0..Width |-> IF k = 0 THEN n ELSE f[k - 1] \div Base]
    <2>1. \A k \in 0..Width : f[k] = g[k]
      <3> TAKE k \in 0..Width
      <3>1. k # 0 => k \in 1..Width
        BY <1>1
      <3> QED
        BY <1>3, <1>4, <3>1 DEF Goes
    <2> QED
      BY <1>3, <2>1 DEF Goes
  <1>6. F = [k \in 0..Width |-> IF k = 0 THEN n ELSE F[k - 1] \div Base]
    BY <1>5 DEF Shifted
  <1> HIDE DEF F
  <1>7. F = [k \in 0..Width |-> F[k]]
    BY <1>6
  <1>8. F[0] = n
    BY <1>1, <1>6
  <1>9. \A k \in 1..Width : F[k] = F[k - 1] \div Base
    BY <1>1, <1>6
  <1>10. \A k \in 1..Width : F[k - 1] \in Nat => F[k] \in Nat
    BY <1>1, <1>9, Quotient
  <1>11. F \in [0..Width -> Nat]
    BY <1>1, <1>7, <1>8, <1>10, RecursionStays
  <1> QED
    BY <1>8, <1>9, <1>11 DEF F

\* A length that fits has no digits left after Width shifts.
LEMMA ShiftedOut ==
  ASSUME NEW n \in Nat, n < Half
  PROVE  n < Pow[Width] /\ Shifted(n)[Width] = 0
  <1> DEFINE F == Shifted(n)
             Has == {j \in Nat : j <= Width => F[j] < Pow[Width - j]}
  <1>1. Base \in Nat \ {0} /\ Width \in Nat
    BY FramingAssumption
  <1>2. /\ F \in [0..Width -> Nat] /\ F[0] = n
        /\ \A k \in 1..Width : F[k] = F[k - 1] \div Base
    BY ShiftedValues
  <1> HIDE DEF F
  <1>3. Pow[Width] \in Nat
    BY <1>1, PowValues
  <1>4. n < Pow[Width]
    <2> DEFINE p == Pow[Width]
    <2>1. p \in Nat /\ n < p \div 2
      BY <1>3 DEF Half
    <2> HIDE DEF p
    <2>2. p \div 2 <= p
      BY <2>1
    <2>3. n < p
      BY <2>1, <2>2
    <2> QED
      BY <2>3 DEF p
  <1>5. 0 \in Has
    BY <1>1, <1>2, <1>4
  <1>6. ASSUME NEW j \in Nat, j \in Has
        PROVE  j + 1 \in Has
    <2>1. ASSUME j + 1 <= Width
          PROVE  F[j + 1] < Pow[Width - (j + 1)]
      <3> DEFINE p == Pow[Width - (j + 1)]
      <3>1. F[j] \in Nat /\ F[j] < Pow[Width - j]
        BY <1>1, <1>2, <1>6, <2>1
      <3>2. Width - j \in 1..Width /\ (Width - j) - 1 = Width - (j + 1)
        BY <1>1, <2>1
      <3>3. p \in Nat /\ Pow[Width - j] = Base * p
        BY <1>1, <2>1, <3>2, PowValues
      <3>4. F[j + 1] = F[j] \div Base
        BY <1>1, <1>2, <2>1
      <3> HIDE DEF p
      <3>5. F[j] \div Base < p
        BY <1>1, <3>1, <3>3, QuotientBound
      <3> QED
        BY <3>4, <3>5 DEF p
    <2> QED
      BY <2>1
  <1>7. Nat \subseteq Has
    <2> HIDE DEF Has
    <2> QED
      BY <1>5, <1>6, NatSetInduction
  <1>8. F[Width] < Pow[Width - Width]
    BY <1>1, <1>7
  <1>9. Pow[Width - Width] = 1
    BY <1>1, PowValues
  <1>10. F[Width] = 0
    BY <1>1, <1>2, <1>8, <1>9
  <1> QED
    BY <1>4, <1>10 DEF F

\* The bytes of a length.
LEMMA LengthBytes ==
  ASSUME NEW n \in Nat
  PROVE  /\ IntToBytes(n) \in [1..Width -> Bytes]
         /\ IntToBytes(n) \in Seq(Bytes)
         /\ Len(IntToBytes(n)) = Width
         /\ \A i \in 1..Width : IntToBytes(n)[i] = Shifted(n)[Width - i] % Base
  <1>1. Base \in Nat \ {0} /\ Width \in Nat
    BY FramingAssumption
  <1>2. ASSUME NEW i \in 1..Width
        PROVE  Shifted(n)[Width - i] % Base \in Bytes
    <2>1. Shifted(n)[Width - i] \in Nat
      BY <1>1, ShiftedValues
    <2> QED
      BY <1>1, <2>1, Quotient DEF Bytes
  <1>3. IntToBytes(n) \in [1..Width -> Bytes]
    BY <1>2 DEF IntToBytes
  <1>4. IntToBytes(n) \in Seq(Bytes)
    BY <1>1, <1>3, SeqDef
  <1>5. Len(IntToBytes(n)) = Width
    BY <1>1, <1>3, <1>4, LenProperties
  <1>6. \A i \in 1..Width : IntToBytes(n)[i] = Shifted(n)[Width - i] % Base
    BY DEF IntToBytes
  <1> QED
    BY <1>3, <1>4, <1>5, <1>6

\* What utils.BytesToInt reads is what utils.IntToBytes wrote, for every length below
\* the half of the values (io.go:53-65).
THEOREM ConversionInverts ==
  ASSUME NEW n \in Nat, n < Half
  PROVE  BytesToInt(IntToBytes(n)) = n
  <1> DEFINE bys == IntToBytes(n)
             F == Shifted(n)
             w == [i \in 0..Width |-> F[Width - i]]
             data == CHOOSE f : f = [i \in 0..Width |-> IF i = 0 THEN 0 ELSE Base * f[i - 1] + bys[i]]
             Has == {i \in Nat : i <= Width => data[i] = w[i]}
  <1>1. Base \in Nat \ {0} /\ Width \in Nat
    BY FramingAssumption
  <1>2. /\ F \in [0..Width -> Nat] /\ F[0] = n
        /\ \A k \in 1..Width : F[k] = F[k - 1] \div Base
        /\ F[Width] = 0
    BY ShiftedValues, ShiftedOut
  <1>3. \A i \in 1..Width : bys[i] = F[Width - i] % Base
    BY LengthBytes
  <1> HIDE DEF F, bys
  <1>4. ASSUME NEW i \in 1..Width
        PROVE  w[i] = Base * w[i - 1] + bys[i]
    <2> DEFINE m == F[Width - i]
    <2>1. m \in Nat /\ w[i] = m /\ bys[i] = m % Base
      BY <1>1, <1>2, <1>3
    <2>2. w[i - 1] = m \div Base
      <3>1. /\ i - 1 \in 0..Width /\ Width - (i - 1) \in 1..Width
            /\ (Width - (i - 1)) - 1 = Width - i
        BY <1>1
      <3> QED
        BY <1>2, <3>1
    <2> HIDE DEF m, w
    <2>3. m = Base * (m \div Base) + (m % Base)
      BY <1>1, <2>1, Quotient
    <2> QED
      BY <2>1, <2>2, <2>3
  <1>5. w[0] = 0
    BY <1>1, <1>2
  <1>6. w = [i \in 0..Width |-> w[i]]
    OBVIOUS
  <1>7. w = [i \in 0..Width |-> IF i = 0 THEN 0 ELSE Base * w[i - 1] + bys[i]]
    <2> HIDE DEF w
    <2> DEFINE g == [i \in 0..Width |-> IF i = 0 THEN 0 ELSE Base * w[i - 1] + bys[i]]
    <2>1. \A i \in 0..Width : w[i] = g[i]
      <3> TAKE i \in 0..Width
      <3>1. i # 0 => i \in 1..Width
        BY <1>1
      <3> QED
        BY <1>4, <1>5, <3>1
    <2> QED
      BY <1>6, <2>1
  <1>8. data = [i \in 0..Width |-> IF i = 0 THEN 0 ELSE Base * data[i - 1] + bys[i]]
    <2> HIDE DEF w
    <2> QED
      BY <1>7
  <1> HIDE DEF data
  <1>9. data[0] = 0
    BY <1>1, <1>8
  <1>10. \A i \in 1..Width : data[i] = Base * data[i - 1] + bys[i]
    BY <1>1, <1>8
  <1> HIDE DEF w
  <1>11. 0 \in Has
    BY <1>5, <1>9
  <1>12. ASSUME NEW i \in Nat, i \in Has
         PROVE  i + 1 \in Has
    <2>1. ASSUME i + 1 <= Width
          PROVE  data[i + 1] = w[i + 1]
      <3>1. i + 1 \in 1..Width /\ (i + 1) - 1 = i /\ i <= Width
        BY <1>1, <2>1
      <3>2. data[i + 1] = Base * data[i] + bys[i + 1]
        BY <1>10, <3>1
      <3>3. w[i + 1] = Base * w[i] + bys[i + 1]
        BY <1>4, <3>1
      <3>4. data[i] = w[i]
        BY <1>12, <3>1
      <3> QED
        BY <3>2, <3>3, <3>4
    <2> QED
      BY <2>1
  <1>13. Nat \subseteq Has
    <2> HIDE DEF Has
    <2> QED
      BY <1>11, <1>12, NatSetInduction
  <1>14. data[Width] = w[Width]
    BY <1>1, <1>13
  <1>15. w[Width] = n
    BY <1>1, <1>2 DEF w
  <1>16. BytesToInt(bys) = IF data[Width] < Half THEN data[Width] ELSE data[Width] - Pow[Width]
    BY DEF BytesToInt, data
  <1> QED
    BY <1>14, <1>15, <1>16 DEF bys

-----------------------------------------------------------------------------
(* Streams.                                                                *)

\* What comes first on a stream, and what is left of it.
LEMMA Cut ==
  ASSUME NEW S, NEW s \in Seq(S), NEW t \in Seq(S), NEW a \in Seq(S), NEW b \in Seq(S),
         s \o t = a \o b, Len(a) <= Len(s)
  PROVE  /\ SubSeq(s, 1, Len(a)) = a
         /\ Rest(s, Len(a)) \in Seq(S)
         /\ Rest(s, Len(a)) \o t = b
  <1> DEFINE h == SubSeq(s, 1, Len(a))
             u == Rest(s, Len(a))
  <1>1. /\ Len(s) \in Nat /\ Len(t) \in Nat /\ Len(a) \in Nat /\ Len(b) \in Nat
        /\ \A i \in 1..Len(s) : s[i] \in S
    BY LenProperties, ElementOfSeq
  <1>2. /\ h \in Seq(S) /\ Len(h) = Len(a)
        /\ \A i \in 1..Len(a) : h[i] = s[i]
    <2>1. \A i \in 1..Len(a) : s[i] \in S
      BY <1>1
    <2>2. /\ h \in Seq(S) /\ Len(h) = (IF 1 <= Len(a) THEN Len(a) - 1 + 1 ELSE 0)
          /\ \A i \in 1..(Len(a) - 1 + 1) : h[i] = s[1 + i - 1]
      BY <1>1, <2>1, SubSeqProperties DEF Rest
    <2> QED
      BY <1>1, <2>2
  <1>3. /\ u \in Seq(S) /\ Len(u) = Len(s) - Len(a)
        /\ \A i \in 1..Len(s) - Len(a) : u[i] = s[i + Len(a)]
    <2>1. \A i \in Len(a) + 1..Len(s) : s[i] \in S
      BY <1>1
    <2>2. /\ u \in Seq(S)
          /\ Len(u) = (IF Len(a) + 1 <= Len(s) THEN Len(s) - (Len(a) + 1) + 1 ELSE 0)
          /\ \A i \in 1..(Len(s) - (Len(a) + 1) + 1) : u[i] = s[Len(a) + 1 + i - 1]
      BY <1>1, <2>1, SubSeqProperties DEF Rest
    <2> QED
      BY <1>1, <2>2
  <1>4. /\ Len(s) + Len(t) = Len(a) + Len(b)
        /\ \A i \in 1..Len(s) + Len(t) :
             (IF i <= Len(s) THEN s[i] ELSE t[i - Len(s)])
             = (IF i <= Len(a) THEN a[i] ELSE b[i - Len(a)])
    <2>1. /\ Len(s \o t) = Len(s) + Len(t)
          /\ \A i \in 1..Len(s) + Len(t) : (s \o t)[i] = IF i <= Len(s) THEN s[i] ELSE t[i - Len(s)]
      BY ONLY s \in Seq(S), t \in Seq(S), ConcatProperties
    <2>2. /\ Len(a \o b) = Len(a) + Len(b)
          /\ \A i \in 1..Len(a) + Len(b) : (a \o b)[i] = IF i <= Len(a) THEN a[i] ELSE b[i - Len(a)]
      BY ONLY a \in Seq(S), b \in Seq(S), ConcatProperties
    <2> QED
      BY <2>1, <2>2
  <1> HIDE DEF h, u
  <1>5. h = a
    <2>1. \A i \in 1..Len(h) : h[i] = a[i]
      BY <1>1, <1>2, <1>4
    <2> QED
      BY <1>2, <2>1, SeqEqual
  <1>6. u \o t = b
    <2>1. /\ u \o t \in Seq(S) /\ Len(u \o t) = Len(u) + Len(t)
          /\ \A i \in 1..Len(u) + Len(t) : (u \o t)[i] = IF i <= Len(u) THEN u[i] ELSE t[i - Len(u)]
      <3>1. u \in Seq(S)
        BY <1>3
      <3> QED
        BY ONLY <3>1, t \in Seq(S), ConcatProperties
    <2>2. Len(u \o t) = Len(b)
      BY <1>1, <1>3, <1>4, <2>1
    <2>3. ASSUME NEW i \in 1..Len(u \o t)
          PROVE  (u \o t)[i] = b[i]
      <3> DEFINE j == i + Len(a)
      <3>1. /\ j \in 1..Len(s) + Len(t) /\ ~(j <= Len(a)) /\ j - Len(a) = i
            /\ j - Len(s) = i - Len(u) /\ (j <= Len(s) <=> i <= Len(u))
        BY <1>1, <1>3, <1>4, <2>1
      <3>2. (IF j <= Len(s) THEN s[j] ELSE t[j - Len(s)]) = b[i]
        BY <1>4, <3>1
      <3>3. i <= Len(u) => u[i] = s[j]
        BY <1>3
      <3> QED
        BY <2>1, <3>1, <3>2, <3>3
    <2> QED
      BY <2>1, <2>2, <2>3, SeqEqual
  <1> QED
    BY <1>3, <1>5, <1>6 DEF h, u

\* A stream and its first m bytes.
LEMMA Split ==
  ASSUME NEW S, NEW s \in Seq(S), NEW m \in 0..Len(s)
  PROVE  /\ SubSeq(s, 1, m) \in Seq(S)
         /\ Len(SubSeq(s, 1, m)) = m
         /\ Rest(s, m) \in Seq(S)
         /\ Len(Rest(s, m)) = Len(s) - m
         /\ \A i \in 1..m : SubSeq(s, 1, m)[i] = s[i]
         /\ SubSeq(s, 1, m) \o Rest(s, m) = s
  <1>1. /\ Len(s) \in Nat /\ m \in Nat /\ m <= Len(s)
        /\ \A i \in 1..Len(s) : s[i] \in S
    BY LenProperties, ElementOfSeq
  <1>2. /\ SubSeq(s, 1, m) \in Seq(S)
        /\ Len(SubSeq(s, 1, m)) = m
        /\ \A i \in 1..m : SubSeq(s, 1, m)[i] = s[i]
    <2>1. \A i \in 1..m : s[i] \in S
      BY <1>1
    <2>2. /\ SubSeq(s, 1, m) \in Seq(S)
          /\ Len(SubSeq(s, 1, m)) = (IF 1 <= m THEN m - 1 + 1 ELSE 0)
          /\ \A i \in 1..(m - 1 + 1) : SubSeq(s, 1, m)[i] = s[1 + i - 1]
      BY <1>1, <2>1, SubSeqProperties DEF Rest
    <2> QED
      BY <1>1, <2>2
  <1>3. /\ Rest(s, m) \in Seq(S)
        /\ Len(Rest(s, m)) = Len(s) - m
    <2>1. \A i \in m + 1..Len(s) : s[i] \in S
      BY <1>1
    <2>2. /\ Rest(s, m) \in Seq(S)
          /\ Len(Rest(s, m)) = (IF m + 1 <= Len(s) THEN Len(s) - (m + 1) + 1 ELSE 0)
      BY <1>1, <2>1, SubSeqProperties DEF Rest
    <2> QED
      BY <1>1, <2>2
  <1>4. SubSeq(s, 1, m) \o Rest(s, m) = SubSeq(s, 1, Len(s))
    <2>1. 1 \in 1..(Len(s) + 1) /\ m \in (1 - 1)..Len(s) /\ Len(s) \in m..Len(s)
      BY <1>1
    <2> QED
      BY <2>1, ConcatAdjacentSubSeq DEF Rest
  <1> QED
    BY <1>2, <1>3, <1>4, SubSeqFull

\* The middle of a stream, cut off at its end and then at its beginning.
LEMMA Middle ==
  ASSUME NEW S, NEW s \in Seq(S), NEW n \in 0..Len(s), NEW m \in 0..n
  PROVE  SubSeq(s, m + 1, n) = SubSeq(Rest(s, m), 1, n - m)
  <1> DEFINE u == Rest(s, m)
             x == SubSeq(s, m + 1, n)
             y == SubSeq(u, 1, n - m)
  <1>1. /\ Len(s) \in Nat /\ m \in Nat /\ n \in Nat /\ m <= n /\ n <= Len(s)
        /\ \A i \in 1..Len(s) : s[i] \in S
    BY LenProperties, ElementOfSeq
  <1>2. x \in Seq(S) /\ Len(x) = n - m /\ \A i \in 1..(n - m) : x[i] = s[i + m]
    <2>1. \A i \in m + 1..n : s[i] \in S
      BY <1>1
    <2>2. /\ x \in Seq(S)
          /\ Len(x) = (IF m + 1 <= n THEN n - (m + 1) + 1 ELSE 0)
          /\ \A i \in 1..(n - (m + 1) + 1) : x[i] = s[m + 1 + i - 1]
      BY <1>1, <2>1, SubSeqProperties DEF Rest
    <2> QED
      BY <1>1, <2>2
  <1>3. u \in Seq(S) /\ Len(u) = Len(s) - m /\ \A i \in 1..(Len(s) - m) : u[i] = s[i + m]
    <2>1. \A i \in m + 1..Len(s) : s[i] \in S
      BY <1>1
    <2>2. /\ u \in Seq(S)
          /\ Len(u) = (IF m + 1 <= Len(s) THEN Len(s) - (m + 1) + 1 ELSE 0)
          /\ \A i \in 1..(Len(s) - (m + 1) + 1) : u[i] = s[m + 1 + i - 1]
      BY <1>1, <2>1, SubSeqProperties DEF Rest
    <2> QED
      BY <1>1, <2>2
  <1> HIDE DEF u, x
  <1>4. y \in Seq(S) /\ Len(y) = n - m /\ \A i \in 1..(n - m) : y[i] = u[i]
    <2>1. n - m \in 0..Len(u)
      BY <1>1, <1>3
    <2> QED
      BY <1>3, <2>1, Split
  <1> HIDE DEF y
  <1>5. \A i \in 1..Len(x) : x[i] = y[i]
    BY <1>1, <1>2, <1>3, <1>4
  <1>6. x = y
    BY <1>2, <1>4, <1>5, SeqEqual
  <1> QED
    BY <1>6 DEF x, y, u

\* A stream whose head is read.
LEMMA HeadFirst ==
  ASSUME NEW S, NEW s \in Seq(S), s # <<>>
  PROVE  /\ Head(s) \in S /\ <<Head(s)>> \in Seq(S)
         /\ Tail(s) \in Seq(S)
         /\ Rest(s, 1) = Tail(s)
         /\ s = <<Head(s)>> \o Tail(s)
  <1>1. Len(s) \in Nat \ {0} /\ 1 \in 1..Len(s) /\ Len(s) \in 1..Len(s)
    BY EmptySeq
  <1>2. Tail(s) = SubSeq(s, 2, Len(s))
    BY TailIsSubSeq
  <1>3. Head(s) = s[1]
    OBVIOUS
  <1>4. SubSeq(s, 1, Len(s)) = <<s[1]>> \o SubSeq(s, 1 + 1, Len(s))
    BY <1>1, SubSeqRecursiveFirst
  <1>5. s = <<Head(s)>> \o Tail(s)
    BY <1>2, <1>3, <1>4, SubSeqFull
  <1>6. Head(s) \in S /\ Tail(s) \in Seq(S)
    BY HeadTailProperties
  <1> QED
    BY <1>2, <1>5, <1>6 DEF Rest

\* The bytes of a frame.
LEMMA FrameBytes ==
  ASSUME NEW body \in Seq(Bytes)
  PROVE  /\ Frame(body) \in Seq(Bytes)
         /\ Len(Frame(body)) = Width + Len(body)
  BY LengthBytes, ConcatProperties, LenProperties DEF Frame

\* Concatenation, stated for the bytes of a stream.
LEMMA Joined == \A x, y \in Seq(Bytes) : x \o y \in Seq(Bytes)
  BY ConcatProperties

LEMMA Regrouped == \A x, y, z \in Seq(Bytes) : (x \o y) \o z = x \o (y \o z)
  BY ConcatAssociative

\* io.ReadFull twice: what starts with a frame is read as that frame.
LEMMA ReadFrame ==
  ASSUME NEW s \in Seq(Bytes), NEW t \in Seq(Bytes), NEW w \in Seq(Bytes),
         NEW body \in Seq(Bytes), Len(body) < Half,
         s \o t = Frame(body) \o w, HasFrame(s)
  PROVE  /\ FrameEnd(s) \in 0..Len(s)
         /\ SubSeq(s, Width + 1, FrameEnd(s)) = body
         /\ Rest(s, FrameEnd(s)) \in Seq(Bytes)
         /\ Rest(s, FrameEnd(s)) \o t = w
  <1> DEFINE size == IntToBytes(Len(body))
             u == Rest(s, Width)
  <1>1. /\ Len(s) \in Nat /\ Len(body) \in Nat /\ Width \in Nat
        /\ size \in Seq(Bytes) /\ Len(size) = Width
    BY FramingAssumption, LenProperties, LengthBytes
  <1>2. /\ Width <= Len(s)
        /\ BytesToInt(SubSeq(s, 1, Width)) <= Len(s) - Width
    BY <1>1 DEF HasFrame
  <1>3. BytesToInt(size) = Len(body)
    BY <1>1, ConversionInverts
  <1>4. Frame(body) = size \o body /\ Frame(body) \in Seq(Bytes) /\ Len(Frame(body)) = Width + Len(body)
    BY FrameBytes DEF Frame
  <1> HIDE DEF size
  <1>5. s \o t = size \o (body \o w) /\ body \o w \in Seq(Bytes)
    <2>1. (size \o body) \o w = size \o (body \o w)
      BY <1>1, Regrouped, Zenon
    <2>2. body \o w \in Seq(Bytes)
      BY Joined, Zenon
    <2> QED
      BY <1>4, <2>1, <2>2
  <1>6. SubSeq(s, 1, Width) = size /\ u \in Seq(Bytes) /\ u \o t = body \o w
    <2>1. Len(size) <= Len(s)
      BY <1>1, <1>2
    <2>2. /\ SubSeq(s, 1, Len(size)) = size
          /\ Rest(s, Len(size)) \in Seq(Bytes)
          /\ Rest(s, Len(size)) \o t = body \o w
      BY <1>1, <1>5, <2>1, Cut
    <2> QED
      BY <1>1, <2>2
  <1>7. FrameEnd(s) = Width + Len(body)
    BY <1>3, <1>6 DEF FrameEnd
  <1>8. Width + Len(body) <= Len(s)
    <2>1. BytesToInt(SubSeq(s, 1, Width)) = Len(body)
      BY <1>3, <1>6
    <2> QED
      BY <1>1, <1>2, <2>1
  <1>9. SubSeq(u, 1, Len(body)) = body
    <2>1. Len(u) = Len(s) - Width
      BY <1>1, <1>2, Split
    <2>2. Len(body) <= Len(u)
      BY <1>1, <1>8, <2>1
    <2> HIDE DEF u
    <2> QED
      BY <1>6, <2>2, Cut
  <1>10. SubSeq(s, Width + 1, FrameEnd(s)) = body
    <2>1. FrameEnd(s) \in 0..Len(s) /\ Width \in 0..FrameEnd(s) /\ FrameEnd(s) - Width = Len(body)
      BY <1>1, <1>7, <1>8
    <2>2. SubSeq(s, Width + 1, FrameEnd(s)) = SubSeq(u, 1, FrameEnd(s) - Width)
      BY <2>1, Middle
    <2> QED
      BY <1>9, <2>1, <2>2
  <1>11. /\ Rest(s, FrameEnd(s)) \in Seq(Bytes)
         /\ Rest(s, FrameEnd(s)) \o t = w
    <2>1. ASSUME NEW f \in Seq(Bytes), Len(f) <= Len(s), s \o t = f \o w
          PROVE  /\ Rest(s, Len(f)) \in Seq(Bytes)
                 /\ Rest(s, Len(f)) \o t = w
      BY ONLY s \in Seq(Bytes), t \in Seq(Bytes), w \in Seq(Bytes), f \in Seq(Bytes), Len(f) <= Len(s), s \o t = f \o w, Cut, Zenon
    <2>2. /\ Rest(s, Len(Frame(body))) \in Seq(Bytes)
          /\ Rest(s, Len(Frame(body))) \o t = w
      BY <1>4, <1>7, <1>8, <2>1
    <2> QED
      BY <1>4, <1>7, <2>2
  <1>12. FrameEnd(s) \in 0..Len(s)
    BY <1>1, <1>7, <1>8
  <1> QED
    BY <1>10, <1>11, <1>12

-----------------------------------------------------------------------------
(* The inductive invariant.                                                *)

\* Where dialer and acceptor can be together.
StageInv ==
  /\ up => /\ acceptor # "ended"
           /\ dialer = "ready" => acceptor \in {"ready", "copy"}
           /\ dialer = "push" => acceptor = "accept" /\ stream["up"] = <<>>
  /\ acceptor = "accept" => stream["up"] \in {<<>>, <<Push>>} /\ (up => order = <<>>)
  /\ acceptor \in {"accept", "ids"} => got = <<>> /\ stream["down"] = <<>>
  /\ acceptor = "ready" /\ kind = "data" => got = <<>>
  /\ acceptor = "copy" => kind = "data" /\ got # <<>>

\* One goroutine writes at a time, on a data tunnel only one ever does, and none
\* does before the ids are read.
WriterInv ==
  /\ order # <<>> => dialer = "ready"
  /\ order = <<>> => \A r \in Requests : writer[r] = "idle"
  /\ \A r, s \in Requests : writer[r] = "writing" /\ writer[s] = "writing" => r = s
  /\ kind = "data" => Len(order) <= 1 /\ \A r, s \in Requests : writer[r] # "idle" /\ writer[s] # "idle" => r = s

\* Raw bytes follow the request of a data tunnel, at both ends.
CopyInv ==
  /\ \A d \in Directions : sent[d] <= Len(Raw[d])
  /\ sent["up"] # 0 => kind = "data" /\ order # <<>>
  /\ copied["up"] # <<>> => acceptor = "copy"
  /\ sent["down"] # 0 => dialer = "ready"
  /\ copied["down"] # <<>> => dialer = "ready"

GotInv ==
  /\ Len(got) <= Len(order)
  /\ \A i \in 1..Len(got) : got[i] = Body[order[i]]

\* w[i]: all that the dialer has to write from its i-th request on.
Layout(w) ==
  /\ w \in [1..(Len(order) + 1) -> Seq(Bytes)]
  /\ w[Len(order) + 1] = SubSeq(Raw["up"], 1, sent["up"])
  /\ \A i \in 1..Len(order) : w[i] = Frame(Body[order[i]]) \o w[i + 1]

\* While the session is up, t is what a goroutine has still to write.
Owed(t) ==
  up => /\ \A r \in Requests : writer[r] = "writing" => t = rest[r]
        /\ (\A r \in Requests : writer[r] # "writing") => t = <<>>

\* The stream goes on where the reader is.
UpInv ==
  \E w : /\ Layout(w)
         /\ acceptor # "accept" =>
              \E t \in Seq(Bytes) : /\ copied["up"] \o (stream["up"] \o t) = w[Len(got) + 1]
                                    /\ Owed(t)

DownInv ==
  /\ ids \in {None, Ids}
  /\ \E t \in Seq(Bytes) :
       /\ copied["down"] \o (stream["down"] \o t) =
            IF dialer = "ready" THEN SubSeq(Raw["down"], 1, sent["down"]) ELSE Frame(Ids)
       /\ up /\ acceptor \in {"ready", "copy"} => t = <<>>

FramingInv == TypeOK /\ StageInv /\ WriterInv /\ CopyInv /\ GotInv /\ UpInv /\ DownInv

-----------------------------------------------------------------------------
LEMMA InitFramingInv == Init => FramingInv
  <1> SUFFICES ASSUME Init PROVE FramingInv
    OBVIOUS
  <1> USE DEF Init
  <1>1. TypeOK
    BY DEF TypeOK, Directions
  <1>2. StageInv
    BY DEF StageInv, Directions
  <1>3. WriterInv
    BY DEF WriterInv
  <1>4. CopyInv
    BY FramingAssumption, LenProperties DEF CopyInv, Directions
  <1>5. GotInv
    BY DEF GotInv
  <1>6. UpInv
    <2> DEFINE w == [i \in 1..1 |-> <<>>]
    <2>1. Layout(w)
      BY SubSeqEmpty DEF Layout, Directions
    <2> QED
      BY <2>1 DEF UpInv
  <1>7. DownInv
    <2>1. Frame(Ids) \in Seq(Bytes)
      BY FramingAssumption, FrameBytes
    <2>2. <<>> \o (<<>> \o Frame(Ids)) = Frame(Ids)
      BY <2>1
    <2> QED
      BY <2>1, <2>2 DEF DownInv, Directions
  <1> QED
    BY <1>1, <1>2, <1>3, <1>4, <1>5, <1>6, <1>7 DEF FramingInv

\* The types of what a step on a stream leaves there.
LEMMA WriteType ==
  ASSUME TypeOK, NEW d \in Directions, NEW bytes \in Seq(Bytes), Write(d, bytes)
  PROVE  /\ stream' \in [Directions -> Seq(Bytes)]
         /\ stream'[d] = stream[d] \o bytes
         /\ \A e \in Directions \ {d} : stream'[e] = stream[e]
  <1>1. stream[d] \in Seq(Bytes)
    BY DEF TypeOK
  <1>2. stream[d] \o bytes \in Seq(Bytes)
    BY <1>1, ConcatProperties
  <1> QED
    BY <1>2 DEF TypeOK, Write

LEMMA DropType ==
  ASSUME TypeOK, NEW d \in Directions, NEW n \in 0..Len(stream[d]), Drop(d, n)
  PROVE  /\ stream' \in [Directions -> Seq(Bytes)]
         /\ stream'[d] = Rest(stream[d], n)
         /\ \A e \in Directions \ {d} : stream'[e] = stream[e]
  <1>1. stream[d] \in Seq(Bytes)
    BY DEF TypeOK
  <1>2. Rest(stream[d], n) \in Seq(Bytes)
    BY <1>1, Split
  <1> QED
    BY <1>2 DEF TypeOK, Drop

-----------------------------------------------------------------------------
(* The handshake.                                                          *)

LEMMA WritePushInv == FramingInv /\ WritePush => FramingInv'
  <1> SUFFICES ASSUME FramingInv, WritePush PROVE FramingInv'
    OBVIOUS
  <1>1. TypeOK /\ StageInv /\ WriterInv /\ CopyInv /\ GotInv /\ UpInv /\ DownInv
    BY DEF FramingInv
  <1>2. <<Push>> \in Seq(Bytes) /\ "up" \in Directions /\ "down" \in Directions
    BY FramingAssumption DEF Directions
  <1>3. /\ stream' \in [Directions -> Seq(Bytes)] /\ stream'["down"] = stream["down"]
        /\ stream'["up"] = stream["up"] \/ (up /\ stream'["up"] = <<Push>>)
    <2>1. CASE up
      <3>1. stream["up"] = <<>>
        BY <1>1, <2>1 DEF StageInv, WritePush
      <3>2. Write("up", <<Push>>)
        BY <2>1 DEF WritePush
      <3>3. stream'["up"] = <<>> \o <<Push>> /\ stream'["down"] = stream["down"]
            /\ stream' \in [Directions -> Seq(Bytes)]
        BY <1>1, <1>2, <3>1, <3>2, WriteType DEF Directions
      <3>4. <<>> \o <<Push>> = <<Push>>
        BY <1>2, ConcatEmptySeq
      <3> QED
        BY <2>1, <3>3, <3>4
    <2>2. CASE ~up
      BY <1>1, <2>2 DEF WritePush, TypeOK
    <2> QED
      BY <2>1, <2>2
  <1> USE DEF WritePush, writerVars, copyVars
  <1>4. TypeOK'
    BY <1>1, <1>3 DEF TypeOK
  <1>5. StageInv'
    BY <1>1, <1>3 DEF StageInv
  <1>6. WriterInv'
    BY <1>1 DEF WriterInv
  <1>7. CopyInv'
    BY <1>1 DEF CopyInv
  <1>8. GotInv'
    BY <1>1 DEF GotInv
  <1>9. UpInv'
    <2>1. up => acceptor = "accept"
      BY <1>1 DEF StageInv
    <2> QED
      BY <1>1, <1>3, <2>1 DEF UpInv, Layout, Owed
  <1>10. DownInv'
    BY <1>1, <1>3 DEF DownInv
  <1> QED
    BY <1>4, <1>5, <1>6, <1>7, <1>8, <1>9, <1>10 DEF FramingInv

LEMMA AddAcceptInvokerInv == FramingInv /\ AddAcceptInvoker => FramingInv'
  <1> SUFFICES ASSUME FramingInv, AddAcceptInvoker PROVE FramingInv'
    OBVIOUS
  <1>1. TypeOK /\ StageInv /\ WriterInv /\ CopyInv /\ GotInv /\ UpInv /\ DownInv
    BY DEF FramingInv
  <1>2. "up" \in Directions /\ "down" \in Directions
    BY DEF Directions
  <1>3. /\ stream' \in [Directions -> Seq(Bytes)]
        /\ stream'["up"] = <<>> /\ stream'["down"] = stream["down"]
        /\ up => stream["up"] # <<>>
    <2>1. CASE \E n \in 1..Len(stream["up"]) : Drop("up", n)
      <3>1. PICK n \in 1..Len(stream["up"]) : Drop("up", n)
        BY <2>1
      <3>2. stream["up"] \in Seq(Bytes) /\ n \in 0..Len(stream["up"])
        BY <1>1, <1>2 DEF TypeOK
      <3>3. /\ stream' \in [Directions -> Seq(Bytes)] /\ stream'["down"] = stream["down"]
            /\ stream'["up"] = Rest(stream["up"], n)
        BY <1>1, <1>2, <3>1, <3>2, DropType DEF Directions
      <3>4. stream["up"] = <<Push>>
        BY <1>1, <3>1 DEF StageInv, AddAcceptInvoker
      <3>5. Rest(<<Push>>, 1) = <<>> /\ n = 1
        BY <3>1, <3>4, SubSeqEmpty DEF Rest
      <3> QED
        BY <3>3, <3>4, <3>5
    <2>2. CASE ~up /\ stream["up"] = <<>> /\ UNCHANGED stream
      BY <1>1, <2>2 DEF TypeOK
    <2> QED
      BY <2>1, <2>2 DEF AddAcceptInvoker
  <1> USE DEF AddAcceptInvoker, writerVars, copyVars
  <1>4. TypeOK'
    BY <1>1, <1>3 DEF TypeOK
  <1>5. StageInv'
    BY <1>1, <1>3 DEF StageInv
  <1>6. WriterInv'
    BY <1>1 DEF WriterInv
  <1>7. CopyInv'
    BY <1>1 DEF CopyInv
  <1>8. GotInv'
    BY <1>1 DEF GotInv
  <1>9. UpInv'
    <2>1. PICK w : Layout(w)
      BY <1>1 DEF UpInv
    <2>2. got = <<>> /\ copied["up"] = <<>>
      BY <1>1 DEF StageInv, CopyInv
    <2>3. w[1] \in Seq(Bytes) /\ (up => w[1] = <<>> /\ \A r \in Requests : writer[r] # "writing")
      <3>1. 1 \in 1..(Len(order) + 1)
        BY <1>1, LenProperties DEF TypeOK
      <3>2. w[1] \in Seq(Bytes)
        BY <2>1, <3>1 DEF Layout
      <3>3. ASSUME up PROVE w[1] = <<>> /\ \A r \in Requests : writer[r] # "writing"
        <4>1. order = <<>> /\ sent["up"] = 0
          BY <1>1, <3>3 DEF StageInv, CopyInv
        <4>2. w[1] = SubSeq(Raw["up"], 1, 0)
          BY <2>1, <4>1 DEF Layout
        <4> QED
          BY <1>1, <4>1, <4>2, SubSeqEmpty DEF WriterInv
      <3> QED
        BY <3>2, <3>3
    <2>4. <<>> \o (<<>> \o w[1]) = w[1]
      BY <2>3, ConcatEmptySeq
    <2>5. Layout(w)'
      BY <2>1 DEF Layout
    <2>6. copied'["up"] \o (stream'["up"] \o w[1]) = w[Len(got') + 1]
      BY <1>3, <2>2, <2>4
    <2>7. Owed(w[1])'
      BY <2>3 DEF Owed
    <2> QED
      BY <2>3, <2>5, <2>6, <2>7 DEF UpInv
  <1>10. DownInv'
    BY <1>1, <1>3 DEF DownInv
  <1> QED
    BY <1>4, <1>5, <1>6, <1>7, <1>8, <1>9, <1>10 DEF FramingInv

LEMMA WriteIdsInv == FramingInv /\ WriteIds => FramingInv'
  <1> SUFFICES ASSUME FramingInv, WriteIds PROVE FramingInv'
    OBVIOUS
  <1>1. TypeOK /\ StageInv /\ WriterInv /\ CopyInv /\ GotInv /\ UpInv /\ DownInv
    BY DEF FramingInv
  <1>2. "up" \in Directions /\ "down" \in Directions /\ Frame(Ids) \in Seq(Bytes)
    BY FramingAssumption, FrameBytes DEF Directions
  <1>3. /\ stream' \in [Directions -> Seq(Bytes)] /\ stream'["up"] = stream["up"]
        /\ \/ up /\ stream'["down"] = Frame(Ids) /\ acceptor' = "ready"
           \/ ~up /\ stream'["down"] = stream["down"] /\ acceptor' = "ended"
    <2>1. CASE Write("down", Frame(Ids)) /\ acceptor' = "ready"
      <3>1. stream["down"] = <<>>
        BY <1>1 DEF StageInv, WriteIds
      <3>2. stream'["down"] = <<>> \o Frame(Ids) /\ stream'["up"] = stream["up"]
            /\ stream' \in [Directions -> Seq(Bytes)]
        BY <1>1, <1>2, <2>1, <3>1, WriteType DEF Directions
      <3>3. <<>> \o Frame(Ids) = Frame(Ids)
        BY <1>2, ConcatEmptySeq
      <3> QED
        BY <2>1, <3>2, <3>3 DEF Write
    <2>2. CASE ~up /\ UNCHANGED stream /\ acceptor' = "ended"
      BY <1>1, <2>2 DEF TypeOK
    <2> QED
      BY <2>1, <2>2 DEF WriteIds
  <1> USE DEF WriteIds, writerVars, copyVars
  <1>4. TypeOK'
    BY <1>1, <1>3 DEF TypeOK
  <1>5. StageInv'
    BY <1>1, <1>3 DEF StageInv
  <1>6. WriterInv'
    BY <1>1 DEF WriterInv
  <1>7. CopyInv'
    BY <1>1 DEF CopyInv
  <1>8. GotInv'
    BY <1>1 DEF GotInv
  <1>9. UpInv'
    <2>1. acceptor # "accept"
      OBVIOUS
    <2> QED
      BY <1>1, <1>3, <2>1 DEF UpInv, Layout, Owed
  <1>10. DownInv'
    <2>1. CASE up
      <3>1. dialer # "ready" /\ copied["down"] = <<>>
        BY <1>1, <2>1 DEF StageInv, CopyInv
      <3>2. <<>> \o (Frame(Ids) \o <<>>) = Frame(Ids) /\ <<>> \in Seq(Bytes)
        BY <1>2, ConcatEmptySeq, EmptySeq
      <3> QED
        BY <1>1, <1>3, <2>1, <3>1, <3>2 DEF DownInv
    <2>2. CASE ~up
      BY <1>1, <1>3, <2>2 DEF DownInv
    <2> QED
      BY <2>1, <2>2
  <1> QED
    BY <1>4, <1>5, <1>6, <1>7, <1>8, <1>9, <1>10 DEF FramingInv

LEMMA AddDialInvokerInv == FramingInv /\ AddDialInvoker => FramingInv'
  <1> SUFFICES ASSUME FramingInv, AddDialInvoker PROVE FramingInv'
    OBVIOUS
  <1>1. TypeOK /\ StageInv /\ WriterInv /\ CopyInv /\ GotInv /\ UpInv /\ DownInv
    BY DEF FramingInv
  <1>2. "up" \in Directions /\ "down" \in Directions /\ Ids \in Seq(Bytes) /\ Len(Ids) < Half
    BY FramingAssumption DEF Directions
  <1>0. PICK s : s = stream["down"]
    OBVIOUS
  <1>3. s # <<>> => acceptor \notin {"accept", "ids"}
    BY <1>0, <1>1 DEF StageInv
  <1>4. s \in Seq(Bytes) /\ copied["down"] = <<>> /\ sent["down"] = 0
    BY <1>0, <1>1, <1>2 DEF TypeOK, CopyInv, AddDialInvoker
  <1>5. PICK t \in Seq(Bytes) : /\ s \o t = Frame(Ids)
                                /\ up /\ acceptor \in {"ready", "copy"} => t = <<>>
    <2>1. PICK t \in Seq(Bytes) :
                 /\ copied["down"] \o (s \o t) = Frame(Ids)
                 /\ up /\ acceptor \in {"ready", "copy"} => t = <<>>
      BY <1>0, <1>1 DEF DownInv, AddDialInvoker
    <2>2. s \o t \in Seq(Bytes)
      BY <1>4, ConcatProperties
    <2>3. <<>> \o (s \o t) = s \o t
      BY <2>2, ConcatEmptySeq
    <2> QED
      BY <1>4, <2>1, <2>3
  <1>6. /\ stream' \in [Directions -> Seq(Bytes)] /\ stream'["up"] = stream["up"]
        /\ stream'["down"] = <<>> /\ ids' \in {None, Ids}
        /\ up => acceptor \notin {"accept", "ids"}
    <2>1. CASE /\ HasFrame(s)
               /\ ids' = SubSeq(s, Width + 1, FrameEnd(s))
               /\ Drop("down", FrameEnd(s))
      <3>1. s \o t = Frame(Ids) \o <<>> /\ <<>> \in Seq(Bytes)
        <4>1. Frame(Ids) \in Seq(Bytes) /\ <<>> \in Seq(Bytes)
          BY <1>2, FrameBytes, EmptySeq
        <4>2. Frame(Ids) \o <<>> = Frame(Ids)
          BY <4>1, ConcatEmptySeq
        <4>3. s \o t = Frame(Ids)
          BY <1>5
        <4> QED
          BY <4>1, <4>2, <4>3
      <3>2. /\ FrameEnd(s) \in 0..Len(s) /\ SubSeq(s, Width + 1, FrameEnd(s)) = Ids
            /\ Rest(s, FrameEnd(s)) \in Seq(Bytes) /\ Rest(s, FrameEnd(s)) \o t = <<>>
        BY <1>2, <1>4, <1>5, <2>1, <3>1, ReadFrame
      <3>3. Rest(s, FrameEnd(s)) = <<>>
        BY <3>2, ConcatEqualIffEmpty, ConcatSimplifications
      <3>4. /\ stream' \in [Directions -> Seq(Bytes)] /\ stream'["up"] = stream["up"]
            /\ stream'["down"] = Rest(s, FrameEnd(s))
        BY <1>1, <1>2, <2>1, <3>2, DropType, <1>0 DEF Directions
      <3>5. acceptor \notin {"accept", "ids"}
        <4>1. Len(s) # 0
          BY <1>4, <2>1, FramingAssumption, LenProperties DEF HasFrame
        <4> QED
          BY <1>3, <4>1, EmptySeq
      <3>6. ids' \in {None, Ids}
        BY <2>1, <3>2
      <3> QED
        BY <3>3, <3>4, <3>5, <3>6
    <2>2. CASE ~up /\ ~HasFrame(s) /\ Drop("down", Len(s)) /\ UNCHANGED ids
      <3>1. Len(s) \in 0..Len(s)
        BY <1>4, LenProperties
      <3>2. /\ stream' \in [Directions -> Seq(Bytes)] /\ stream'["up"] = stream["up"]
            /\ stream'["down"] = Rest(s, Len(s))
        BY <1>1, <1>2, <2>2, <3>1, DropType, <1>0 DEF Directions
      <3>3. Rest(s, Len(s)) = <<>>
        BY <3>1, SubSeqEmpty DEF Rest
      <3> QED
        BY <1>1, <2>2, <3>2, <3>3 DEF DownInv
    <2> QED
      BY <1>0, <2>1, <2>2 DEF AddDialInvoker
  <1> USE DEF AddDialInvoker, writerVars, copyVars
  <1>7. TypeOK'
    BY <1>1, <1>2, <1>6 DEF TypeOK
  <1>8. StageInv'
    BY <1>1, <1>6 DEF StageInv, TypeOK
  <1>9. WriterInv'
    BY <1>1 DEF WriterInv
  <1>10. CopyInv'
    BY <1>1 DEF CopyInv
  <1>11. GotInv'
    BY <1>1 DEF GotInv
  <1>12. UpInv'
    BY <1>1, <1>6 DEF UpInv, Layout, Owed
  <1>13. DownInv'
    <2>1. SubSeq(Raw["down"], 1, 0) = <<>> /\ <<>> \o (<<>> \o <<>>) = <<>> /\ <<>> \in Seq(Bytes)
      BY SubSeqEmpty, EmptySeq, ConcatEmptySeq
    <2> QED
      BY <1>4, <1>6, <2>1 DEF DownInv
  <1> QED
    BY <1>7, <1>8, <1>9, <1>10, <1>11, <1>12, <1>13 DEF FramingInv

-----------------------------------------------------------------------------
(* The requests.                                                           *)

\* A request is the last of all that the dialer has to write.
LEMMA RequestLaid ==
  ASSUME NEW w, Layout(w), TypeOK, NEW r \in Requests, order' = Append(order, r),
         sent["up"] = 0, sent'["up"] = 0
  PROVE  \E v : Layout(v)' /\ \A i \in 1..(Len(order) + 1) : v[i] = w[i] \o Frame(Body[r])
  <1> DEFINE f == Frame(Body[r])
  <1>0. PICK n : n = Len(order)
    OBVIOUS
  <1>1. /\ n \in Nat /\ \A i \in 1..n : order[i] \in Requests
        /\ \A q \in Requests : Frame(Body[q]) \in Seq(Bytes)
    BY <1>0, FramingAssumption, FrameBytes, LenProperties, ElementOfSeq DEF TypeOK
  <1>2. Len(order') = n + 1 /\ order'[n + 1] = r /\ \A i \in 1..n : order'[i] = order[i]
    BY <1>0, AppendProperties DEF TypeOK
  <1>3. SubSeq(Raw["up"], 1, 0) = <<>> /\ <<>> \in Seq(Bytes)
    BY SubSeqEmpty, EmptySeq
  <1>4. /\ w \in [1..(n + 1) -> Seq(Bytes)] /\ w[n + 1] = <<>>
        /\ \A i \in 1..n : w[i] = Frame(Body[order[i]]) \o w[i + 1]
    BY <1>0, <1>3 DEF Layout
  <1>5. f \in Seq(Bytes) /\ n \in Nat
    BY <1>1
  <1> HIDE DEF f
  <1>6. PICK v : v = [i \in 1..(n + 2) |-> IF i = n + 2 THEN <<>> ELSE w[i] \o f]
    OBVIOUS
  <1>61. \A i \in 1..(n + 1) : w[i] \o f \in Seq(Bytes)
    BY <1>4, <1>5, ConcatProperties
  <1>62. \A i \in 1..(n + 1) : v[i] = w[i] \o f
    BY <1>5, <1>6
  <1>7. v \in [1..(n + 2) -> Seq(Bytes)] /\ v[n + 2] = <<>>
    BY <1>3, <1>5, <1>6, <1>61
  <1>8. ASSUME NEW i \in 1..(n + 1)
        PROVE  v[i] = Frame(Body[order'[i]]) \o v[i + 1]
    <2>1. CASE i \in 1..n
      <3>1. i \in 1..(n + 1) /\ i + 1 \in 1..(n + 1)
        BY <1>1, <2>1
      <3>2. ASSUME NEW a \in Seq(Bytes), NEW b \in Seq(Bytes)
            PROVE  (a \o b) \o f = a \o (b \o f)
        BY <1>5, ConcatAssociative
      <3>3. Frame(Body[order[i]]) \in Seq(Bytes) /\ w[i + 1] \in Seq(Bytes)
        BY <1>1, <1>4, <2>1, <3>1
      <3>4. (Frame(Body[order[i]]) \o w[i + 1]) \o f = Frame(Body[order[i]]) \o (w[i + 1] \o f)
        BY <3>2, <3>3
      <3> QED
        BY <1>2, <1>4, <1>62, <2>1, <3>1, <3>4
    <2>2. CASE i = n + 1
      <3>1. w[n + 1] \o f = f /\ f \o <<>> = f
        BY <1>4, <1>5, ConcatEmptySeq
      <3>2. n + 1 \in 1..(n + 1) /\ (n + 1) + 1 = n + 2
        BY <1>1
      <3>3. v[n + 1] = f /\ v[(n + 1) + 1] = <<>>
        BY <1>62, <1>7, <3>1, <3>2
      <3> QED
        BY <1>2, <2>2, <3>1, <3>3 DEF f
    <2>3. i \in 1..n \/ i = n + 1
      BY <1>5
    <2> QED
      BY <2>1, <2>2, <2>3
  <1>9. Len(order') + 1 = n + 2
    BY <1>1, <1>2
  <1>10. Layout(v)'
    BY <1>2, <1>3, <1>7, <1>8, <1>9 DEF Layout
  <1> QED
    BY <1>0, <1>62, <1>10 DEF f

\* A raw byte is the last of it.
LEMMA ByteLaid ==
  ASSUME NEW w, Layout(w), TypeOK, NEW x \in Seq(Bytes), order' = order,
         SubSeq(Raw["up"], 1, sent'["up"]) = SubSeq(Raw["up"], 1, sent["up"]) \o x
  PROVE  \E v : Layout(v)' /\ \A i \in 1..(Len(order) + 1) : v[i] = w[i] \o x
  <1>0. PICK n : n = Len(order)
    OBVIOUS
  <1>1. /\ n \in Nat
        /\ \A i \in 1..n : Frame(Body[order[i]]) \in Seq(Bytes)
    <2>1. \A i \in 1..n : order[i] \in Requests
      BY <1>0, ElementOfSeq DEF TypeOK
    <2> QED
      BY <2>1, FramingAssumption, FrameBytes, LenProperties, <1>0 DEF TypeOK
  <1>2. /\ w \in [1..(n + 1) -> Seq(Bytes)] /\ w[n + 1] = SubSeq(Raw["up"], 1, sent["up"])
        /\ \A i \in 1..n : w[i] = Frame(Body[order[i]]) \o w[i + 1]
    BY <1>0 DEF Layout
  <1>3. PICK v : v = [i \in 1..(n + 1) |-> w[i] \o x]
    OBVIOUS
  <1>4. \A i \in 1..(n + 1) : v[i] = w[i] \o x /\ w[i] \o x \in Seq(Bytes)
    BY <1>2, <1>3, ConcatProperties
  <1>5. v \in [1..(n + 1) -> Seq(Bytes)]
    BY <1>3, <1>4
  <1>6. ASSUME NEW i \in 1..n
        PROVE  v[i] = Frame(Body[order[i]]) \o v[i + 1]
    <2>1. i \in 1..(n + 1) /\ i + 1 \in 1..(n + 1)
      BY <1>1
    <2>2. ASSUME NEW a \in Seq(Bytes), NEW b \in Seq(Bytes)
          PROVE  (a \o b) \o x = a \o (b \o x)
      BY ConcatAssociative
    <2>3. (Frame(Body[order[i]]) \o w[i + 1]) \o x = Frame(Body[order[i]]) \o (w[i + 1] \o x)
      BY <1>1, <1>2, <2>1, <2>2
    <2> QED
      BY <1>2, <1>4, <2>1, <2>3
  <1>7. n + 1 \in 1..(n + 1)
    BY <1>1
  <1>8. v[n + 1] = SubSeq(Raw["up"], 1, sent'["up"])
    BY <1>2, <1>4, <1>7
  <1>9. Layout(v)'
    BY <1>0, <1>5, <1>6, <1>8 DEF Layout
  <1> QED
    BY <1>0, <1>4, <1>9

LEMMA BeginWriteInv == \A r \in Requests : FramingInv /\ BeginWrite(r) => FramingInv'
  <1> SUFFICES ASSUME NEW r \in Requests, FramingInv, BeginWrite(r) PROVE FramingInv'
    OBVIOUS
  <1>1. TypeOK /\ StageInv /\ WriterInv /\ CopyInv /\ GotInv /\ UpInv /\ DownInv
    BY DEF FramingInv
  <1>2. "up" \in Directions /\ Frame(Body[r]) \in Seq(Bytes) /\ order \in Seq(Requests)
    BY <1>1, FramingAssumption, FrameBytes DEF Directions, TypeOK
  <1> USE DEF BeginWrite, Dialed, writerLock, copyVars
  <1>3. /\ order' \in Seq(Requests) /\ order' # <<>> /\ Len(order') = Len(order) + 1
        /\ \A i \in 1..Len(order) : order'[i] = order[i]
    BY <1>2, AppendProperties
  <1>4. sent["up"] = 0 /\ copied["up"] \in Seq(Bytes) /\ stream["up"] \in Seq(Bytes)
    BY <1>1, <1>2 DEF CopyInv, TypeOK
  <1>5. TypeOK'
    BY <1>1, <1>2, <1>3 DEF TypeOK
  <1>6. StageInv'
    BY <1>1 DEF StageInv
  <1>7. WriterInv'
    <2>1. /\ order' # <<>> /\ dialer' = "ready"
          /\ \A q \in Requests : writer'[q] = IF q = r THEN "writing" ELSE writer[q]
          /\ \A q \in Requests : writer[q] # "writing"
      BY <1>1, <1>3 DEF TypeOK
    <2>2. kind = "data" => Len(order') = 1 /\ \A q \in Requests : writer[q] = "idle"
      BY <1>1, <1>3, EmptySeq DEF WriterInv
    <2> QED
      BY <2>1, <2>2 DEF WriterInv
  <1>8. CopyInv'
    BY <1>1, <1>3 DEF CopyInv
  <1>9. GotInv'
    <2>1. Len(got) \in Nat /\ Len(order) \in Nat /\ Len(got) <= Len(order)
      BY <1>1, LenProperties DEF GotInv, TypeOK
    <2> QED
      BY <1>1, <1>3, <2>1 DEF GotInv
  <1>10. UpInv'
    <2>1. PICK w : /\ Layout(w)
                   /\ acceptor # "accept" =>
                        \E t \in Seq(Bytes) : /\ copied["up"] \o (stream["up"] \o t) = w[Len(got) + 1]
                                              /\ Owed(t)
      BY <1>1 DEF UpInv
    <2>2. PICK v : Layout(v)' /\ \A i \in 1..(Len(order) + 1) : v[i] = w[i] \o Frame(Body[r])
      BY <1>1, <1>4, <2>1, RequestLaid
    <2>3. ASSUME acceptor # "accept"
          PROVE  \E u \in Seq(Bytes) : /\ copied["up"] \o (stream["up"] \o u) = v[Len(got) + 1]
                                       /\ Owed(u)'
      <3>1. PICK t \in Seq(Bytes) : /\ copied["up"] \o (stream["up"] \o t) = w[Len(got) + 1]
                                    /\ Owed(t)
        BY <2>1, <2>3
      <3>2. Len(got) + 1 \in 1..(Len(order) + 1)
        BY <1>1, LenProperties DEF GotInv, TypeOK
      <3>3. v[Len(got) + 1] = w[Len(got) + 1] \o Frame(Body[r])
        BY <2>2, <3>2
      <3>4. /\ copied["up"] \o (stream["up"] \o (t \o Frame(Body[r])))
                 = (copied["up"] \o (stream["up"] \o t)) \o Frame(Body[r])
            /\ t \o Frame(Body[r]) \in Seq(Bytes)
        <4>1. t \o Frame(Body[r]) \in Seq(Bytes) /\ stream["up"] \o t \in Seq(Bytes)
          BY <1>2, <1>4, t \in Seq(Bytes), Joined, Zenon
        <4>2. (stream["up"] \o t) \o Frame(Body[r]) = stream["up"] \o (t \o Frame(Body[r]))
          BY <1>2, <1>4, t \in Seq(Bytes), Regrouped, Zenon
        <4>3. (copied["up"] \o (stream["up"] \o t)) \o Frame(Body[r])
                = copied["up"] \o ((stream["up"] \o t) \o Frame(Body[r]))
          BY <1>2, <1>4, <4>1, Regrouped, Zenon
        <4> QED
          BY <4>1, <4>2, <4>3, Zenon
      <3>5. copied["up"] \o (stream["up"] \o (t \o Frame(Body[r]))) = v[Len(got) + 1]
        BY <1>2, <1>4, <3>1, <3>3, <3>4
      <3>6. t \o Frame(Body[r]) \in Seq(Bytes)
        BY <1>2, <1>4, <3>4
      <3>7. up => t = <<>>
        BY <3>1 DEF Owed
      <3>8. <<>> \o Frame(Body[r]) = Frame(Body[r])
        BY <1>2, ConcatEmptySeq
      <3>9. \A q \in Requests : /\ writer'[q] = IF q = r THEN "writing" ELSE writer[q]
                                /\ rest'[q] = IF q = r THEN Frame(Body[r]) ELSE rest[q]
                                /\ writer[q] # "writing"
        BY <1>1 DEF TypeOK
      <3>10. Owed(t \o Frame(Body[r]))'
        BY <3>7, <3>8, <3>9 DEF Owed
      <3> QED
        BY <3>5, <3>6, <3>10
    <2> QED
      BY <2>2, <2>3 DEF UpInv
  <1>11. DownInv'
    BY <1>1 DEF DownInv
  <1> QED
    BY <1>5, <1>6, <1>7, <1>8, <1>9, <1>10, <1>11 DEF FramingInv

LEMMA WriteInvokeDataInv == \A r \in Requests : FramingInv /\ writeInvokeData(r) => FramingInv'
  <1> SUFFICES ASSUME NEW r \in Requests, FramingInv, writeInvokeData(r) PROVE FramingInv'
    OBVIOUS
  <1>1. TypeOK /\ StageInv /\ WriterInv /\ CopyInv /\ GotInv /\ UpInv /\ DownInv
    BY DEF FramingInv
  <1>2. "up" \in Directions /\ "down" \in Directions
    BY DEF Directions
  <1> USE DEF writeInvokeData, copyVars
  <1>3. /\ rest[r] \in Seq(Bytes) /\ stream["up"] \in Seq(Bytes) /\ copied["up"] \in Seq(Bytes)
        /\ dialer = "ready" /\ order # <<>>
    BY <1>1, <1>2 DEF TypeOK, WriterInv
  <1>4. /\ rest' \in [Requests -> Seq(Bytes)] /\ writer' \in [Requests -> {"idle", "writing", "written", "failed"}]
        /\ stream' \in [Directions -> Seq(Bytes)] /\ stream'["down"] = stream["down"]
        /\ \A q \in Requests \ {r} : writer'[q] = writer[q] /\ rest'[q] = rest[q]
        /\ \/ /\ rest[r] # <<>> /\ up /\ writer'[r] = "writing" /\ rest'[r] = Tail(rest[r])
              /\ stream'["up"] = stream["up"] \o <<Head(rest[r])>>
           \/ /\ writer'[r] \in {"written", "failed"} /\ (up => rest[r] = <<>>)
              /\ stream' = stream
    <2>1. CASE /\ rest[r] # <<>>
               /\ Write("up", <<Head(rest[r])>>)
               /\ rest' = [rest EXCEPT ![r] = Tail(@)]
               /\ UNCHANGED writer
      <3>1. <<Head(rest[r])>> \in Seq(Bytes) /\ Tail(rest[r]) \in Seq(Bytes)
        BY <1>3, <2>1, HeadFirst
      <3>2. /\ stream' \in [Directions -> Seq(Bytes)] /\ stream'["down"] = stream["down"]
            /\ stream'["up"] = stream["up"] \o <<Head(rest[r])>>
        BY <1>1, <1>2, <2>1, <3>1, WriteType DEF Directions
      <3>3. up /\ writer'[r] = "writing"
        BY <2>1 DEF Write
      <3> QED
        BY <1>1, <2>1, <3>1, <3>2, <3>3 DEF TypeOK
    <2>2. CASE /\ rest[r] = <<>>
               /\ writer' = [writer EXCEPT ![r] = "written"]
               /\ UNCHANGED <<rest, stream>>
      BY <1>1, <2>2 DEF TypeOK
    <2>3. CASE /\ rest[r] # <<>> /\ ~up
               /\ writer' = [writer EXCEPT ![r] = "failed"]
               /\ rest' = [rest EXCEPT ![r] = <<>>]
               /\ UNCHANGED stream
      <3>1. <<>> \in Seq(Bytes)
        BY EmptySeq
      <3> QED
        BY <1>1, <2>3, <3>1 DEF TypeOK
    <2> QED
      BY <2>1, <2>2, <2>3
  <1>5. TypeOK'
    BY <1>1, <1>4 DEF TypeOK
  <1>6. StageInv'
    BY <1>1, <1>3, <1>4 DEF StageInv
  <1>7. WriterInv'
    <2>1. /\ \A q \in Requests : /\ writer'[q] = "writing" => writer[q] = "writing"
                                 /\ writer'[q] # "idle" => writer[q] # "idle"
          /\ order' = order /\ dialer' = dialer /\ kind' = kind
      BY <1>4
    <2> QED
      BY <1>1, <1>3, <2>1 DEF WriterInv
  <1>8. CopyInv'
    BY <1>1 DEF CopyInv
  <1>9. GotInv'
    BY <1>1 DEF GotInv
  <1>10. UpInv'
    <2>1. PICK w : /\ Layout(w)
                   /\ acceptor # "accept" =>
                        \E t \in Seq(Bytes) : /\ copied["up"] \o (stream["up"] \o t) = w[Len(got) + 1]
                                              /\ Owed(t)
      BY <1>1 DEF UpInv
    <2>2. Layout(w)'
      BY <2>1 DEF Layout
    <2>3. ASSUME acceptor # "accept"
          PROVE  \E u \in Seq(Bytes) : /\ copied["up"] \o (stream'["up"] \o u) = w[Len(got) + 1]
                                       /\ Owed(u)'
      <3>1. PICK t \in Seq(Bytes) : /\ copied["up"] \o (stream["up"] \o t) = w[Len(got) + 1]
                                    /\ Owed(t)
        BY <2>1, <2>3
      <3>2. up => t = rest[r]
        BY <3>1 DEF Owed
      <3>3. \A q \in Requests \ {r} : writer[q] # "writing"
        BY <1>1 DEF WriterInv
      <3>4. CASE /\ rest[r] # <<>> /\ up /\ writer'[r] = "writing" /\ rest'[r] = Tail(rest[r])
                 /\ stream'["up"] = stream["up"] \o <<Head(rest[r])>>
        <4>1. /\ <<Head(rest[r])>> \in Seq(Bytes) /\ Tail(rest[r]) \in Seq(Bytes)
              /\ rest[r] = <<Head(rest[r])>> \o Tail(rest[r])
          BY <1>3, <3>4, HeadFirst
        <4>2. PICK u \in Seq(Bytes) : u = Tail(rest[r])
          BY <4>1
        <4>3. copied["up"] \o ((stream["up"] \o <<Head(rest[r])>>) \o u)
                = copied["up"] \o (stream["up"] \o (<<Head(rest[r])>> \o u))
          <5>1. (stream["up"] \o <<Head(rest[r])>>) \o u = stream["up"] \o (<<Head(rest[r])>> \o u)
            BY <1>3, <4>1, u \in Seq(Bytes), Regrouped, Zenon
          <5> QED
            BY <5>1, Zenon
        <4>4. copied["up"] \o (stream'["up"] \o u) = w[Len(got) + 1]
          BY <1>3, <3>1, <3>2, <3>4, <4>1, <4>2, <4>3
        <4>5. Owed(u)'
          <5>1. rest'[r] = u /\ writer'[r] = "writing" /\ \A q \in Requests \ {r} : writer'[q] # "writing"
            BY <1>4, <3>3, <3>4, <4>2
          <5> QED
            BY <5>1 DEF Owed
        <4> QED
          BY <4>4, <4>5
      <3>5. CASE /\ writer'[r] \in {"written", "failed"} /\ (up => rest[r] = <<>>)
                 /\ stream' = stream
        <4>1. Owed(t)'
          <5>1. (up => t = <<>>) /\ up' = up /\ \A q \in Requests : writer'[q] # "writing"
            BY <1>4, <3>2, <3>3, <3>5
          <5> QED
            BY <5>1 DEF Owed
        <4> QED
          BY <3>1, <3>5, <4>1
      <3> QED
        BY <1>4, <3>4, <3>5
    <2> QED
      BY <2>2, <2>3 DEF UpInv
  <1>11. DownInv'
    BY <1>1, <1>4 DEF DownInv
  <1> QED
    BY <1>5, <1>6, <1>7, <1>8, <1>9, <1>10, <1>11 DEF FramingInv

LEMMA ReadInvokeInv == FramingInv /\ ReadInvoke => FramingInv'
  <1> SUFFICES ASSUME FramingInv, ReadInvoke PROVE FramingInv'
    OBVIOUS
  <1>1. TypeOK /\ StageInv /\ WriterInv /\ CopyInv /\ GotInv /\ UpInv /\ DownInv
    BY DEF FramingInv
  <1>2. "up" \in Directions /\ "down" \in Directions
    BY DEF Directions
  <1>0. PICK s : s = stream["up"]
    OBVIOUS
  <1>3. s \in Seq(Bytes) /\ Len(s) \in Nat /\ copied["up"] = <<>> /\ acceptor = "ready"
    BY <1>0, <1>1, <1>2, LenProperties DEF TypeOK, CopyInv, ReadInvoke
  <1>4. PICK w : /\ Layout(w)
                 /\ acceptor # "accept" =>
                      \E t \in Seq(Bytes) : /\ copied["up"] \o (stream["up"] \o t) = w[Len(got) + 1]
                                            /\ Owed(t)
    BY <1>1 DEF UpInv
  <1>5. PICK t \in Seq(Bytes) : s \o t = w[Len(got) + 1] /\ Owed(t)
    <2>1. PICK t \in Seq(Bytes) : <<>> \o (s \o t) = w[Len(got) + 1] /\ Owed(t)
      BY <1>0, <1>3, <1>4
    <2>2. s \o t \in Seq(Bytes)
      BY <1>3, t \in Seq(Bytes), Joined, Zenon
    <2>3. <<>> \o (s \o t) = s \o t
      BY <2>2, ConcatEmptySeq
    <2> QED
      BY <2>1, <2>3
  <1>6. PICK n : n = Len(got)
    OBVIOUS
  <1>7. n \in Nat /\ Len(order) \in Nat /\ n <= Len(order) /\ \A i \in 1..Len(order) : order[i] \in Requests
    BY <1>1, <1>6, LenProperties, ElementOfSeq DEF GotInv, TypeOK
  <1>8. /\ \A i \in 1..(Len(order) + 1) : w[i] \in Seq(Bytes)
        /\ w[Len(order) + 1] = SubSeq(Raw["up"], 1, sent["up"])
        /\ \A i \in 1..Len(order) : w[i] = Frame(Body[order[i]]) \o w[i + 1]
    BY <1>4 DEF Layout
  <1>9. CASE /\ HasFrame(s)
             /\ got' = Append(got, SubSeq(s, Width + 1, FrameEnd(s)))
             /\ Drop("up", FrameEnd(s))
             /\ acceptor' = IF kind = "data" THEN "copy" ELSE "ready"
    <2>1. n < Len(order)
      <3>1. SUFFICES ASSUME n = Len(order) PROVE FALSE
        BY <1>7
      <3>2. sent["up"] = 0
        BY <1>1, <1>3, <1>6, <3>1, EmptySeq DEF CopyInv, StageInv, TypeOK
      <3>3. s \o t = <<>>
        BY <1>5, <1>6, <1>8, <3>1, <3>2, SubSeqEmpty
      <3>4. s = <<>>
        BY <1>3, <1>5, <3>3, ConcatEqualIffEmpty, ConcatSimplifications
      <3> QED
        BY <1>9, <3>4, FramingAssumption DEF HasFrame
    <2>2. PICK body : body = Body[order[n + 1]]
      OBVIOUS
    <2>3. PICK rem : rem = w[n + 2]
      OBVIOUS
    <2>4. n + 1 \in 1..Len(order) /\ n + 2 \in 1..(Len(order) + 1) /\ (n + 1) + 1 = n + 2
      BY <1>7, <2>1
    <2>5. body \in Seq(Bytes) /\ Len(body) < Half /\ rem \in Seq(Bytes)
      BY <1>7, <1>8, <2>2, <2>3, <2>4, FramingAssumption
    <2>6. s \o t = Frame(body) \o rem
      BY <1>5, <1>6, <1>8, <2>2, <2>3, <2>4
    <2>7. /\ FrameEnd(s) \in 0..Len(s)
          /\ SubSeq(s, Width + 1, FrameEnd(s)) = body
          /\ Rest(s, FrameEnd(s)) \in Seq(Bytes)
          /\ Rest(s, FrameEnd(s)) \o t = rem
      BY <1>3, <1>5, <1>9, <2>5, <2>6, ReadFrame
    <2>8. /\ stream' \in [Directions -> Seq(Bytes)] /\ stream'["down"] = stream["down"]
          /\ stream'["up"] = Rest(s, FrameEnd(s))
      BY <1>0, <1>1, <1>2, <1>9, <2>7, DropType DEF Directions
    <2>9. /\ got' \in Seq(Seq(Bytes)) /\ Len(got') = n + 1 /\ got'[n + 1] = body
          /\ \A i \in 1..n : got'[i] = got[i]
          /\ got' # <<>>
      <3>1. PICK Bodies : Bodies = Seq(Bytes)
        OBVIOUS
      <3>2. got \in Seq(Bodies) /\ body \in Bodies /\ got' = Append(got, body)
        BY <1>1, <1>9, <2>5, <2>7, <3>1 DEF TypeOK
      <3>3. /\ got' \in Seq(Bodies) /\ got' # <<>> /\ Len(got') = Len(got) + 1
            /\ \A i \in 1..Len(got) : got'[i] = got[i]
            /\ got'[Len(got) + 1] = body
        BY <3>2, AppendProperties
      <3> QED
        BY <1>6, <3>1, <3>3
    <2> USE DEF ReadInvoke, writerVars, copyVars
    <2>10. TypeOK'
      BY <1>1, <1>9, <2>8, <2>9 DEF TypeOK
    <2>11. StageInv'
      BY <1>1, <1>3, <1>9, <2>9 DEF StageInv
    <2>12. WriterInv'
      BY <1>1 DEF WriterInv
    <2>13. CopyInv'
      BY <1>1, <1>3 DEF CopyInv
    <2>14. GotInv'
      <3>1. \A i \in 1..(n + 1) : got'[i] = Body[order[i]]
        BY <1>1, <1>6, <1>7, <2>2, <2>9 DEF GotInv
      <3> QED
        BY <2>4, <2>9, <3>1 DEF GotInv
    <2>15. UpInv'
      <3>1. Layout(w)'
        BY <1>4 DEF Layout
      <3>2. <<>> \o rem = rem
        BY <2>5, ConcatEmptySeq
      <3>3. copied'["up"] \o (stream'["up"] \o t) = w[Len(got') + 1]
        BY <1>3, <2>3, <2>4, <2>7, <2>8, <2>9, <3>2
      <3>4. Owed(t)'
        BY <1>5 DEF Owed
      <3> QED
        BY <1>5, <3>1, <3>3, <3>4 DEF UpInv
    <2>16. DownInv'
      BY <1>1, <1>3, <2>8 DEF DownInv
    <2> QED
      BY <2>10, <2>11, <2>12, <2>13, <2>14, <2>15, <2>16 DEF FramingInv
  <1>10. CASE /\ ~up /\ ~HasFrame(s)
              /\ acceptor' = "ended"
              /\ Drop("up", Len(s)) /\ UNCHANGED got
    <2>1. /\ stream' \in [Directions -> Seq(Bytes)] /\ stream'["down"] = stream["down"]
          /\ stream'["up"] = Rest(s, Len(s))
      <3>1. Len(s) \in 0..Len(s)
        BY <1>3
      <3> QED
        BY <1>0, <1>1, <1>2, <1>10, <3>1, DropType DEF Directions
    <2>2. Rest(s, Len(s)) = <<>>
      BY <1>3, SubSeqEmpty DEF Rest
    <2> USE DEF ReadInvoke, writerVars, copyVars
    <2>3. TypeOK'
      BY <1>1, <1>10, <2>1 DEF TypeOK
    <2>4. StageInv'
      BY <1>1, <1>10 DEF StageInv
    <2>5. WriterInv'
      BY <1>1 DEF WriterInv
    <2>6. CopyInv'
      BY <1>1, <1>3 DEF CopyInv
    <2>7. GotInv'
      BY <1>1, <1>10 DEF GotInv
    <2>8. UpInv'
      <3>1. Layout(w)'
        BY <1>4 DEF Layout
      <3>2. w[n + 1] \in Seq(Bytes)
        BY <1>7, <1>8
      <3>3. <<>> \o (<<>> \o w[n + 1]) = w[n + 1]
        BY <3>2, ConcatEmptySeq
      <3>4. copied'["up"] \o (stream'["up"] \o w[n + 1]) = w[Len(got') + 1]
        BY <1>3, <1>6, <1>10, <2>1, <2>2, <3>3
      <3>5. \A u : Owed(u)'
        BY <1>10 DEF Owed
      <3> QED
        BY <3>1, <3>2, <3>4, <3>5 DEF UpInv
    <2>9. DownInv'
      BY <1>1, <1>10, <2>1 DEF DownInv
    <2> QED
      BY <2>3, <2>4, <2>5, <2>6, <2>7, <2>8, <2>9 DEF FramingInv
  <1> QED
    BY <1>0, <1>9, <1>10 DEF ReadInvoke

-----------------------------------------------------------------------------
(* Copy.                                                                   *)

\* Which end copies, and from which.
LEMMA CopiesWhen ==
  /\ Copies("up") => kind = "data" /\ \E r \in Requests : writer[r] \in {"written", "failed"}
  /\ Copies("down") => kind = "data" /\ acceptor = "copy"
  /\ (CHOOSE e \in Directions : e # "up") = "down"
  /\ (CHOOSE e \in Directions : e # "down") = "up"
  BY DEF Copies, Directions

\* The byte that Copy writes next.
LEMMA NextByte ==
  ASSUME TypeOK, NEW d \in Directions, sent[d] < Len(Raw[d]), sent' = [sent EXCEPT ![d] = @ + 1]
  PROVE  /\ sent' \in [Directions -> Nat] /\ sent'[d] = sent[d] + 1 /\ sent'[d] <= Len(Raw[d])
         /\ \A e \in Directions \ {d} : sent'[e] = sent[e]
         /\ <<Raw[d][sent[d] + 1]>> \in Seq(Bytes)
         /\ SubSeq(Raw[d], 1, sent[d]) \in Seq(Bytes)
         /\ SubSeq(Raw[d], 1, sent'[d]) = SubSeq(Raw[d], 1, sent[d]) \o <<Raw[d][sent[d] + 1]>>
  <1> DEFINE R == Raw[d]
             n == sent[d]
  <1>1. R \in Seq(Bytes) /\ n \in Nat /\ Len(R) \in Nat
    BY FramingAssumption, LenProperties DEF TypeOK
  <1>2. sent' \in [Directions -> Nat] /\ sent'[d] = n + 1 /\ \A e \in Directions \ {d} : sent'[e] = sent[e]
    BY <1>1 DEF TypeOK
  <1>21. n < Len(R)
    OBVIOUS
  <1> HIDE DEF R, n
  <1>3. n + 1 \in 1..Len(R) /\ n \in 0..Len(R) /\ 1 \in 1..(n + 1) /\ (n + 1) - 1 = n
    BY <1>1, <1>21
  <1>4. R[n + 1] \in Bytes
    BY <1>1, <1>3, ElementOfSeq
  <1>5. SubSeq(R, 1, n + 1) = SubSeq(R, 1, (n + 1) - 1) \o <<R[n + 1]>>
    BY <1>1, <1>3, SubSeqRecursiveSecond
  <1>6. SubSeq(R, 1, n) \in Seq(Bytes)
    BY <1>1, <1>3, Split
  <1>7. sent'[d] = n + 1 /\ n + 1 <= Len(R)
    BY <1>2, <1>3
  <1>8. SubSeq(R, 1, sent'[d]) = SubSeq(R, 1, n) \o <<R[n + 1]>>
    BY <1>3, <1>5, <1>7
  <1>9. <<R[n + 1]>> \in Seq(Bytes)
    BY <1>4
  <1> QED
    BY <1>2, <1>6, <1>7, <1>8, <1>9 DEF R, n

\* A step that only moves a byte from one end of the stream to the other, or touches
\* the other stream, leaves what the reader and the stream have together.
LEMMA UpKept ==
  ASSUME UpInv, order' = order, sent'["up"] = sent["up"], writer' = writer, rest' = rest,
         up' = up, got' = got, acceptor' = acceptor,
         \A t \in Seq(Bytes) : copied'["up"] \o (stream'["up"] \o t) = copied["up"] \o (stream["up"] \o t)
  PROVE  UpInv'
  <1>1. PICK w : /\ Layout(w)
                 /\ acceptor # "accept" =>
                      \E t \in Seq(Bytes) : /\ copied["up"] \o (stream["up"] \o t) = w[Len(got) + 1]
                                            /\ Owed(t)
    BY DEF UpInv
  <1>2. Layout(w)'
    BY <1>1 DEF Layout
  <1>3. ASSUME acceptor' # "accept"
        PROVE  \E t \in Seq(Bytes) : /\ copied'["up"] \o (stream'["up"] \o t) = w[Len(got') + 1]
                                     /\ Owed(t)'
    <2>1. PICK t \in Seq(Bytes) : copied["up"] \o (stream["up"] \o t) = w[Len(got) + 1] /\ Owed(t)
      BY <1>1, <1>3
    <2>2. Owed(t)'
      BY <2>1 DEF Owed
    <2>3. copied'["up"] \o (stream'["up"] \o t) = w[Len(got') + 1]
      BY <2>1, t \in Seq(Bytes), Zenon
    <2> QED
      BY <2>2, <2>3
  <1> QED
    BY <1>2, <1>3 DEF UpInv

\* Nobody writes a frame when raw bytes are written.
LEMMA CopyInUpInv == FramingInv /\ CopyIn("up") => FramingInv'
  <1> SUFFICES ASSUME FramingInv, CopyIn("up") PROVE FramingInv'
    OBVIOUS
  <1>1. TypeOK /\ StageInv /\ WriterInv /\ CopyInv /\ GotInv /\ UpInv /\ DownInv
    BY DEF FramingInv
  <1>2. "up" \in Directions /\ "down" \in Directions
    BY DEF Directions
  <1>3. PICK x \in Seq(Bytes) : x = <<Raw["up"][sent["up"] + 1]>>
    BY <1>1, <1>2, NextByte DEF CopyIn
  <1>4. /\ sent' \in [Directions -> Nat] /\ sent'["up"] <= Len(Raw["up"]) /\ sent'["down"] = sent["down"]
        /\ SubSeq(Raw["up"], 1, sent'["up"]) = SubSeq(Raw["up"], 1, sent["up"]) \o x
    BY <1>1, <1>2, <1>3, NextByte DEF CopyIn, Directions
  <1>5. /\ stream' \in [Directions -> Seq(Bytes)] /\ stream'["down"] = stream["down"]
        /\ stream'["up"] = stream["up"] \o x
    BY <1>1, <1>2, <1>3, WriteType DEF CopyIn, Directions
  <1>6. /\ kind = "data" /\ up /\ order # <<>> /\ dialer = "ready"
        /\ \A q \in Requests : writer[q] # "writing"
    <2>1. PICK r \in Requests : kind = "data" /\ writer[r] \in {"written", "failed"}
      BY CopiesWhen DEF CopyIn
    <2>2. order # <<>>
      BY <1>1, <2>1 DEF WriterInv
    <2>3. \A q \in Requests : writer[q] # "writing"
      BY <1>1, <2>1 DEF WriterInv
    <2> QED
      BY <1>1, <2>1, <2>2, <2>3 DEF WriterInv, CopyIn, Write
  <1>7. copied["up"] \in Seq(Bytes) /\ stream["up"] \in Seq(Bytes)
    BY <1>1, <1>2 DEF TypeOK
  <1> USE DEF CopyIn, writerVars
  <1>8. TypeOK'
    BY <1>1, <1>4, <1>5 DEF TypeOK
  <1>9. StageInv'
    BY <1>1, <1>5, <1>6 DEF StageInv
  <1>10. WriterInv'
    BY <1>1 DEF WriterInv
  <1>11. CopyInv'
    BY <1>1, <1>4, <1>6 DEF CopyInv, Directions
  <1>12. GotInv'
    BY <1>1 DEF GotInv
  <1>13. UpInv'
    <2>1. PICK w : /\ Layout(w)
                   /\ acceptor # "accept" =>
                        \E t \in Seq(Bytes) : /\ copied["up"] \o (stream["up"] \o t) = w[Len(got) + 1]
                                              /\ Owed(t)
      BY <1>1 DEF UpInv
    <2>2. PICK v : Layout(v)' /\ \A i \in 1..(Len(order) + 1) : v[i] = w[i] \o x
      BY <1>1, <1>3, <1>4, <2>1, ByteLaid
    <2>3. ASSUME acceptor # "accept"
          PROVE  /\ copied["up"] \o (stream'["up"] \o <<>>) = v[Len(got) + 1]
                 /\ Owed(<<>>)'
      <3>1. PICK t \in Seq(Bytes) : /\ copied["up"] \o (stream["up"] \o t) = w[Len(got) + 1]
                                    /\ Owed(t)
        BY <2>1, <2>3
      <3>2. t = <<>>
        BY <1>6, <3>1 DEF Owed
      <3>3. stream["up"] \o <<>> = stream["up"] /\ (stream["up"] \o x) \in Seq(Bytes)
        BY <1>3, <1>7, ConcatEmptySeq, ConcatProperties
      <3>4. (stream["up"] \o x) \o <<>> = stream["up"] \o x
        BY <3>3, ConcatEmptySeq
      <3>5. (copied["up"] \o stream["up"]) \o x = copied["up"] \o (stream["up"] \o x)
        BY <1>3, <1>7, Regrouped, Zenon
      <3>6. Len(got) + 1 \in 1..(Len(order) + 1)
        BY <1>1, LenProperties DEF GotInv, TypeOK
      <3>7. v[Len(got) + 1] = w[Len(got) + 1] \o x
        BY <2>2, <3>6
      <3>8. copied["up"] \o stream["up"] = w[Len(got) + 1]
        BY <3>1, <3>2, <3>3, Zenon
      <3>9. copied["up"] \o (stream'["up"] \o <<>>) = v[Len(got) + 1]
        BY <1>5, <3>4, <3>5, <3>7, <3>8, Zenon
      <3>10. Owed(<<>>)'
        BY <1>6 DEF Owed
      <3> QED
        BY <3>9, <3>10
    <2>4. <<>> \in Seq(Bytes)
      BY EmptySeq
    <2> QED
      BY <2>2, <2>3, <2>4 DEF UpInv
  <1>14. DownInv'
    BY <1>1, <1>4, <1>5 DEF DownInv
  <1> QED
    BY <1>8, <1>9, <1>10, <1>11, <1>12, <1>13, <1>14 DEF FramingInv

\* The acceptor has the request, so the dialer has its ids.
LEMMA CopyInDownInv == FramingInv /\ CopyIn("down") => FramingInv'
  <1> SUFFICES ASSUME FramingInv, CopyIn("down") PROVE FramingInv'
    OBVIOUS
  <1>1. TypeOK /\ StageInv /\ WriterInv /\ CopyInv /\ GotInv /\ UpInv /\ DownInv
    BY DEF FramingInv
  <1>2. "up" \in Directions /\ "down" \in Directions
    BY DEF Directions
  <1>3. PICK x \in Seq(Bytes) : x = <<Raw["down"][sent["down"] + 1]>>
    BY <1>1, <1>2, NextByte DEF CopyIn
  <1>4. /\ sent' \in [Directions -> Nat] /\ sent'["down"] <= Len(Raw["down"]) /\ sent'["up"] = sent["up"]
        /\ SubSeq(Raw["down"], 1, sent'["down"]) = SubSeq(Raw["down"], 1, sent["down"]) \o x
    BY <1>1, <1>2, <1>3, NextByte DEF CopyIn, Directions
  <1>5. /\ stream' \in [Directions -> Seq(Bytes)] /\ stream'["up"] = stream["up"]
        /\ stream'["down"] = stream["down"] \o x
    BY <1>1, <1>2, <1>3, WriteType DEF CopyIn, Directions
  <1>6. acceptor = "copy" /\ up /\ dialer = "ready"
    <2>1. acceptor = "copy" /\ up
      BY CopiesWhen DEF CopyIn, Write
    <2>2. got # <<>> /\ Len(got) <= Len(order)
      BY <1>1, <2>1 DEF StageInv, GotInv
    <2>3. order # <<>>
      BY <1>1, <2>2, EmptySeq, LenProperties DEF TypeOK
    <2> QED
      BY <1>1, <2>1, <2>3 DEF WriterInv
  <1>7. copied["down"] \in Seq(Bytes) /\ stream["down"] \in Seq(Bytes)
    BY <1>1, <1>2 DEF TypeOK
  <1> USE DEF CopyIn, writerVars
  <1>8. TypeOK'
    BY <1>1, <1>4, <1>5 DEF TypeOK
  <1>9. StageInv'
    BY <1>1, <1>5, <1>6 DEF StageInv
  <1>10. WriterInv'
    BY <1>1 DEF WriterInv
  <1>11. CopyInv'
    BY <1>1, <1>4, <1>6 DEF CopyInv, Directions
  <1>12. GotInv'
    BY <1>1 DEF GotInv
  <1>13. UpInv'
    <2>1. \A t \in Seq(Bytes) : copied'["up"] \o (stream'["up"] \o t) = copied["up"] \o (stream["up"] \o t)
      BY <1>5, Zenon
    <2> QED
      BY <1>1, <1>4, <2>1, UpKept
  <1>14. DownInv'
    <2>1. PICK t \in Seq(Bytes) :
               /\ copied["down"] \o (stream["down"] \o t) = SubSeq(Raw["down"], 1, sent["down"])
               /\ t = <<>>
      BY <1>1, <1>6 DEF DownInv
    <2>2. stream["down"] \o <<>> = stream["down"] /\ (stream["down"] \o x) \in Seq(Bytes)
      BY <1>3, <1>7, ConcatEmptySeq, ConcatProperties
    <2>3. (stream["down"] \o x) \o <<>> = stream["down"] \o x
      BY <2>2, ConcatEmptySeq
    <2>4. (copied["down"] \o stream["down"]) \o x = copied["down"] \o (stream["down"] \o x)
      BY <1>3, <1>7, Regrouped, Zenon
    <2>5. copied["down"] \o stream["down"] = SubSeq(Raw["down"], 1, sent["down"])
      BY <2>1, <2>2, Zenon
    <2>6. copied["down"] \o (stream'["down"] \o <<>>) = SubSeq(Raw["down"], 1, sent'["down"])
      BY <1>4, <1>5, <2>3, <2>4, <2>5, Zenon
    <2>7. <<>> \in Seq(Bytes)
      BY EmptySeq
    <2> QED
      BY <1>1, <1>6, <2>6, <2>7 DEF DownInv
  <1> QED
    BY <1>8, <1>9, <1>10, <1>11, <1>12, <1>13, <1>14 DEF FramingInv

\* A byte that is read leaves the stream and joins the others.
LEMMA ByteMoves ==
  ASSUME TypeOK, NEW d \in Directions, stream[d] # <<>>,
         copied' = [copied EXCEPT ![d] = Append(@, Head(stream[d]))], Drop(d, 1)
  PROVE  /\ stream' \in [Directions -> Seq(Bytes)] /\ copied' \in [Directions -> Seq(Bytes)]
         /\ \A e \in Directions \ {d} : stream'[e] = stream[e] /\ copied'[e] = copied[e]
         /\ \A t \in Seq(Bytes) : copied'[d] \o (stream'[d] \o t) = copied[d] \o (stream[d] \o t)
  <1>1. PICK s : s = stream[d]
    OBVIOUS
  <1>2. PICK c : c = copied[d]
    OBVIOUS
  <1>3. s \in Seq(Bytes) /\ c \in Seq(Bytes) /\ s # <<>>
    BY <1>1, <1>2 DEF TypeOK
  <1>4. PICK h \in Seq(Bytes) : h = <<Head(s)>>
    BY <1>3, HeadFirst
  <1>5. PICK u \in Seq(Bytes) : u = Tail(s)
    BY <1>3, HeadFirst
  <1>6. Head(s) \in Bytes /\ Rest(s, 1) = u /\ s = h \o u
    BY <1>3, <1>4, <1>5, HeadFirst
  <1>7. Append(c, Head(s)) = c \o h /\ c \o h \in Seq(Bytes)
    <2>1. Append(c, Head(s)) = c \o <<Head(s)>>
      BY <1>3, <1>6, AppendIsConcat
    <2>2. c \o h \in Seq(Bytes)
      BY <1>3, <1>4, ConcatProperties
    <2> QED
      BY <1>4, <2>1, <2>2
  <1>8. copied' \in [Directions -> Seq(Bytes)] /\ copied'[d] = c \o h
        /\ \A e \in Directions \ {d} : copied'[e] = copied[e]
    BY <1>1, <1>2, <1>7 DEF TypeOK
  <1>9. /\ stream' \in [Directions -> Seq(Bytes)] /\ stream'[d] = u
        /\ \A e \in Directions \ {d} : stream'[e] = stream[e]
    <2>1. 1 \in 0..Len(stream[d])
      BY <1>1, <1>3, EmptySeq, LenProperties
    <2> QED
      BY <1>1, <1>6, <2>1, DropType
  <1>10. ASSUME NEW t \in Seq(Bytes)
         PROVE  (c \o h) \o (u \o t) = c \o (s \o t)
    <2>1. PICK v \in Seq(Bytes) : v = u \o t
      BY u \in Seq(Bytes), t \in Seq(Bytes), Joined, Zenon
    <2>2. (c \o h) \o (u \o t) = c \o (h \o (u \o t))
      <3>1. c \in Seq(Bytes)
        BY <1>3
      <3>2. (c \o h) \o v = c \o (h \o v)
        BY <3>1, v \in Seq(Bytes), h \in Seq(Bytes), Regrouped, Zenon
      <3> QED
        BY <2>1, <3>2, Zenon
    <2>3. (h \o u) \o t = h \o (u \o t)
      BY u \in Seq(Bytes), h \in Seq(Bytes), t \in Seq(Bytes), Regrouped, Zenon
    <2> QED
      BY <1>6, <2>2, <2>3, Zenon
  <1>11. \A t \in Seq(Bytes) : copied'[d] \o (stream'[d] \o t) = copied[d] \o (stream[d] \o t)
    BY <1>1, <1>2, <1>8, <1>9, <1>10, Zenon
  <1> QED
    BY <1>8, <1>9, <1>11

LEMMA CopyOutUpInv == FramingInv /\ CopyOut("up") => FramingInv'
  <1> SUFFICES ASSUME FramingInv, CopyOut("up") PROVE FramingInv'
    OBVIOUS
  <1>1. TypeOK /\ StageInv /\ WriterInv /\ CopyInv /\ GotInv /\ UpInv /\ DownInv
    BY DEF FramingInv
  <1>2. "up" \in Directions /\ "down" \in Directions
    BY DEF Directions
  <1>3. /\ stream' \in [Directions -> Seq(Bytes)] /\ copied' \in [Directions -> Seq(Bytes)]
        /\ stream'["down"] = stream["down"] /\ copied'["down"] = copied["down"]
        /\ \A t \in Seq(Bytes) : copied'["up"] \o (stream'["up"] \o t) = copied["up"] \o (stream["up"] \o t)
    BY <1>1, <1>2, ByteMoves DEF CopyOut, Directions
  <1>4. acceptor = "copy" /\ (up => dialer # "push")
    BY <1>1, CopiesWhen DEF CopyOut, StageInv
  <1> USE DEF CopyOut, writerVars
  <1>5. TypeOK'
    BY <1>1, <1>3 DEF TypeOK
  <1>6. StageInv'
    BY <1>1, <1>3, <1>4 DEF StageInv
  <1>7. WriterInv'
    BY <1>1 DEF WriterInv
  <1>8. CopyInv'
    BY <1>1, <1>3, <1>4 DEF CopyInv
  <1>9. GotInv'
    BY <1>1 DEF GotInv
  <1>10. UpInv'
    BY <1>1, <1>3, UpKept
  <1>11. DownInv'
    BY <1>1, <1>3 DEF DownInv
  <1> QED
    BY <1>5, <1>6, <1>7, <1>8, <1>9, <1>10, <1>11 DEF FramingInv

LEMMA CopyOutDownInv == FramingInv /\ CopyOut("down") => FramingInv'
  <1> SUFFICES ASSUME FramingInv, CopyOut("down") PROVE FramingInv'
    OBVIOUS
  <1>1. TypeOK /\ StageInv /\ WriterInv /\ CopyInv /\ GotInv /\ UpInv /\ DownInv
    BY DEF FramingInv
  <1>2. "up" \in Directions /\ "down" \in Directions
    BY DEF Directions
  <1>3. /\ stream' \in [Directions -> Seq(Bytes)] /\ copied' \in [Directions -> Seq(Bytes)]
        /\ stream'["up"] = stream["up"] /\ copied'["up"] = copied["up"]
        /\ \A t \in Seq(Bytes) : copied'["down"] \o (stream'["down"] \o t) = copied["down"] \o (stream["down"] \o t)
    BY <1>1, <1>2, ByteMoves DEF CopyOut, Directions
  <1>4. dialer = "ready"
    <2>1. PICK r \in Requests : writer[r] \in {"written", "failed"}
      BY CopiesWhen DEF CopyOut
    <2> QED
      BY <1>1, <2>1 DEF WriterInv
  <1>5. acceptor \notin {"accept", "ids"}
    BY <1>1 DEF StageInv, CopyOut
  <1> USE DEF CopyOut, writerVars
  <1>6. TypeOK'
    BY <1>1, <1>3 DEF TypeOK
  <1>7. StageInv'
    BY <1>1, <1>3, <1>5 DEF StageInv
  <1>8. WriterInv'
    BY <1>1 DEF WriterInv
  <1>9. CopyInv'
    BY <1>1, <1>3, <1>4 DEF CopyInv
  <1>10. GotInv'
    BY <1>1 DEF GotInv
  <1>11. UpInv'
    <2>1. \A t \in Seq(Bytes) : copied'["up"] \o (stream'["up"] \o t) = copied["up"] \o (stream["up"] \o t)
      BY <1>3, Zenon
    <2> QED
      BY <1>1, <2>1, UpKept
  <1>12. DownInv'
    BY <1>1, <1>3 DEF DownInv
  <1> QED
    BY <1>6, <1>7, <1>8, <1>9, <1>10, <1>11, <1>12 DEF FramingInv

-----------------------------------------------------------------------------
\* What is cut off the streams is what the readers are owed.
LEMMA SessionEndsInv == FramingInv /\ SessionEnds => FramingInv'
  <1> SUFFICES ASSUME FramingInv, SessionEnds PROVE FramingInv'
    OBVIOUS
  <1>1. TypeOK /\ StageInv /\ WriterInv /\ CopyInv /\ GotInv /\ UpInv /\ DownInv
    BY DEF FramingInv
  <1>2. "up" \in Directions /\ "down" \in Directions /\ ~up' /\ "up" # "down"
    BY DEF Directions, SessionEnds
  <1>3. PICK m \in 0..Len(stream["up"]), n \in 0..Len(stream["down"]) :
          stream' = [d \in Directions |-> SubSeq(stream[d], 1, IF d = "up" THEN m ELSE n)]
    BY DEF SessionEnds
  <1>4. \A d \in Directions : stream[d] \in Seq(Bytes) /\ copied[d] \in Seq(Bytes)
    BY <1>1 DEF TypeOK
  <1>5. stream'["up"] = SubSeq(stream["up"], 1, m) /\ stream'["down"] = SubSeq(stream["down"], 1, n)
    BY <1>2, <1>3
  <1>6. /\ stream'["up"] \in Seq(Bytes) /\ stream'["down"] \in Seq(Bytes)
        /\ Rest(stream["up"], m) \in Seq(Bytes) /\ Rest(stream["down"], n) \in Seq(Bytes)
        /\ stream'["up"] \o Rest(stream["up"], m) = stream["up"]
        /\ stream'["down"] \o Rest(stream["down"], n) = stream["down"]
    BY <1>2, <1>4, <1>5, Split
  <1>7. stream' \in [Directions -> Seq(Bytes)]
    BY <1>3, <1>6 DEF Directions
  <1>8. PICK a \in Seq(Bytes) : a = Rest(stream["up"], m)
    BY <1>6
  <1>9. PICK b \in Seq(Bytes) : b = Rest(stream["down"], n)
    BY <1>6
  <1>10. stream'["up"] \in Seq(Bytes) /\ stream'["down"] \in Seq(Bytes)
    BY <1>6
  <1> USE DEF SessionEnds, writerVars, copyVars
  <1>11. TypeOK'
    BY <1>1, <1>7 DEF TypeOK
  <1>12. StageInv'
    <2>1. ASSUME acceptor = "accept" PROVE stream'["up"] \in {<<>>, <<Push>>}
      <3>1. stream["up"] \in {<<>>, <<Push>>}
        BY <1>1, <2>1 DEF StageInv
      <3>2. m = 0 \/ m = Len(stream["up"])
        <4>1. CASE stream["up"] = <<>>
          BY <1>3, <4>1
        <4>2. CASE stream["up"] = <<Push>>
          BY <1>3, <4>2
        <4> QED
          BY <3>1, <4>1, <4>2
      <3>3. SubSeq(stream["up"], 1, 0) = <<>>
        BY SubSeqEmpty
      <3>4. SubSeq(stream["up"], 1, Len(stream["up"])) = stream["up"]
        BY <1>2, <1>4, SubSeqFull
      <3> QED
        BY <1>5, <3>1, <3>2, <3>3, <3>4
    <2>2. ASSUME acceptor \in {"accept", "ids"} PROVE stream'["down"] = <<>>
      <3>1. stream["down"] = <<>>
        BY <1>1, <2>2 DEF StageInv
      <3> QED
        BY <1>5, <3>1, SubSeqEmpty
    <2> QED
      BY <1>1, <1>2, <2>1, <2>2 DEF StageInv
  <1>13. WriterInv'
    BY <1>1 DEF WriterInv
  <1>14. CopyInv'
    BY <1>1 DEF CopyInv
  <1>15. GotInv'
    BY <1>1 DEF GotInv
  <1>16. UpInv'
    <2>1. PICK w : /\ Layout(w)
                   /\ acceptor # "accept" =>
                        \E t \in Seq(Bytes) : /\ copied["up"] \o (stream["up"] \o t) = w[Len(got) + 1]
                                              /\ Owed(t)
      BY <1>1 DEF UpInv
    <2>2. Layout(w)'
      BY <2>1 DEF Layout
    <2>3. ASSUME acceptor # "accept"
          PROVE  \E u \in Seq(Bytes) : copied["up"] \o (stream'["up"] \o u) = w[Len(got) + 1]
      <3>1. PICK t \in Seq(Bytes) : copied["up"] \o (stream["up"] \o t) = w[Len(got) + 1]
        BY <2>1, <2>3
      <3>2. /\ a \o t \in Seq(Bytes)
            /\ copied["up"] \o (stream'["up"] \o (a \o t)) = copied["up"] \o ((stream'["up"] \o a) \o t)
        <4>1. a \o t \in Seq(Bytes)
          BY a \in Seq(Bytes), t \in Seq(Bytes), Joined, Zenon
        <4>2. (stream'["up"] \o a) \o t = stream'["up"] \o (a \o t)
          BY <1>10, a \in Seq(Bytes), t \in Seq(Bytes), Regrouped, Zenon
        <4> QED
          BY <4>1, <4>2, Zenon
      <3>3. stream'["up"] \o a = stream["up"]
        BY <1>6, <1>8, Zenon
      <3>4. copied["up"] \o (stream'["up"] \o (a \o t)) = w[Len(got) + 1]
        BY <3>1, <3>2, <3>3, Zenon
      <3> QED
        BY <3>2, <3>4, Zenon
    <2>4. \A u : Owed(u)'
      BY <1>2 DEF Owed
    <2> QED
      BY <2>2, <2>3, <2>4 DEF UpInv
  <1>17. DownInv'
    <2>1. PICK z : z = IF dialer = "ready" THEN SubSeq(Raw["down"], 1, sent["down"]) ELSE Frame(Ids)
      OBVIOUS
    <2>2. PICK t \in Seq(Bytes) : copied["down"] \o (stream["down"] \o t) = z
      BY <1>1, <2>1 DEF DownInv
    <2>3. /\ b \o t \in Seq(Bytes)
          /\ copied["down"] \o (stream'["down"] \o (b \o t)) = copied["down"] \o ((stream'["down"] \o b) \o t)
      <3>1. b \o t \in Seq(Bytes)
        BY b \in Seq(Bytes), t \in Seq(Bytes), Joined, Zenon
      <3>2. (stream'["down"] \o b) \o t = stream'["down"] \o (b \o t)
        BY <1>10, b \in Seq(Bytes), t \in Seq(Bytes), Regrouped, Zenon
      <3> QED
        BY <3>1, <3>2, Zenon
    <2>4. stream'["down"] \o b = stream["down"]
      BY <1>6, <1>9, Zenon
    <2>5. copied["down"] \o (stream'["down"] \o (b \o t)) = z
      BY <2>2, <2>3, <2>4, Zenon
    <2> QED
      BY <1>1, <1>2, <2>1, <2>3, <2>5 DEF DownInv
  <1> QED
    BY <1>11, <1>12, <1>13, <1>14, <1>15, <1>16, <1>17 DEF FramingInv

-----------------------------------------------------------------------------
LEMMA NextFramingInv == FramingInv /\ [Next]_vars => FramingInv'
  <1> SUFFICES ASSUME FramingInv, [Next]_vars PROVE FramingInv'
    OBVIOUS
  <1>1. CASE WritePush
    BY <1>1, WritePushInv
  <1>2. CASE AddAcceptInvoker
    BY <1>2, AddAcceptInvokerInv
  <1>3. CASE WriteIds
    BY <1>3, WriteIdsInv
  <1>4. CASE AddDialInvoker
    BY <1>4, AddDialInvokerInv
  <1>5. CASE \E r \in Requests : BeginWrite(r) \/ writeInvokeData(r)
    BY <1>5, BeginWriteInv, WriteInvokeDataInv
  <1>6. CASE ReadInvoke
    BY <1>6, ReadInvokeInv
  <1>7. CASE \E d \in Directions : CopyIn(d) \/ CopyOut(d)
    <2>1. CopyIn("up") \/ CopyIn("down") \/ CopyOut("up") \/ CopyOut("down")
      BY <1>7 DEF Directions
    <2> QED
      BY <2>1, CopyInUpInv, CopyInDownInv, CopyOutUpInv, CopyOutDownInv
  <1>8. CASE SessionEnds
    BY <1>8, SessionEndsInv
  <1>9. CASE UNCHANGED vars
    <2> USE <1>9 DEF vars, writerVars, copyVars
    <2>1. TypeOK /\ StageInv /\ WriterInv /\ CopyInv /\ GotInv /\ UpInv /\ DownInv
      BY DEF FramingInv
    <2>2. TypeOK'
      BY <2>1 DEF TypeOK
    <2>3. StageInv' /\ WriterInv' /\ CopyInv' /\ GotInv'
      BY <2>1 DEF StageInv, WriterInv, CopyInv, GotInv
    <2>4. UpInv'
      BY <2>1, UpKept
    <2>5. DownInv'
      BY <2>1 DEF DownInv
    <2> QED
      BY <2>2, <2>3, <2>4, <2>5 DEF FramingInv
  <1> QED
    BY <1>1, <1>2, <1>3, <1>4, <1>5, <1>6, <1>7, <1>8, <1>9 DEF Next

\* The inductive invariant: with the bytes on the way and those that are owed, what
\* the acceptor has read is what the dialer writes, and the other way round
\* (invoke.go:143-164, 216-275, 327-348, 400-419; io.go:53-104).
THEOREM FramingInvariant == Spec => []FramingInv
  BY InitFramingInv, NextFramingInv, PTL DEF Spec

\* Every byte is one, and every stage one of those of Dial and upgradeWebTransport
\* (invoke.go:216-231, 400-419).
THEOREM TypeCorrect == Spec => []TypeOK
  <1>1. FramingInv => TypeOK
    BY DEF FramingInv
  <1> QED
    BY <1>1, FramingInvariant, PTL

\* What a sequence starts with.
LEMMA PrefixOf ==
  ASSUME NEW S, NEW a \in Seq(S), NEW b \in Seq(S),
         Len(a) <= Len(b), \A i \in 1..Len(a) : a[i] = b[i]
  PROVE  IsPrefix(a, b)
  <1>1. Len(a) \in 0..Len(b)
    BY LenProperties
  <1>2. /\ SubSeq(b, 1, Len(a)) \in Seq(S) /\ Len(SubSeq(b, 1, Len(a))) = Len(a)
        /\ \A i \in 1..Len(a) : SubSeq(b, 1, Len(a))[i] = b[i]
    BY <1>1, Split
  <1>3. SubSeq(b, 1, Len(a)) = a
    <2>1. PICK c \in Seq(S) : c = SubSeq(b, 1, Len(a))
      BY <1>2
    <2>2. Len(c) = Len(a) /\ \A i \in 1..Len(c) : c[i] = a[i]
      BY <1>2, <2>1
    <2>3. c = a
      BY <2>2, SeqEqual
    <2> QED
      BY <2>1, <2>3
  <1>4. SubSeq(a, 1, Len(a)) = a
    BY SubSeqFull
  <1> QED
    BY <1>3, <1>4 DEF IsPrefix

LEMMA FirstPart ==
  ASSUME NEW S, NEW a \in Seq(S), NEW b \in Seq(S), NEW c \in Seq(S), a \o b = c
  PROVE  IsPrefix(a, c)
  <1>1. Len(c) = Len(a) + Len(b) /\ \A i \in 1..Len(c) : c[i] = IF i <= Len(a) THEN a[i] ELSE b[i - Len(a)]
    BY ConcatProperties
  <1>2. Len(a) \in Nat /\ Len(b) \in Nat
    BY LenProperties
  <1>3. Len(a) <= Len(c) /\ \A i \in 1..Len(a) : a[i] = c[i]
    BY <1>1, <1>2
  <1> QED
    BY <1>3, PrefixOf

\* The JSON of the requests in some order.
LEMMA Bodies ==
  ASSUME NEW o \in Seq(Requests), NEW b, b = [i \in 1..Len(o) |-> Body[o[i]]]
  PROVE  /\ b \in Seq(Seq(Bytes)) /\ Len(b) = Len(o)
         /\ \A i \in 1..Len(o) : b[i] = Body[o[i]]
  <1>1. PICK B : B = Seq(Bytes)
    OBVIOUS
  <1>2. Len(o) \in Nat /\ \A i \in 1..Len(o) : Body[o[i]] \in B
    BY <1>1, FramingAssumption, ElementOfSeq, LenProperties
  <1>3. b \in [1..Len(o) -> B]
    BY <1>2
  <1>4. b \in Seq(B) /\ Len(b) = Len(o)
    BY <1>2, <1>3, SeqDef, LenProperties
  <1> QED
    BY <1>1, <1>4

LEMMA TakenWhole == FramingInv => IsPrefix(got, requestsWritten)
  <1> SUFFICES ASSUME FramingInv PROVE IsPrefix(got, requestsWritten)
    OBVIOUS
  <1>1. PICK B : B = Seq(Bytes)
    OBVIOUS
  <1>2. PICK b : b = [i \in 1..Len(order) |-> Body[order[i]]]
    OBVIOUS
  <1>3. got \in Seq(B) /\ order \in Seq(Requests)
    BY <1>1 DEF FramingInv, TypeOK
  <1>4. b \in Seq(B) /\ Len(b) = Len(order) /\ \A i \in 1..Len(order) : b[i] = Body[order[i]]
    BY <1>1, <1>2, <1>3, Bodies
  <1>5. Len(got) <= Len(b) /\ \A i \in 1..Len(got) : got[i] = b[i]
    BY <1>3, <1>4, LenProperties DEF FramingInv, GotInv
  <1>6. IsPrefix(got, b)
    BY <1>3, <1>4, <1>5, PrefixOf
  <1> QED
    BY <1>2, <1>6 DEF requestsWritten

LEMMA CopiedIntact == FramingInv => RawIsIntact
  <1> SUFFICES ASSUME FramingInv PROVE RawIsIntact
    OBVIOUS
  <1>1. TypeOK /\ StageInv /\ WriterInv /\ CopyInv /\ GotInv /\ UpInv /\ DownInv
    BY DEF FramingInv
  <1>2. \A d \in Directions : /\ copied[d] \in Seq(Bytes) /\ stream[d] \in Seq(Bytes)
                              /\ SubSeq(Raw[d], 1, sent[d]) \in Seq(Bytes)
    <2> TAKE d \in Directions
    <2>1. sent[d] \in 0..Len(Raw[d]) /\ Raw[d] \in Seq(Bytes)
      BY <1>1, FramingAssumption, LenProperties DEF TypeOK, CopyInv
    <2>2. SubSeq(Raw[d], 1, sent[d]) \in Seq(Bytes)
      BY <2>1, Split
    <2> QED
      BY <1>1, <2>2 DEF TypeOK
  <1>3. ASSUME NEW d \in Directions, copied[d] = <<>>
        PROVE  IsPrefix(copied[d], SubSeq(Raw[d], 1, sent[d]))
    <2>1. PICK x \in Seq(Bytes) : x = SubSeq(Raw[d], 1, sent[d])
      BY <1>2
    <2>2. <<>> \o x = x /\ <<>> \in Seq(Bytes)
      BY ConcatEmptySeq, EmptySeq
    <2>3. IsPrefix(<<>>, x)
      BY <2>2, FirstPart
    <2> QED
      BY <1>3, <2>1, <2>3
  <1>4. ASSUME NEW d \in Directions, NEW t \in Seq(Bytes),
               copied[d] \o (stream[d] \o t) = SubSeq(Raw[d], 1, sent[d])
        PROVE  IsPrefix(copied[d], SubSeq(Raw[d], 1, sent[d]))
    <2>1. PICK x \in Seq(Bytes) : x = SubSeq(Raw[d], 1, sent[d])
      BY <1>2
    <2>2. PICK y \in Seq(Bytes) : y = stream[d] \o t
      BY <1>2, t \in Seq(Bytes), Joined, Zenon
    <2>3. PICK c \in Seq(Bytes) : c = copied[d]
      BY <1>2
    <2>4. c \o y = x
      BY <1>4, <2>1, <2>2, <2>3, Zenon
    <2>5. IsPrefix(c, x)
      BY <2>4, FirstPart
    <2> QED
      BY <2>1, <2>3, <2>5
  <1>5. "up" \in Directions /\ IsPrefix(copied["up"], SubSeq(Raw["up"], 1, sent["up"]))
    <2>1. "up" \in Directions
      BY DEF Directions
    <2>2. CASE copied["up"] # <<>>
      <3>1. acceptor = "copy" /\ kind = "data" /\ got # <<>>
        BY <1>1, <2>2 DEF CopyInv, StageInv
      <3>2. Len(got) \in Nat /\ Len(got) # 0 /\ Len(order) \in Nat
        BY <1>1, <3>1, EmptySeq, LenProperties DEF TypeOK
      <3>3. Len(got) = 1 /\ Len(order) = 1
        <4>1. Len(got) <= Len(order)
          BY <1>1 DEF GotInv
        <4>2. Len(order) <= 1
          BY <1>1, <3>1 DEF WriterInv
        <4>3. ASSUME NEW m \in Nat, NEW n \in Nat, m # 0, m <= n, n <= 1
              PROVE  m = 1 /\ n = 1
          BY <4>3
        <4> QED
          BY <3>2, <4>1, <4>2, <4>3, Zenon
      <3>4. PICK w : /\ Layout(w)
                     /\ acceptor # "accept" =>
                          \E t \in Seq(Bytes) : /\ copied["up"] \o (stream["up"] \o t) = w[Len(got) + 1]
                                                /\ Owed(t)
        BY <1>1 DEF UpInv
      <3>5. w[Len(got) + 1] = SubSeq(Raw["up"], 1, sent["up"])
        BY <3>3, <3>4 DEF Layout
      <3>6. PICK t \in Seq(Bytes) : copied["up"] \o (stream["up"] \o t) = SubSeq(Raw["up"], 1, sent["up"])
        BY <3>1, <3>4, <3>5
      <3> QED
        BY <1>4, <2>1, <3>6
    <2> QED
      BY <1>3, <2>1, <2>2
  <1>6. "down" \in Directions /\ IsPrefix(copied["down"], SubSeq(Raw["down"], 1, sent["down"]))
    <2>1. "down" \in Directions
      BY DEF Directions
    <2>2. CASE copied["down"] # <<>>
      <3>1. dialer = "ready"
        BY <1>1, <2>2 DEF CopyInv
      <3>2. PICK t \in Seq(Bytes) : copied["down"] \o (stream["down"] \o t) = SubSeq(Raw["down"], 1, sent["down"])
        BY <1>1, <3>1 DEF DownInv
      <3> QED
        BY <1>4, <2>1, <3>2
    <2> QED
      BY <1>3, <2>1, <2>2
  <1>7. ids \in {None, Ids}
    BY <1>1 DEF DownInv
  <1> QED
    BY <1>5, <1>6, <1>7 DEF RawIsIntact, Directions

\* A reader takes whole requests, in the order of the writers' locks, wherever the
\* session ends (WriteInvoke and ReadInvoke, invoke.go:216-275, 327-348).
THEOREM RequestsStayWhole == Spec => []IsPrefix(got, requestsWritten)
  BY TakenWhole, FramingInvariant, PTL

\* The users' bytes arrive as they were sent, without a byte of a frame among them
\* (Copy and the connected handler, invoke.go:143-164, 400-419; node.go:136-143).
THEOREM RawStaysIntact == Spec => []RawIsIntact
  BY CopiedIntact, FramingInvariant, PTL

-----------------------------------------------------------------------------
(* The streams implement three channels.                                   *)

\* What is appended to a beginning is what comes next.
LEMMA NextOf ==
  ASSUME NEW S, NEW a \in Seq(S), NEW b \in Seq(S), NEW x \in S, IsPrefix(Append(a, x), b)
  PROVE  Len(a) < Len(b) /\ x = b[Len(a) + 1]
  <1>1. PICK c \in Seq(S) : c = Append(a, x)
    BY AppendProperties
  <1>2. Len(c) = Len(a) + 1 /\ c[Len(a) + 1] = x /\ Len(a) \in Nat /\ Len(b) \in Nat
    BY <1>1, AppendProperties, LenProperties
  <1>3. Len(c) <= Len(b) /\ SubSeq(c, 1, Len(c)) = SubSeq(b, 1, Len(c))
    BY <1>1 DEF IsPrefix
  <1>4. SubSeq(c, 1, Len(c)) = c
    BY SubSeqFull
  <1>5. \A i \in 1..Len(c) : SubSeq(b, 1, Len(c))[i] = b[i]
    <2>1. Len(c) \in 0..Len(b)
      BY <1>2, <1>3
    <2> QED
      BY <2>1, Split
  <1>6. Len(a) + 1 \in 1..Len(c)
    BY <1>2
  <1> QED
    BY <1>2, <1>3, <1>4, <1>5, <1>6

\* A writer that has got the lock has its place among the requests.
LEMMA WriteRequest ==
  \A r \in Requests : FramingInv /\ BeginWrite(r) => Requested!Write(Body[r])
  <1> SUFFICES ASSUME NEW r \in Requests, FramingInv, BeginWrite(r) PROVE Requested!Write(Body[r])
    OBVIOUS
  <1>1. TypeOK /\ TypeOK'
    BY BeginWriteInv DEF FramingInv
  <1>2. PICK B : B = Seq(Bytes)
    OBVIOUS
  <1>3. PICK a : a = [i \in 1..Len(order) |-> Body[order[i]]]
    OBVIOUS
  <1>4. PICK b : b = [i \in 1..Len(order') |-> Body[order'[i]]]
    OBVIOUS
  <1>5. PICK n : n = Len(order)
    OBVIOUS
  <1>6. /\ Len(order') = n + 1 /\ order'[n + 1] = r /\ n \in Nat
        /\ \A i \in 1..n : order'[i] = order[i]
        /\ order \in Seq(Requests) /\ order' \in Seq(Requests)
    BY <1>1, <1>5, AppendProperties, LenProperties DEF BeginWrite, TypeOK
  <1>7. a \in Seq(B) /\ Len(a) = n /\ \A i \in 1..n : a[i] = Body[order[i]]
    BY <1>2, <1>3, <1>5, <1>6, Bodies
  <1>8. b \in Seq(B) /\ Len(b) = n + 1 /\ \A i \in 1..(n + 1) : b[i] = Body[order'[i]]
    BY <1>2, <1>4, <1>6, Bodies
  <1>9. Body[r] \in B
    BY <1>2, FramingAssumption
  <1>10. PICK c \in Seq(B) : c = Append(a, Body[r])
    BY <1>7, <1>9, AppendProperties
  <1>11. /\ Len(c) = n + 1 /\ c[n + 1] = Body[r] /\ \A i \in 1..n : c[i] = a[i]
    BY <1>7, <1>9, <1>10, AppendProperties
  <1>12. \A i \in 1..Len(b) : b[i] = c[i]
    BY <1>6, <1>7, <1>8, <1>11
  <1>13. b = c
    BY <1>8, <1>11, <1>12, SeqEqual
  <1> QED
    BY <1>3, <1>4, <1>10, <1>13 DEF Requested!Write, BeginWrite, requestsWritten

\* The invariants at the state after a step.
LEMMA Afterwards ==
  FramingInv' => IsPrefix(got, requestsWritten)' /\ RawIsIntact'
  BY TakenWhole, CopiedIntact, PTL

LEMMA TakeRequest ==
  FramingInv /\ ReadInvoke => Requested!Take \/ UNCHANGED <<requestsWritten, got>>
  <1> SUFFICES ASSUME FramingInv, ReadInvoke
               PROVE  Requested!Take \/ UNCHANGED <<requestsWritten, got>>
    OBVIOUS
  <1>1. TypeOK /\ TypeOK' /\ IsPrefix(got', requestsWritten')
    BY ReadInvokeInv, Afterwards DEF FramingInv
  <1>2. requestsWritten' = requestsWritten
    BY DEF ReadInvoke, writerVars, requestsWritten
  <1>3. CASE \E x : got' = Append(got, x)
    <2>1. PICK B : B = Seq(Bytes)
      OBVIOUS
    <2>2. PICK b \in Seq(B) : b = requestsWritten
      <3>1. order \in Seq(Requests)
        BY <1>1 DEF TypeOK
      <3> QED
        BY <2>1, <3>1, Bodies DEF requestsWritten
    <2>3. PICK x : got' = Append(got, x)
      BY <1>3
    <2>4. got \in Seq(B) /\ got' \in Seq(B) /\ IsPrefix(got', b)
      BY <1>1, <1>2, <2>1, <2>2 DEF TypeOK
    <2>5. x \in B
      <3>1. Len(got') = Len(got) + 1 /\ got'[Len(got) + 1] = x /\ Len(got) \in Nat
        BY <2>3, <2>4
      <3> QED
        BY <2>4, <3>1, ElementOfSeq
    <2>6. Len(got) < Len(b) /\ x = b[Len(got) + 1]
      BY <2>3, <2>4, <2>5, NextOf
    <2> QED
      BY <1>2, <2>2, <2>3, <2>6 DEF Requested!Take
  <1>4. CASE got' = got
    BY <1>2, <1>4
  <1> QED
    BY <1>3, <1>4 DEF ReadInvoke

\* A step of the channel of raw bytes in direction d.
RawNext(d) ==
  \/ \E x \in Bytes : rawWritten'[d] = Append(rawWritten[d], x) /\ copied'[d] = copied[d]
  \/ /\ Len(copied[d]) < Len(rawWritten[d])
     /\ copied'[d] = Append(copied[d], rawWritten[d][Len(copied[d]) + 1])
     /\ rawWritten'[d] = rawWritten[d]
  \/ rawWritten'[d] = rawWritten[d] /\ copied'[d] = copied[d]

LEMMA WriteByte ==
  \A d \in Directions : FramingInv /\ CopyIn(d) => \A e \in Directions : RawNext(e)
  <1> SUFFICES ASSUME NEW d \in Directions, FramingInv, CopyIn(d), NEW e \in Directions
               PROVE  RawNext(e)
    OBVIOUS
  <1>1. TypeOK /\ copied' = copied
    BY DEF FramingInv, CopyIn
  <1>2. CASE e = d
    <2>1. PICK x : x = Raw[d][sent[d] + 1]
      OBVIOUS
    <2>2. PICK a \in Seq(Bytes) : a = SubSeq(Raw[d], 1, sent[d])
      BY <1>1, NextByte DEF CopyIn
    <2>3. SubSeq(Raw[d], 1, sent'[d]) = a \o <<x>> /\ <<x>> \in Seq(Bytes)
      BY <1>1, <2>1, <2>2, NextByte DEF CopyIn
    <2>4. x \in Bytes
      BY <2>3
    <2>5. Append(a, x) = a \o <<x>>
      BY <2>4, AppendIsConcat
    <2>6. rawWritten[d] = a /\ rawWritten'[d] = Append(a, x)
      BY <2>2, <2>3, <2>5 DEF rawWritten
    <2> QED
      BY <1>1, <1>2, <2>4, <2>6 DEF RawNext
  <1>3. CASE e # d
    <2>1. sent'[e] = sent[e]
      BY <1>1, <1>3, NextByte DEF CopyIn
    <2>2. rawWritten'[e] = rawWritten[e]
      BY <2>1 DEF rawWritten
    <2> QED
      BY <1>1, <2>2 DEF RawNext
  <1> QED
    BY <1>2, <1>3

LEMMA TakeByte ==
  \A d \in Directions : FramingInv /\ CopyOut(d) => \A e \in Directions : RawNext(e)
  <1> SUFFICES ASSUME NEW d \in Directions, FramingInv, CopyOut(d), NEW e \in Directions
               PROVE  RawNext(e)
    OBVIOUS
  <1>1. TypeOK /\ CopyInv /\ RawIsIntact'
    <2>1. FramingInv'
      BY CopyOutUpInv, CopyOutDownInv DEF Directions
    <2> QED
      BY <2>1, Afterwards DEF FramingInv
  <1>2. rawWritten' = rawWritten
    BY DEF CopyOut, rawWritten
  <1>3. CASE e = d
    <2>1. PICK h : h = Head(stream[d])
      OBVIOUS
    <2>2. PICK c \in Seq(Bytes) : c = copied[d]
      BY <1>1 DEF TypeOK
    <2>3. h \in Bytes
      BY <1>1, <2>1, HeadFirst DEF TypeOK, CopyOut
    <2>4. copied'[d] = Append(c, h)
      BY <1>1, <2>1, <2>2 DEF TypeOK, CopyOut
    <2>5. PICK b \in Seq(Bytes) : b = SubSeq(Raw[d], 1, sent[d])
      <3>1. sent[d] \in 0..Len(Raw[d]) /\ Raw[d] \in Seq(Bytes)
        BY <1>1, FramingAssumption, LenProperties DEF TypeOK, CopyInv
      <3> QED
        BY <3>1, Split
    <2>6. IsPrefix(Append(c, h), b)
      BY <1>1, <2>4, <2>5 DEF RawIsIntact, CopyOut
    <2>7. Len(c) < Len(b) /\ h = b[Len(c) + 1]
      BY <2>3, <2>6, NextOf
    <2>8. rawWritten[d] = b
      BY <2>5 DEF rawWritten
    <2> QED
      BY <1>2, <1>3, <2>2, <2>4, <2>7, <2>8 DEF RawNext
  <1>4. CASE e # d
    <2>1. copied'[e] = copied[e]
      BY <1>1, <1>4 DEF TypeOK, CopyOut
    <2> QED
      BY <1>2, <2>1 DEF RawNext
  <1> QED
    BY <1>3, <1>4

\* Every other step leaves what is written and what is taken.
LEMMA NextChannels ==
  FramingInv /\ [Next]_vars => /\ [Requested!Next]_(Requested!vars)
                               /\ \A d \in Directions : RawNext(d)
  <1> SUFFICES ASSUME FramingInv, [Next]_vars
               PROVE  /\ [Requested!Next]_(Requested!vars)
                      /\ \A d \in Directions : RawNext(d)
    OBVIOUS
  <1> USE DEF Requested!vars
  <1>1. CASE \E r \in Requests : BeginWrite(r)
    <2>1. PICK r \in Requests : BeginWrite(r)
      BY <1>1
    <2>2. Requested!Next
      BY <2>1, WriteRequest DEF Requested!Next
    <2>3. rawWritten' = rawWritten /\ copied' = copied
      BY <2>1 DEF BeginWrite, copyVars, rawWritten
    <2> QED
      BY <2>2, <2>3 DEF RawNext
  <1>2. CASE ReadInvoke
    <2>1. [Requested!Next]_(Requested!vars)
      BY <1>2, TakeRequest DEF Requested!Next
    <2>2. rawWritten' = rawWritten /\ copied' = copied
      BY <1>2 DEF ReadInvoke, copyVars, rawWritten
    <2> QED
      BY <2>1, <2>2 DEF RawNext
  <1>3. CASE \E d \in Directions : CopyIn(d) \/ CopyOut(d)
    <2>1. requestsWritten' = requestsWritten /\ got' = got
      BY <1>3 DEF CopyIn, CopyOut, writerVars, requestsWritten
    <2> QED
      BY <1>3, <2>1, WriteByte, TakeByte
  <1>4. CASE \/ WritePush \/ AddAcceptInvoker \/ WriteIds \/ AddDialInvoker \/ SessionEnds
             \/ \E r \in Requests : writeInvokeData(r)
             \/ UNCHANGED vars
    <2>1. order' = order /\ got' = got /\ sent' = sent /\ copied' = copied
      BY <1>4 DEF WritePush, AddAcceptInvoker, WriteIds, AddDialInvoker, SessionEnds,
         writeInvokeData, vars, writerVars, copyVars
    <2>2. requestsWritten' = requestsWritten /\ rawWritten' = rawWritten
      BY <2>1 DEF requestsWritten, rawWritten
    <2> QED
      BY <2>1, <2>2 DEF RawNext
  <1> QED
    BY <1>1, <1>2, <1>3, <1>4 DEF Next

\* The two streams of a tunnel implement a channel of requests and two of raw bytes,
\* for any requests, bytes and width of a length: whatever the handshake, the lock
\* of the writers and the end of the session cut and interleave, no reader gets
\* anything but what was written for it, in its order
\* (invoke.go:143-164, 216-275, 327-348, 400-419).
THEOREM TunnelKeepsChannels == Spec => KeepsChannels
  <1>1. Init => Requested!Init /\ RawUp!Init /\ RawDown!Init
    <2> SUFFICES ASSUME Init PROVE Requested!Init /\ RawUp!Init /\ RawDown!Init
      OBVIOUS
    <2>1. requestsWritten = <<>>
      BY DEF Init, requestsWritten
    <2>2. \A d \in Directions : rawWritten[d] = <<>>
      BY SubSeqEmpty DEF Init, rawWritten
    <2> QED
      BY <2>1, <2>2 DEF Init, Directions, Requested!Init, RawUp!Init, RawDown!Init
  <1>2. FramingInv /\ [Next]_vars => /\ [Requested!Next]_(Requested!vars)
                                     /\ [RawUp!Next]_(RawUp!vars)
                                     /\ [RawDown!Next]_(RawDown!vars)
    <2> SUFFICES ASSUME FramingInv, [Next]_vars
                 PROVE  /\ [Requested!Next]_(Requested!vars)
                        /\ [RawUp!Next]_(RawUp!vars)
                        /\ [RawDown!Next]_(RawDown!vars)
      OBVIOUS
    <2>1. [Requested!Next]_(Requested!vars) /\ RawNext("up") /\ RawNext("down")
      BY NextChannels DEF Directions
    <2>2. [RawUp!Next]_(RawUp!vars)
      BY <2>1 DEF RawNext, RawUp!Next, RawUp!Write, RawUp!Take, RawUp!vars
    <2>3. [RawDown!Next]_(RawDown!vars)
      BY <2>1 DEF RawNext, RawDown!Next, RawDown!Write, RawDown!Take, RawDown!vars
    <2> QED
      BY <2>1, <2>2, <2>3
  <1> QED
    BY <1>1, <1>2, FramingInvariant, PTL
       DEF Spec, KeepsChannels, Requested!Spec, RawUp!Spec, RawDown!Spec
===============================================================================
