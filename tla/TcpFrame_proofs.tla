---------------------------- MODULE TcpFrame_proofs ----------------------------
(***************************************************************************)
(* Proofs about TcpFrame, for every byte base, length of the header, size  *)
(* of the caller's buffer and list of messages: the types, that tcp_read   *)
(* returns the messages of the sender whole and in order, and that readn   *)
(* stays inside the buffer it was given.                                   *)
(*                                                                         *)
(* The frames of all messages are laid end to end (Off, ByteAt).  Every    *)
(* byte sequence of the state - what writen has still to write, what is on *)
(* its way, what readn has read - carries the bytes that follow a known    *)
(* position of that line, so however the kernel cuts the bytes the reader  *)
(* finds the header and then the message that the sender put there.  What  *)
(* is known ends with the first frame that its msg_t cut short (torn).     *)
(***************************************************************************)
EXTENDS TcpFrame, WellFoundedInduction, TLAPS

-----------------------------------------------------------------------------
(* Induction and recursion on numbers *)

\* A set of numbers that is not empty has a least element.
LEMMA Least ==
  ASSUME NEW T \in SUBSET Nat, T # {}
  PROVE  \E x \in T : \A y \in T : x <= y
<1>1. PICK R : R = OpToRel(<, Nat)
  OBVIOUS
<1>2. PICK x \in T : \A y \in T : ~(<<y, x>> \in R)
  BY <1>1, NatLessThanWellFounded, WFMin
<1>3. \A u, v \in Nat : v < u => <<v, u>> \in R
  BY <1>1 DEF OpToRel
<1>4. ASSUME NEW y \in T PROVE x <= y
  <2>1. ~(<<y, x>> \in R) /\ x \in Nat /\ y \in Nat
    BY <1>2
  <2>2. ~(y < x)
    BY <1>3, <2>1, Zenon
  <2> QED BY <2>1, <2>2
<1> QED BY <1>4

\* Induction, for a property given as a set of numbers.
LEMMA Induction ==
  ASSUME NEW T \in SUBSET Nat, 0 \in T, \A i \in T : i + 1 \in T
  PROVE  T = Nat
<1>1. ASSUME Nat \ T # {} PROVE FALSE
  <2>1. PICK x \in Nat \ T : \A y \in Nat \ T : x <= y
    BY <1>1, Least
  <2>2. x # 0 /\ x - 1 \in Nat
    BY <2>1
  <2>3. x - 1 \in T
    BY <2>1, <2>2
  <2>4. (x - 1) + 1 \in T
    BY <2>3
  <2> QED BY <2>1, <2>4
<1> QED BY <1>1

\* h is computed from a by the steps of g, up to n.
Computes(n, h, S, a, g) ==
  h \in [0 .. n -> S] /\ h[0] = a /\ \A i \in Nat : i + 1 <= n => h[i + 1] = g[i][h[i]]

\* What it has computed does not depend on how far it goes.
LEMMA ComputesSame ==
  ASSUME NEW S, NEW a \in S, NEW g \in [Nat -> [S -> S]], NEW n \in Nat, NEW m \in Nat, NEW h, NEW k,
         Computes(n, h, S, a, g), Computes(m, k, S, a, g)
  PROVE  \A i \in Nat : i <= n /\ i <= m => h[i] = k[i]
<1> DEFINE T == {i \in Nat : i <= n /\ i <= m => h[i] = k[i]}
<1>1. 0 \in T
  BY DEF Computes
<1>2. ASSUME NEW i \in T PROVE i + 1 \in T
  <2>1. CASE i + 1 <= n /\ i + 1 <= m
    <3>1. h[i] = k[i]
      BY <1>2, <2>1
    <3>2. h[i + 1] = g[i][h[i]] /\ k[i + 1] = g[i][k[i]]
      BY <2>1 DEF Computes
    <3> QED BY <3>1, <3>2
  <2> QED BY <2>1
<1>3. T = Nat
  BY <1>1, <1>2, Induction
<1> QED BY <1>3

\* It can be computed as far as one likes.
LEMMA ComputesFar ==
  ASSUME NEW S, NEW a \in S, NEW g \in [Nat -> [S -> S]]
  PROVE  \A n \in Nat : \E h : Computes(n, h, S, a, g)
<1> DEFINE T == {n \in Nat : \E h : Computes(n, h, S, a, g)}
<1>1. 0 \in T
  <2>1. Computes(0, [i \in 0 .. 0 |-> a], S, a, g)
    BY DEF Computes
  <2> QED BY <2>1
<1>2. ASSUME NEW n \in T PROVE n + 1 \in T
  <2>1. PICK h : Computes(n, h, S, a, g)
    OBVIOUS
  <2>2. PICK k : k = [i \in 0 .. n + 1 |-> IF i <= n THEN h[i] ELSE g[n][h[n]]]
    OBVIOUS
  <2>3. /\ k[n + 1] = g[n][h[n]] /\ k[0] = h[0] /\ DOMAIN k = 0 .. n + 1
        /\ \A i \in 0 .. n : k[i] = h[i]
    BY <2>2
  <2>4. h \in [0 .. n -> S] /\ h[0] = a
    BY <2>1 DEF Computes
  <2>5. k \in [0 .. n + 1 -> S]
    BY <2>2, <2>4
  <2>6. ASSUME NEW i \in Nat, i + 1 <= n + 1 PROVE k[i + 1] = g[i][k[i]]
    <3>1. CASE i = n
      BY <2>3, <3>1
    <3>2. CASE i + 1 <= n
      <4>1. h[i + 1] = g[i][h[i]]
        BY <2>1, <3>2 DEF Computes
      <4> QED BY <2>3, <3>2, <4>1
    <3> QED BY <2>6, <3>1, <3>2
  <2>7. Computes(n + 1, k, S, a, g)
    BY <2>3, <2>4, <2>5, <2>6 DEF Computes
  <2> QED BY <2>7
<1> HIDE DEF T
<1>3. T = Nat
  <2>1. T \in SUBSET Nat
    BY DEF T
  <2> QED BY <1>1, <1>2, <2>1, Induction
<1> QED BY <1>3 DEF T

\* f starts with a and follows the steps of g for ever.
Follows(f, S, a, g) ==
  f \in [Nat -> S] /\ f[0] = a /\ \A i \in Nat : f[i + 1] = g[i][f[i]]

\* There is such a function.
LEMMA Recursion ==
  ASSUME NEW S, NEW a \in S, NEW g \in [Nat -> [S -> S]]
  PROVE  \E f : Follows(f, S, a, g)
<1> DEFINE H(n) == CHOOSE h : Computes(n, h, S, a, g)
<1>1. \A n \in Nat : Computes(n, H(n), S, a, g)
  BY ComputesFar
<1> HIDE DEF H
<1>2. PICK f : f = [n \in Nat |-> H(n)[n]]
  OBVIOUS
<1>3. f \in [Nat -> S]
  <2>1. \A n \in Nat : H(n)[n] \in S
    BY <1>1 DEF Computes
  <2> QED BY <1>2, <2>1
<1>4. f[0] = a
  BY <1>1, <1>2 DEF Computes
<1>5. ASSUME NEW i \in Nat PROVE f[i + 1] = g[i][f[i]]
  <2>1. H(i + 1)[i + 1] = g[i][H(i + 1)[i]]
    BY <1>1 DEF Computes
  <2>2. H(i + 1)[i] = H(i)[i]
    <3>1. Computes(i + 1, H(i + 1), S, a, g) /\ Computes(i, H(i), S, a, g)
      BY <1>1
    <3>2. i + 1 \in Nat /\ i <= i + 1 /\ i <= i
      OBVIOUS
    <3> QED BY <3>1, <3>2, ComputesSame
  <2>3. f[i + 1] = H(i + 1)[i + 1] /\ f[i] = H(i)[i]
    BY <1>2
  <2> QED BY <2>1, <2>2, <2>3
<1> QED BY <1>3, <1>4, <1>5 DEF Follows

(* The length of a frame in its header *)

\* A multiple of a larger number is larger by at least the factor.
LEMMA MulGrows ==
  ASSUME NEW d \in Nat, NEW x \in Int, NEW y \in Int, x + 1 <= y
  PROVE  d * x + d <= d * y
<1>1. PICK z \in Nat : y = x + 1 + z
  <2>1. y - x - 1 \in Nat /\ y = x + 1 + (y - x - 1)
    OBVIOUS
  <2> QED BY <2>1
<1>2. d * y = d * x + d + d * z
  BY <1>1
<1>3. d * z \in Nat
  BY <1>1
<1> QED BY <1>2, <1>3

\* Division with remainder has one result.
LEMMA Quotient ==
  ASSUME NEW l \in Nat, NEW d \in Nat \ {0}, NEW q \in Int, NEW r \in Int,
         l = d * q + r, 0 <= r, r < d
  PROVE  l \div d = q
<1>1. PICK p \in Int, s \in Int : p = l \div d /\ s = l % d
  OBVIOUS
<1>2. l = d * p + s /\ 0 <= s /\ s < d
  BY <1>1
<1>3. PICK dp \in Int, dq \in Int : dp = d * p /\ dq = d * q
  OBVIOUS
<1>4. ASSUME p + 1 <= q PROVE FALSE
  <2>1. dp + d <= dq
    BY <1>3, <1>4, MulGrows
  <2> QED BY <1>2, <1>3, <2>1
<1>5. ASSUME q + 1 <= p PROVE FALSE
  <2>1. dq + d <= dp
    BY <1>3, <1>5, MulGrows
  <2> QED BY <1>2, <1>3, <2>1
<1> QED BY <1>1, <1>4, <1>5

\* Dividing twice is dividing once by the product.
LEMMA DivDiv ==
  ASSUME NEW l \in Nat, NEW p \in Nat \ {0}, NEW b \in Nat \ {0}
  PROVE  (l \div p) \div b = l \div (b * p)
<1>1. PICK q \in Nat, r \in Nat : q = l \div p /\ r = l % p
  OBVIOUS
<1>2. l = p * q + r /\ r < p
  BY <1>1
<1>3. PICK s \in Nat, t \in Nat : s = q \div b /\ t = q % b
  OBVIOUS
<1>4. q = b * s + t /\ t < b
  BY <1>3
<1>5. PICK d \in Nat \ {0} : d = b * p
  <2>1. b * p \in Nat \ {0}
    OBVIOUS
  <2> QED BY <2>1
<1>6. p * q = d * s + p * t
  BY <1>4, <1>5
<1>7. p * t + p <= d
  <2>1. p * t + p <= p * b
    BY <1>4, MulGrows
  <2>2. p * b = d
    BY <1>5
  <2> QED BY <2>1, <2>2
<1>8. PICK u \in Nat : u = p * t
  <2>1. p * t \in Nat
    OBVIOUS
  <2> QED BY <2>1
<1>9. l = d * s + (u + r) /\ 0 <= u + r /\ u + r < d
  BY <1>2, <1>6, <1>7, <1>8
<1>10. l \div d = s
  BY <1>9, Quotient
<1> QED BY <1>1, <1>3, <1>5, <1>10

\* Quotient and remainder determine a number.
LEMMA SameParts ==
  ASSUME NEW l \in Nat, NEW m \in Nat, NEW b \in Nat \ {0}, l \div b = m \div b, l % b = m % b
  PROVE  l = m
<1>1. l = b * (l \div b) + (l % b)
  OBVIOUS
<1>2. m = b * (m \div b) + (m % b)
  OBVIOUS
<1> QED BY <1>1, <1>2, Zenon

\* Pow is what its definition says: the powers of Base, none of them 0.
LEMMA PowFacts ==
  /\ Pow \in [Nat -> Nat \ {0}]
  /\ Pow[0] = 1
  /\ \A i \in Nat : Pow[i + 1] = Base * Pow[i]
<1>1. Base \in Nat \ {0, 1}
  BY FrameAssumption
<1>2. PICK S : S = Nat \ {0}
  OBVIOUS
<1>3. PICK g : g = [i \in Nat |-> [x \in S |-> Base * x]]
  OBVIOUS
<1>4. \A x \in S : Base * x \in S
  BY <1>1, <1>2
<1>5. g \in [Nat -> [S -> S]]
  BY <1>3, <1>4
<1>6. 1 \in S
  BY <1>2
<1>7. PICK f : Follows(f, S, 1, g)
  BY <1>5, <1>6, Recursion
<1>8. \A i \in Nat : f[i + 1] = Base * f[i]
  BY <1>3, <1>7 DEF Follows
<1>9. \A i \in Nat : f[i] = IF i = 0 THEN 1 ELSE Base * f[i - 1]
  <2>1. ASSUME NEW i \in Nat, i # 0 PROVE f[i] = Base * f[i - 1]
    <3>1. i - 1 \in Nat /\ (i - 1) + 1 = i
      BY <2>1
    <3>2. f[(i - 1) + 1] = Base * f[i - 1]
      BY <1>8, <3>1
    <3> QED BY <3>1, <3>2
  <2> QED BY <1>7, <2>1 DEF Follows
<1>10. f = [i \in Nat |-> IF i = 0 THEN 1 ELSE Base * f[i - 1]]
  BY <1>7, <1>9 DEF Follows
<1>11. Pow = [i \in Nat |-> IF i = 0 THEN 1 ELSE Base * Pow[i - 1]]
  BY <1>10 DEF Pow
<1>12. Pow[0] = 1 /\ \A i \in Nat : Pow[i + 1] = Base * Pow[i]
  <2>1. Pow[0] = 1
    BY <1>11
  <2>2. ASSUME NEW i \in Nat PROVE Pow[i + 1] = Base * Pow[i]
    <3>1. i + 1 \in Nat /\ i + 1 # 0 /\ (i + 1) - 1 = i
      OBVIOUS
    <3> QED BY <1>11, <3>1
  <2> QED BY <2>1, <2>2
<1>13. \A i \in Nat : Pow[i] \in S
  <2> DEFINE T == {i \in Nat : Pow[i] \in S}
  <2>1. 0 \in T
    BY <1>6, <1>12
  <2>2. \A i \in T : i + 1 \in T
    BY <1>4, <1>12
  <2>3. T = Nat
    BY <2>1, <2>2, Induction
  <2> QED BY <2>3
<1> QED BY <1>2, <1>11, <1>12, <1>13

\* A header is HdrLen bytes.
LEMMA HeaderType ==
  ASSUME NEW l \in Nat
  PROVE  Header(l) \in Seq(Byte) /\ Len(Header(l)) = HdrLen
<1>1. Base \in Nat \ {0, 1} /\ HdrLen \in Nat \ {0}
  BY FrameAssumption
<1>2. ASSUME NEW i \in 1 .. HdrLen PROVE (l \div Pow[i - 1]) % Base \in Byte
  <2>1. i - 1 \in Nat
    BY <1>1
  <2>2. PICK p \in Nat \ {0} : p = Pow[i - 1]
    BY <2>1, PowFacts
  <2>3. l \div p \in Nat
    OBVIOUS
  <2>4. (l \div p) % Base \in 0 .. Base - 1
    BY <1>1, <2>3
  <2> QED BY <2>2, <2>4 DEF Byte
<1>3. Header(l) \in [1 .. HdrLen -> Byte]
  BY <1>2 DEF Header
<1> QED BY <1>1, <1>3

\* A header tells which length it is.
LEMMA HeaderInjective ==
  ASSUME NEW l \in 0 .. Modulo - 1, NEW m \in 0 .. Modulo - 1, Header(l) = Header(m)
  PROVE  l = m
<1>1. Base \in Nat \ {0, 1} /\ HdrLen \in Nat \ {0}
  BY FrameAssumption
<1>2. Modulo \in Nat \ {0} /\ Modulo = Pow[HdrLen]
  BY <1>1, PowFacts DEF Modulo
<1>0. l \in Nat /\ m \in Nat
  BY <1>2
<1> DEFINE T == {i \in Nat : i <= HdrLen => l \div Pow[HdrLen - i] = m \div Pow[HdrLen - i]}
<1>3. 0 \in T
  <2>1. \A x \in 0 .. Modulo - 1 : x \div Modulo = 0
    BY <1>2, Quotient
  <2>2. HdrLen - 0 = HdrLen
    BY <1>1
  <2>3. l \div Modulo = m \div Modulo
    BY <2>1
  <2> QED BY <1>2, <2>2, <2>3
<1>4. ASSUME NEW i \in T PROVE i + 1 \in T
  <2>1. SUFFICES ASSUME i + 1 <= HdrLen
                 PROVE  l \div Pow[HdrLen - (i + 1)] = m \div Pow[HdrLen - (i + 1)]
    OBVIOUS
  <2>2. PICK k \in Nat : k = HdrLen - (i + 1)
    BY <1>1, <2>1
  <2>3. k + 1 = HdrLen - i /\ k + 1 \in 1 .. HdrLen /\ (k + 1) - 1 = k
    BY <1>1, <2>1, <2>2
  <2>4. PICK p \in Nat \ {0} : p = Pow[k]
    BY PowFacts
  <2>5. Pow[k + 1] = Base * p
    BY <2>4, PowFacts
  <2>6. l \div (Base * p) = m \div (Base * p)
    BY <1>4, <2>1, <2>3, <2>5, <1>1
  <2>7. Header(l)[k + 1] = (l \div p) % Base /\ Header(m)[k + 1] = (m \div p) % Base
    BY <2>3, <2>4 DEF Header
  <2>8. PICK lp \in Nat, mp \in Nat : lp = l \div p /\ mp = m \div p
    BY <1>0
  <2>9. lp % Base = mp % Base
    BY <2>7, <2>8
  <2>10. lp \div Base = mp \div Base
    <3>1. Base \in Nat \ {0}
      BY <1>1
    <3>2. (l \div p) \div Base = l \div (Base * p)
      BY <1>0, <3>1, DivDiv, Zenon
    <3>3. (m \div p) \div Base = m \div (Base * p)
      BY <1>0, <3>1, DivDiv, Zenon
    <3> QED BY <2>6, <2>8, <3>2, <3>3, Zenon
  <2>12. lp = mp
    <3>1. Base \in Nat \ {0}
      BY <1>1
    <3> QED BY <2>9, <2>10, <3>1, SameParts
  <2> QED BY <2>2, <2>4, <2>8, <2>12
<1> HIDE DEF T
<1>5. T = Nat
  <2>1. T \in SUBSET Nat
    BY DEF T
  <2> QED BY <1>3, <1>4, <2>1, Induction
<1>6. l \div Pow[HdrLen - HdrLen] = m \div Pow[HdrLen - HdrLen]
  <2>1. HdrLen \in T
    BY <1>1, <1>5
  <2> QED BY <1>1, <2>1 DEF T
<1>7. HdrLen - HdrLen = 0
  BY <1>1
<1>8. l \div 1 = m \div 1
  BY <1>6, <1>7, PowFacts
<1> QED BY <1>0, <1>8

\* So the reader recovers the length.
LEMMA ValueOfHeader ==
  ASSUME NEW l \in 0 .. Modulo - 1
  PROVE  Value(Header(l)) = l
<1>1. PICK v : v = Value(Header(l))
  OBVIOUS
<1>2. v \in 0 .. Modulo - 1 /\ Header(v) = Header(l)
  BY <1>1 DEF Value
<1>3. v = l
  BY <1>2, HeaderInjective
<1> QED BY <1>1, <1>3

\* Any HdrLen bytes are the header of some length.
LEMMA ValueType ==
  ASSUME NEW s \in Seq(Byte), Len(s) = HdrLen
  PROVE  Value(s) \in 0 .. Modulo - 1
<1>1. Base \in Nat \ {0, 1} /\ HdrLen \in Nat \ {0} /\ \A i \in 1 .. HdrLen : s[i] \in Nat /\ s[i] < Base
  <2>1. Base \in Nat \ {0, 1} /\ HdrLen \in Nat \ {0}
    BY FrameAssumption
  <2>2. ASSUME NEW i \in 1 .. HdrLen PROVE s[i] \in Nat /\ s[i] < Base
    <3>1. s[i] \in Byte
      OBVIOUS
    <3> QED BY <2>1, <3>1 DEF Byte
  <2> QED BY <2>1, <2>2
<1> DEFINE Fit(n, l) == l \in Nat /\ l < Pow[n] /\ \A i \in 1 .. n : (l \div Pow[i - 1]) % Base = s[HdrLen - n + i]
<1> DEFINE T == {n \in Nat : n <= HdrLen => \E l : Fit(n, l)}
<1>2. 0 \in T
  <2>1. Fit(0, 0)
    BY PowFacts
  <2> QED BY <2>1
<1>3. ASSUME NEW n \in T PROVE n + 1 \in T
  <2>1. SUFFICES ASSUME n + 1 <= HdrLen PROVE \E l : Fit(n + 1, l)
    OBVIOUS
  <2>2. PICK l : Fit(n, l)
    BY <1>1, <2>1
  <2>3. PICK p \in Nat \ {0} : p = Pow[n]
    BY PowFacts
  <2>4. l \in Nat /\ l + 1 <= p /\ \A i \in 1 .. n : (l \div Pow[i - 1]) % Base = s[HdrLen - n + i]
    BY <2>2, <2>3
  <2>5. PICK b \in Nat : b = s[HdrLen - n] /\ b < Base
    <3>1. HdrLen - n \in 1 .. HdrLen
      BY <1>1, <2>1
    <3> QED BY <1>1, <3>1
  <2>6. PICK q \in Nat : q = Base * l + b
    BY <1>1, <2>4
  <2>7. q < Pow[n + 1]
    <3>1. Base * l + Base <= Base * p
      BY <1>1, <2>4, MulGrows
    <3>2. Pow[n + 1] = Base * p
      BY <2>3, PowFacts
    <3>3. PICK x \in Nat, y \in Nat : x = Base * l /\ y = Base * p
      BY <1>1, <2>4
    <3> QED BY <1>1, <2>5, <2>6, <3>1, <3>2, <3>3
  <2>8. q \div Base = l
    <3>1. Base \in Nat \ {0} /\ l \in Int /\ b \in Int /\ q = Base * l + b /\ 0 <= b /\ b < Base
      BY <1>1, <2>4, <2>5, <2>6
    <3> QED BY <3>1, Quotient, Zenon
  <2>9. q % Base = b
    <3>1. q = Base * (q \div Base) + (q % Base)
      BY <1>1
    <3>2. PICK x \in Int, y \in Int : x = Base * l /\ y = q % Base
      BY <1>1, <2>4
    <3>3. q = x + y /\ q = x + b
      BY <2>6, <2>8, <3>1, <3>2
    <3>4. y = b
      BY <3>3
    <3> QED BY <3>2, <3>4
  <2>10. ASSUME NEW i \in 1 .. n + 1 PROVE (q \div Pow[i - 1]) % Base = s[HdrLen - (n + 1) + i]
    <3>1. CASE i = 1
      <4>1. HdrLen - (n + 1) + i = HdrLen - n /\ i - 1 = 0
        BY <1>1, <3>1
      <4>2. q \div 1 = q
        OBVIOUS
      <4> QED BY <2>5, <2>9, <4>1, <4>2, PowFacts
    <3>2. CASE i # 1
      <4>1. PICK j \in 1 .. n : i = j + 1
        <5>1. i - 1 \in 1 .. n /\ i = (i - 1) + 1
          BY <3>2
        <5> QED BY <5>1
      <4>2. j - 1 \in Nat /\ (j - 1) + 1 = i - 1 /\ HdrLen - (n + 1) + i = HdrLen - n + j
        BY <1>1, <4>1
      <4>3. PICK d \in Nat \ {0} : d = Pow[j - 1]
        BY <4>2, PowFacts
      <4>4. Pow[i - 1] = Base * d
        BY <4>2, <4>3, PowFacts
      <4>5. Base * d = d * Base
        BY <1>1
      <4>6. (q \div Base) \div d = q \div (d * Base)
        BY <1>1, DivDiv
      <4>7. (l \div d) % Base = s[HdrLen - n + j]
        BY <2>4, <4>3
      <4> QED BY <2>8, <4>2, <4>4, <4>5, <4>6, <4>7
    <3> QED BY <3>1, <3>2
  <2>11. Fit(n + 1, q)
    BY <2>7, <2>10
  <2> QED BY <2>11
<1>4. T = Nat
  <2>1. T \in SUBSET Nat
    OBVIOUS
  <2> HIDE DEF T
  <2> QED BY <1>2, <1>3, <2>1, Induction
<1>5. PICK l : Fit(HdrLen, l)
  <2>1. HdrLen \in T /\ HdrLen \in Nat /\ HdrLen <= HdrLen
    <3> HIDE DEF T
    <3> QED BY <1>1, <1>4
  <2> HIDE DEF Fit
  <2> QED BY <2>1
<1>6. Modulo = Pow[HdrLen] /\ Pow[HdrLen] \in Nat \ {0}
  BY <1>1, PowFacts DEF Modulo
<1>7. l \in 0 .. Modulo - 1
  BY <1>5, <1>6
<1>8. \A i \in 1 .. HdrLen : Header(l)[i] = s[i]
  <2>1. ASSUME NEW i \in 1 .. HdrLen PROVE Header(l)[i] = s[i]
    <3>1. HdrLen - HdrLen + i = i
      BY <1>1
    <3>2. (l \div Pow[i - 1]) % Base = s[HdrLen - HdrLen + i]
      BY <1>5
    <3>3. Header(l)[i] = (l \div Pow[i - 1]) % Base
      BY DEF Header
    <3> QED BY <3>1, <3>2, <3>3
  <2> QED BY <2>1
<1>9. Header(l) = s
  <2>1. l \in Nat
    BY <1>5
  <2>2. Header(l) \in Seq(Byte) /\ Len(Header(l)) = HdrLen
    BY <2>1, HeaderType
  <2> QED BY <1>8, <2>2
<1> QED BY <1>7, <1>9 DEF Value

(* The bytes of all frames, in order *)

Frame(i) == Header(Len(Messages[i])) \o Messages[i]

FrameLen(i) == IF i \in DOMAIN Messages THEN HdrLen + Len(Messages[i]) ELSE 0

\* Where the i-th frame ends.
Off[i \in Nat] == IF i = 0 THEN 0 ELSE Off[i - 1] + FrameLen(i)

\* The byte at a position, counted from 1.
ByteAt(p) ==
  CHOOSE b : \E i \in DOMAIN Messages : \E j \in 1 .. FrameLen(i) : p = Off[i - 1] + j /\ b = Frame(i)[j]

\* A message, its length and its header have their types, and the length fits.
LEMMA MessageType ==
  ASSUME NEW i \in 1 .. Len(Messages)
  PROVE  /\ Messages[i] \in Seq(Byte) /\ Len(Messages[i]) \in 0 .. Modulo - 1
         /\ Header(Len(Messages[i])) \in Seq(Byte) /\ Len(Header(Len(Messages[i]))) = HdrLen
         /\ FrameLen(i) = HdrLen + Len(Messages[i])
<1>1. Messages \in Seq(Seq(Byte)) /\ HdrLen \in Nat \ {0}
  BY FrameAssumption
<1>2. i \in DOMAIN Messages
  BY <1>1
<1>3. Messages[i] \in Seq(Byte) /\ Len(Messages[i]) \in Nat
  BY <1>1
<1>4. Len(Messages[i]) < Modulo
  BY <1>2, FrameAssumption
<1>5. Modulo \in Nat
  BY <1>1, PowFacts DEF Modulo
<1>6. FrameLen(i) = HdrLen + Len(Messages[i])
  BY <1>2 DEF FrameLen
<1> QED BY <1>1, <1>3, <1>4, <1>5, <1>6, HeaderType

\* The length of a frame is a number.
LEMMA FrameLenType == ASSUME NEW i \in Nat PROVE FrameLen(i) \in Nat
<1>1. Messages \in Seq(Seq(Byte)) /\ HdrLen \in Nat \ {0}
  BY FrameAssumption
<1> QED BY <1>1 DEF FrameLen

\* Off is what its definition says: the sums of the lengths of the frames.
LEMMA OffFacts ==
  /\ Off \in [Nat -> Nat]
  /\ Off[0] = 0
  /\ \A i \in Nat : Off[i + 1] = Off[i] + FrameLen(i + 1)
<1>1. PICK S : S = Nat
  OBVIOUS
<1>2. \A i \in Nat : FrameLen(i + 1) \in Nat
  BY FrameLenType
<1>3. PICK g : g = [i \in Nat |-> [x \in S |-> x + FrameLen(i + 1)]]
  OBVIOUS
<1>4. g \in [Nat -> [S -> S]]
  BY <1>1, <1>2, <1>3
<1>5. 0 \in S
  BY <1>1
<1>6. PICK f : Follows(f, S, 0, g)
  BY <1>4, <1>5, Recursion
<1>7. f \in [Nat -> Nat] /\ f[0] = 0
  BY <1>1, <1>6 DEF Follows
<1>8. \A i \in Nat : f[i + 1] = f[i] + FrameLen(i + 1)
  BY <1>1, <1>3, <1>6, <1>7 DEF Follows
<1>9. \A i \in Nat : f[i] = IF i = 0 THEN 0 ELSE f[i - 1] + FrameLen(i)
  <2>1. ASSUME NEW i \in Nat, i # 0 PROVE f[i] = f[i - 1] + FrameLen(i)
    <3>1. i - 1 \in Nat /\ (i - 1) + 1 = i
      BY <2>1
    <3>2. f[(i - 1) + 1] = f[i - 1] + FrameLen((i - 1) + 1)
      BY <1>8, <3>1
    <3> QED BY <3>1, <3>2
  <2> QED BY <1>7, <2>1
<1>10. f = [i \in Nat |-> IF i = 0 THEN 0 ELSE f[i - 1] + FrameLen(i)]
  BY <1>7, <1>9
<1>11. Off = [i \in Nat |-> IF i = 0 THEN 0 ELSE Off[i - 1] + FrameLen(i)]
  BY <1>10 DEF Off
<1>12. Off[0] = 0
  BY <1>11
<1>13. ASSUME NEW i \in Nat PROVE Off[i + 1] = Off[i] + FrameLen(i + 1)
  <2>1. i + 1 \in Nat /\ i + 1 # 0 /\ (i + 1) - 1 = i
    OBVIOUS
  <2> QED BY <1>11, <2>1
<1>14. \A i \in Nat : Off[i] \in Nat
  <2> DEFINE T == {i \in Nat : Off[i] \in Nat}
  <2>1. 0 \in T
    BY <1>12
  <2>2. \A i \in T : i + 1 \in T
    BY <1>2, <1>13
  <2>3. T = Nat
    BY <2>1, <2>2, Induction
  <2> QED BY <2>3
<1> QED BY <1>11, <1>12, <1>13, <1>14

\* Later frames end later.
LEMMA OffRises ==
  ASSUME NEW i \in Nat, NEW j \in Nat, i <= j
  PROVE  Off[i] <= Off[j]
<1> DEFINE T == {d \in Nat : Off[i] <= Off[i + d]}
<1>1. 0 \in T
  BY OffFacts
<1>2. ASSUME NEW d \in T PROVE d + 1 \in T
  <2>1. i + d \in Nat /\ (i + d) + 1 = i + (d + 1) /\ (i + d) + 1 \in Nat
    OBVIOUS
  <2>2. Off[(i + d) + 1] = Off[i + d] + FrameLen((i + d) + 1)
    BY <2>1, OffFacts
  <2>3. FrameLen((i + d) + 1) \in Nat
    BY <2>1, FrameLenType
  <2>4. Off[i] \in Nat /\ Off[i + d] \in Nat
    BY <2>1, OffFacts
  <2>5. Off[i] <= Off[i + d]
    OBVIOUS
  <2> QED BY <2>1, <2>2, <2>3, <2>4, <2>5
<1> HIDE DEF T
<1>3. T = Nat
  <2>1. T \in SUBSET Nat
    BY DEF T
  <2> QED BY <1>1, <1>2, <2>1, Induction
<1>4. j - i \in Nat /\ i + (j - i) = j
  OBVIOUS
<1> QED BY <1>3, <1>4 DEF T

\* A position belongs to one frame.
LEMMA ByteAtFrame ==
  ASSUME NEW i \in 1 .. Len(Messages), NEW j \in 1 .. FrameLen(i)
  PROVE  ByteAt(Off[i - 1] + j) = Frame(i)[j]
<1>1. Messages \in Seq(Seq(Byte)) /\ DOMAIN Messages = 1 .. Len(Messages) /\ Len(Messages) \in Nat
  BY FrameAssumption
<1>2. ASSUME NEW a \in 1 .. Len(Messages), NEW x \in 1 .. FrameLen(a),
             NEW b \in 1 .. Len(Messages), NEW y \in 1 .. FrameLen(b),
             a < b, Off[a - 1] + x = Off[b - 1] + y
      PROVE  FALSE
  <2>1. a - 1 \in Nat /\ b - 1 \in Nat /\ a \in Nat /\ (a - 1) + 1 = a /\ a <= b - 1
    BY <1>1, <1>2
  <2>2. Off[a] = Off[a - 1] + FrameLen(a)
    BY <2>1, OffFacts
  <2>3. Off[a] <= Off[b - 1]
    BY <2>1, OffRises
  <2>4. Off[a - 1] \in Nat /\ Off[b - 1] \in Nat
    BY <2>1, OffFacts
  <2>5. FrameLen(a) \in Nat /\ FrameLen(b) \in Nat
    <3>1. a \in Nat /\ b \in Nat
      BY <1>1
    <3> QED BY <3>1, FrameLenType
  <2> QED BY <1>2, <2>2, <2>3, <2>4, <2>5
<1>3. ASSUME NEW a \in 1 .. Len(Messages), NEW x \in 1 .. FrameLen(a), Off[i - 1] + j = Off[a - 1] + x
      PROVE  a = i /\ x = j
  <2>1. ~(a < i) /\ ~(i < a)
    BY <1>2, <1>3
  <2>2. a = i
    BY <1>1, <2>1
  <2>3. Off[i - 1] \in Nat /\ FrameLen(i) \in Nat
    <3>1. i - 1 \in Nat /\ i \in Nat
      BY <1>1
    <3> QED BY <3>1, OffFacts, FrameLenType
  <2> QED BY <1>3, <2>2, <2>3
<1>4. PICK p : p = Off[i - 1] + j
  OBVIOUS
<1> DEFINE P(b) == \E a \in DOMAIN Messages : \E x \in 1 .. FrameLen(a) : p = Off[a - 1] + x /\ b = Frame(a)[x]
<1>5. P(Frame(i)[j])
  BY <1>1, <1>4
<1>6. \A b : P(b) => b = Frame(i)[j]
  BY <1>1, <1>3, <1>4
<1>7. ByteAt(p) = CHOOSE b : P(b)
  BY DEF ByteAt
<1> HIDE DEF P
<1> QED BY <1>4, <1>5, <1>6, <1>7

\* The first bytes of a frame are the header.
LEMMA ByteAtHeader ==
  ASSUME NEW i \in 1 .. Len(Messages), NEW j \in 1 .. HdrLen
  PROVE  ByteAt(Off[i - 1] + j) = Header(Len(Messages[i]))[j]
<1>1. PICK h \in Seq(Byte) : h = Header(Len(Messages[i])) /\ Len(h) = HdrLen
  BY MessageType
<1>2. PICK m \in Seq(Byte) : m = Messages[i]
  BY MessageType
<1>3. HdrLen \in Nat \ {0} /\ FrameLen(i) = HdrLen + Len(m)
  BY <1>2, MessageType, FrameAssumption
<1>4. (h \o m)[j] = h[j] /\ j \in 1 .. FrameLen(i)
  BY <1>1, <1>3
<1> QED BY <1>1, <1>2, <1>4, ByteAtFrame DEF Frame

\* The others are the message.
LEMMA ByteAtBody ==
  ASSUME NEW i \in 1 .. Len(Messages), NEW j \in 1 .. Len(Messages[i])
  PROVE  ByteAt(Off[i - 1] + HdrLen + j) = Messages[i][j]
<1>1. PICK h \in Seq(Byte) : h = Header(Len(Messages[i])) /\ Len(h) = HdrLen
  BY MessageType
<1>2. PICK m \in Seq(Byte) : m = Messages[i]
  BY MessageType
<1>3. HdrLen \in Nat \ {0} /\ FrameLen(i) = HdrLen + Len(m) /\ j \in 1 .. Len(m)
  BY <1>2, MessageType, FrameAssumption
<1>4. (h \o m)[HdrLen + j] = m[j] /\ HdrLen + j \in 1 .. FrameLen(i)
  BY <1>1, <1>3
<1>5. Off[i - 1] \in Nat
  <2>1. i - 1 \in Nat
    BY FrameAssumption
  <2> QED BY <2>1, OffFacts
<1>6. ByteAt(Off[i - 1] + (HdrLen + j)) = (h \o m)[HdrLen + j]
  BY <1>1, <1>2, <1>4, ByteAtFrame DEF Frame
<1>7. Off[i - 1] + (HdrLen + j) = Off[i - 1] + HdrLen + j
  BY <1>3, <1>5
<1> QED BY <1>2, <1>4, <1>6, <1>7


(* The invariant *)

\* s holds the bytes of the frames that follow position p, up to the frame of
\* message t if t is not 0.
Carries(s, p, t) == \A x \in 1 .. Len(s) : t = 0 \/ p + x <= Off[t - 1] => s[x] = ByteAt(p + x)

\* How much of the frames the reader has taken.
Pos == Off[Len(results)] + (IF rpc = "body" THEN HdrLen ELSE 0) + Len(buf)

\* The frame that the reader reads, or reads next, was not cut by its msg_t, and
\* no frame before it was.
Intact == rpc # "gone" /\ (torn = 0 \/ Len(results) + 1 < torn)

\* What tcp_write has still to give to writen after out.
ToWrite == IF wpc = "header" THEN Len(Messages[sent]) ELSE 0

SendInv ==
  /\ wpc = "idle" => out = <<>>
  /\ wpc \in {"header", "body", "frame"} => sent >= 1
  /\ conn = "open" /\ Intact =>
       IF torn = 0
       THEN /\ Carries(out, Pos + Len(stream), 0)
            /\ Pos + Len(stream) + Len(out) + ToWrite = Off[sent]
       ELSE Off[torn - 1] <= Pos + Len(stream)

FlowInv ==
  ~AtEnd /\ Intact =>
    /\ Carries(stream, Pos, torn)
    /\ torn = 0 => Pos + Len(stream) <= Off[sent]
    /\ rpc = "header" => Carries(buf, Off[Len(results)], torn)
    /\ rpc = "body" => /\ Len(results) < sent
                       /\ msglen = Len(Messages[Len(results) + 1])
                       /\ Carries(buf, Off[Len(results)] + HdrLen, torn)

ReadInv ==
  /\ rpc = "idle" => buf = <<>>
  /\ inloop /\ conn # "closed" => buf # <<>>
  /\ rpc = "body" => (use_tempbuf = ~Fits(msglen))
  /\ ended => AtEnd /\ rpc = "idle"

\* What an int of this size can hold.
Ints == {z \in Int : -Modulo <= 2 * z /\ 2 * z < Modulo}

ResultRec == [n : Ints, data : Seq(Byte), tmp : BOOLEAN]

ResultInv ==
  /\ results \in Seq(ResultRec)
  /\ \A i \in DOMAIN results : results[i].tmp \/ Len(results[i].data) <= maxsize

IInv == TypeOK /\ SendInv /\ FlowInv /\ ReadInv /\ ResultInv /\ FramesInOrder

\* How Carries follows sequences that are put together and cut.
LEMMA CarriesEmpty == ASSUME NEW p, NEW t PROVE Carries(<<>>, p, t)
<1> QED BY DEF Carries

\* Less is known when a frame has been cut.
LEMMA CarriesLess ==
  ASSUME NEW s, NEW p, NEW t, NEW u, Carries(s, p, t), t = u \/ t = 0
  PROVE  Carries(s, p, u)
<1> QED BY DEF Carries

\* Nothing is known of bytes behind the cut.
LEMMA CarriesBehind ==
  ASSUME NEW s \in Seq(Byte), NEW p \in Nat, NEW t \in Nat \ {0}, Off[t - 1] <= p
  PROVE  Carries(s, p, t)
<1>1. ASSUME NEW x \in 1 .. Len(s) PROVE ~(t = 0 \/ p + x <= Off[t - 1])
  <2>1. t - 1 \in Nat
    OBVIOUS
  <2>2. Off[t - 1] \in Nat
    BY <2>1, OffFacts
  <2> QED BY <2>2
<1> QED BY <1>1 DEF Carries

\* Two sequences that follow each other carry what follows.
LEMMA CarriesCat ==
  ASSUME NEW s \in Seq(Byte), NEW t \in Seq(Byte), NEW p \in Nat, NEW u, Carries(s, p, u), Carries(t, p + Len(s), u)
  PROVE  Carries(s \o t, p, u)
<1>1. ASSUME NEW x \in 1 .. Len(s \o t), u = 0 \/ p + x <= Off[u - 1] PROVE (s \o t)[x] = ByteAt(p + x)
  <2>1. Len(s \o t) = Len(s) + Len(t) /\ Len(s) \in Nat /\ Len(t) \in Nat
    OBVIOUS
  <2>2. CASE x \in 1 .. Len(s)
    <3>1. (s \o t)[x] = s[x]
      BY <2>2
    <3> QED BY <1>1, <2>2, <3>1 DEF Carries
  <2>3. CASE x > Len(s)
    <3>0. x \in 1 .. Len(s) + Len(t)
      BY <2>1
    <3>1. PICK y \in 1 .. Len(t) : y = x - Len(s)
      <4>1. x - Len(s) \in 1 .. Len(t)
        BY <2>1, <2>3, <3>0
      <4> QED BY <4>1
    <3>2. (s \o t)[x] = t[y]
      BY <2>1, <2>3, <3>1
    <3>3. p + Len(s) + y = p + x
      BY <2>1, <3>1
    <3>4. t[y] = ByteAt(p + Len(s) + y)
      BY <1>1, <3>3 DEF Carries
    <3> QED BY <3>2, <3>3, <3>4
  <2> QED BY <2>1, <2>2, <2>3
<1> QED BY <1>1 DEF Carries

\* Both halves of a sequence that is cut carry what they carried.
LEMMA CarriesCut ==
  ASSUME NEW s \in Seq(Byte), NEW p \in Nat, NEW u, Carries(s, p, u), NEW k \in 0 .. Len(s)
  PROVE  Carries(SubSeq(s, 1, k), p, u) /\ Carries(SubSeq(s, k + 1, Len(s)), p + k, u)
<1>1. SubSeq(s, 1, k) \in Seq(Byte) /\ Len(SubSeq(s, 1, k)) = k
  OBVIOUS
<1>2. SubSeq(s, k + 1, Len(s)) \in Seq(Byte) /\ Len(SubSeq(s, k + 1, Len(s))) = Len(s) - k
  OBVIOUS
<1>3. ASSUME NEW x \in 1 .. k, u = 0 \/ p + x <= Off[u - 1] PROVE SubSeq(s, 1, k)[x] = ByteAt(p + x)
  <2>1. SubSeq(s, 1, k)[x] = s[x] /\ x \in 1 .. Len(s)
    OBVIOUS
  <2> QED BY <1>3, <2>1 DEF Carries
<1>4. ASSUME NEW x \in 1 .. Len(s) - k, u = 0 \/ p + k + x <= Off[u - 1]
      PROVE  SubSeq(s, k + 1, Len(s))[x] = ByteAt(p + k + x)
  <2>1. SubSeq(s, k + 1, Len(s))[x] = s[k + x] /\ k + x \in 1 .. Len(s) /\ p + (k + x) = p + k + x
    OBVIOUS
  <2>2. s[k + x] = ByteAt(p + (k + x))
    BY <1>4, <2>1 DEF Carries
  <2> QED BY <2>1, <2>2
<1> QED BY <1>1, <1>2, <1>3, <1>4 DEF Carries

\* What cutting does to types and lengths.
LEMMA CutTypes ==
  ASSUME NEW s \in Seq(Byte), NEW k \in 0 .. Len(s)
  PROVE  /\ SubSeq(s, 1, k) \in Seq(Byte) /\ Len(SubSeq(s, 1, k)) = k
         /\ SubSeq(s, k + 1, Len(s)) \in Seq(Byte) /\ Len(SubSeq(s, k + 1, Len(s))) = Len(s) - k
<1> QED OBVIOUS

\* A frame before the cut ends before it.
LEMMA BeforeCut ==
  ASSUME NEW i \in 1 .. Len(Messages), NEW t, t = 0 \/ (t \in Nat /\ i < t)
  PROVE  \A j \in 1 .. FrameLen(i) : t = 0 \/ Off[i - 1] + j <= Off[t - 1]
<1>1. CASE t = 0
  BY <1>1
<1>2. CASE t \in Nat /\ i < t
  <2>1. i \in Nat /\ i - 1 \in Nat /\ (i - 1) + 1 = i /\ t - 1 \in Nat /\ i <= t - 1
    BY <1>2, FrameAssumption
  <2>2. Off[i] <= Off[t - 1] /\ Off[i] = Off[i - 1] + FrameLen(i)
    BY <2>1, OffRises, OffFacts
  <2>3. Off[t - 1] \in Nat /\ Off[i - 1] \in Nat /\ FrameLen(i) \in Nat
    BY <2>1, OffFacts, FrameLenType
  <2> QED BY <2>2, <2>3
<1> QED BY <1>1, <1>2

\* A sequence that carries a whole header, or a whole message, is that one.
LEMMA CarriesHeader ==
  ASSUME NEW i \in 1 .. Len(Messages), NEW s \in Seq(Byte), Len(s) = HdrLen,
         NEW t, t = 0 \/ (t \in Nat /\ i < t), Carries(s, Off[i - 1], t)
  PROVE  s = Header(Len(Messages[i])) /\ Value(s) = Len(Messages[i])
<1>1. PICK h \in Seq(Byte) : h = Header(Len(Messages[i])) /\ Len(h) = HdrLen
  BY MessageType
<1>2. ASSUME NEW x \in 1 .. HdrLen PROVE s[x] = h[x]
  <2>1. HdrLen \in Nat /\ FrameLen(i) = HdrLen + Len(Messages[i]) /\ Len(Messages[i]) \in Nat
    BY MessageType, FrameAssumption
  <2>2. x \in 1 .. FrameLen(i)
    BY <2>1
  <2>3. t = 0 \/ Off[i - 1] + x <= Off[t - 1]
    BY <2>2, BeforeCut
  <2>4. s[x] = ByteAt(Off[i - 1] + x)
    BY <2>3 DEF Carries
  <2> QED BY <1>1, <2>4, ByteAtHeader
<1>3. s = h
  BY <1>1, <1>2
<1> QED BY <1>1, <1>3, MessageType, ValueOfHeader

\* Bytes read where the data of a message begins, as many as it has, are the message.
LEMMA CarriesBody ==
  ASSUME NEW i \in 1 .. Len(Messages), NEW s \in Seq(Byte), Len(s) = Len(Messages[i]),
         NEW t, t = 0 \/ (t \in Nat /\ i < t), Carries(s, Off[i - 1] + HdrLen, t)
  PROVE  s = Messages[i]
<1>1. PICK m \in Seq(Byte) : m = Messages[i]
  BY MessageType
<1>2. ASSUME NEW x \in 1 .. Len(m) PROVE s[x] = m[x]
  <2>1. HdrLen \in Nat /\ FrameLen(i) = HdrLen + Len(m) /\ Len(m) \in Nat /\ i - 1 \in Nat
    BY <1>1, MessageType, FrameAssumption
  <2>2. HdrLen + x \in 1 .. FrameLen(i)
    BY <2>1
  <2>3. t = 0 \/ Off[i - 1] + (HdrLen + x) <= Off[t - 1]
    BY <2>2, BeforeCut
  <2>4. Off[i - 1] \in Nat
    BY <2>1, OffFacts
  <2>5. Off[i - 1] + (HdrLen + x) = Off[i - 1] + HdrLen + x
    BY <2>1, <2>4
  <2>6. s[x] = ByteAt(Off[i - 1] + HdrLen + x)
    BY <1>1, <2>3, <2>5 DEF Carries
  <2> QED BY <1>1, <2>6, ByteAtBody
<1> QED BY <1>1, <1>2

\* And the other way round: the sender gives writen what belongs at that place.
LEMMA HeaderCarried ==
  ASSUME NEW i \in 1 .. Len(Messages)
  PROVE  Carries(Header(Len(Messages[i])), Off[i - 1], 0)
<1> QED BY MessageType, ByteAtHeader DEF Carries

\* The data of a message is what its place in the stream carries.
LEMMA BodyCarried ==
  ASSUME NEW i \in 1 .. Len(Messages)
  PROVE  Carries(Messages[i], Off[i - 1] + HdrLen, 0)
<1> QED BY ByteAtBody DEF Carries

\* The types of the state, one by one.
LEMMA SizeFacts ==
  IInv => /\ out \in Seq(Byte) /\ stream \in Seq(Byte) /\ buf \in Seq(Byte)
          /\ Len(out) \in Nat /\ Len(stream) \in Nat /\ Len(buf) \in Nat
          /\ sent \in Nat /\ sent <= Len(Messages) /\ Len(Messages) \in Nat /\ torn \in Nat /\ torn <= sent
          /\ msglen \in Nat /\ msglen < Modulo /\ Modulo \in Nat \ {0}
          /\ results \in Seq(ResultRec) /\ Len(results) \in Nat
          /\ Off[Len(results)] \in Nat /\ Off[sent] \in Nat
          /\ Pos \in Nat /\ Want \in Nat /\ HdrLen \in Nat \ {0}
<1> SUFFICES ASSUME IInv PROVE /\ out \in Seq(Byte) /\ stream \in Seq(Byte) /\ buf \in Seq(Byte)
          /\ Len(out) \in Nat /\ Len(stream) \in Nat /\ Len(buf) \in Nat
          /\ sent \in Nat /\ sent <= Len(Messages) /\ Len(Messages) \in Nat /\ torn \in Nat /\ torn <= sent
          /\ msglen \in Nat /\ msglen < Modulo /\ Modulo \in Nat \ {0}
          /\ results \in Seq(ResultRec) /\ Len(results) \in Nat
          /\ Off[Len(results)] \in Nat /\ Off[sent] \in Nat
          /\ Pos \in Nat /\ Want \in Nat /\ HdrLen \in Nat \ {0}
  OBVIOUS
<1>1. Messages \in Seq(Seq(Byte)) /\ HdrLen \in Nat \ {0}
  BY FrameAssumption
<1>2. Modulo \in Nat \ {0}
  BY <1>1, PowFacts DEF Modulo
<1>3. out \in Seq(Byte) /\ stream \in Seq(Byte) /\ buf \in Seq(Byte) /\ sent \in 0 .. Len(Messages) /\ msglen \in 0 .. Modulo - 1
      /\ torn \in 0 .. sent
  BY DEF IInv, TypeOK
<1>4. Len(out) \in Nat /\ Len(stream) \in Nat /\ Len(buf) \in Nat /\ Len(Messages) \in Nat
  BY <1>1, <1>3
<1>5. sent \in Nat /\ sent <= Len(Messages) /\ torn \in Nat /\ torn <= sent /\ msglen \in Nat /\ msglen < Modulo
  BY <1>2, <1>3, <1>4
<1>6. results \in Seq(ResultRec) /\ Len(results) \in Nat
  BY DEF IInv, ResultInv
<1>7. Off[Len(results)] \in Nat /\ Off[sent] \in Nat
  BY <1>5, <1>6, OffFacts
<1>8. Pos \in Nat
  BY <1>1, <1>4, <1>7 DEF Pos
<1>9. Want \in Nat
  BY <1>1, <1>5 DEF Want
<1> QED BY <1>1, <1>2, <1>3, <1>4, <1>5, <1>6, <1>7, <1>8, <1>9

\* What one read adds to buf: types and lengths.
LEMMA GotTypes ==
  ASSUME IInv, rpc \in {"header", "body"}, NEW k \in 1 .. Len(stream), Asked(k),
         NEW bytes, bytes = buf \o SubSeq(stream, 1, k),
         NEW rest, rest = SubSeq(stream, k + 1, Len(stream))
  PROVE  /\ ~AtEnd /\ k \in 0 .. Len(stream) /\ k \in Nat /\ 1 <= k
         /\ bytes \in Seq(Byte) /\ Len(bytes) = Len(buf) + k /\ Len(bytes) <= Want
         /\ rest \in Seq(Byte) /\ Len(rest) = Len(stream) - k
         /\ Enough(bytes) => Len(bytes) = Want
<1>1. k \in Nat /\ 1 <= k /\ k <= Len(stream) /\ k \in 0 .. Len(stream)
  BY SizeFacts
<1>2. stream # <<>>
  BY <1>1, SizeFacts
<1>3. ~AtEnd
  BY <1>2 DEF AtEnd
<1>5. PICK got : got = SubSeq(stream, 1, k)
  OBVIOUS
<1>6. got \in Seq(Byte) /\ Len(got) = k
  BY <1>1, <1>5, SizeFacts, CutTypes
<1>7. rest \in Seq(Byte) /\ Len(rest) = Len(stream) - k
  BY <1>1, SizeFacts, CutTypes
<1>8. bytes \in Seq(Byte) /\ Len(bytes) = Len(buf) + k
  BY <1>5, <1>6, SizeFacts
<1>9. Len(bytes) <= Want
  BY <1>8 DEF Asked
<1>10. ASSUME Enough(bytes) PROVE Len(bytes) = Want
  <2>0. Want \in Nat /\ Len(bytes) \in Nat
    BY <1>8, SizeFacts
  <2>1. Len(bytes) >= Want
    BY <1>10 DEF Enough
  <2>2. PICK a \in Nat, b \in Nat : a = Len(bytes) /\ b = Want
    BY <2>0, Zenon
  <2>3. a <= b /\ a >= b
    BY <1>9, <2>1, <2>2, Zenon
  <2>4. a = b
    BY <2>3
  <2> QED BY <2>2, <2>4, Zenon
<1> QED BY <1>1, <1>3, <1>7, <1>8, <1>9, <1>10

\* What it is, while no frame was cut.
LEMMA Got ==
  ASSUME IInv, Intact, rpc \in {"header", "body"}, NEW k \in 1 .. Len(stream), Asked(k),
         NEW bytes, bytes = buf \o SubSeq(stream, 1, k),
         NEW rest, rest = SubSeq(stream, k + 1, Len(stream))
  PROVE  /\ Carries(rest, Pos + k, torn)
         /\ rpc = "header" => Carries(bytes, Off[Len(results)], torn)
         /\ rpc = "body" => Carries(bytes, Off[Len(results)] + HdrLen, torn)
         /\ Enough(bytes) => Len(results) < sent /\ Len(results) + 1 \in 1 .. Len(Messages)
         /\ rpc = "header" /\ Enough(bytes) => Value(bytes) = Len(Messages[Len(results) + 1])
         /\ rpc = "body" /\ Enough(bytes) => bytes = Messages[Len(results) + 1]
<1>1. /\ ~AtEnd /\ k \in 0 .. Len(stream) /\ k \in Nat /\ 1 <= k
      /\ bytes \in Seq(Byte) /\ Len(bytes) = Len(buf) + k /\ Len(bytes) <= Want
      /\ rest \in Seq(Byte) /\ Len(rest) = Len(stream) - k
      /\ Enough(bytes) => Len(bytes) = Want
  BY GotTypes
<1>4. Carries(stream, Pos, torn) /\ (torn = 0 => Pos + Len(stream) <= Off[sent])
  BY <1>1 DEF IInv, FlowInv
<1>5. PICK got : got = SubSeq(stream, 1, k)
  OBVIOUS
<1>6. got \in Seq(Byte) /\ Len(got) = k /\ Carries(got, Pos, torn)
  BY <1>1, <1>4, <1>5, SizeFacts, CarriesCut, CutTypes
<1>7. Carries(rest, Pos + k, torn)
  BY <1>1, <1>4, SizeFacts, CarriesCut
<1>10. rpc = "header" => Carries(bytes, Off[Len(results)], torn)
  <2>1. SUFFICES ASSUME rpc = "header" PROVE Carries(bytes, Off[Len(results)], torn)
    OBVIOUS
  <2>2. Carries(buf, Off[Len(results)], torn)
    BY <1>1, <2>1 DEF IInv, FlowInv
  <2>3. Pos = Off[Len(results)] + Len(buf)
    BY <2>1, SizeFacts DEF Pos
  <2> QED BY <1>5, <1>6, <2>2, <2>3, SizeFacts, CarriesCat
<1>11. rpc = "body" => Carries(bytes, Off[Len(results)] + HdrLen, torn)
  <2>1. SUFFICES ASSUME rpc = "body" PROVE Carries(bytes, Off[Len(results)] + HdrLen, torn)
    OBVIOUS
  <2>2. Carries(buf, Off[Len(results)] + HdrLen, torn)
    BY <1>1, <2>1 DEF IInv, FlowInv
  <2>3. PICK q \in Nat : q = Off[Len(results)] + HdrLen
    BY SizeFacts
  <2>4. Pos = q + Len(buf)
    BY <2>1, <2>3, SizeFacts DEF Pos
  <2> QED BY <1>5, <1>6, <2>2, <2>3, <2>4, SizeFacts, CarriesCat
<1>13. ASSUME Enough(bytes)
       PROVE  Len(results) < sent /\ Len(results) + 1 \in 1 .. Len(Messages)
  <2>1. Len(bytes) = Want
    BY <1>1, <1>13
  <2>2. CASE rpc = "body"
    <3>1. Len(results) < sent
      BY <1>1, <2>2 DEF IInv, FlowInv
    <3> QED BY <3>1, SizeFacts
  <2>3. CASE torn # 0
    <3>1. Len(results) < sent
      BY <2>3, SizeFacts DEF Intact
    <3> QED BY <3>1, SizeFacts
  <2>4. CASE rpc = "header" /\ torn = 0
    <3>1. Off[Len(results)] + HdrLen <= Off[sent]
      <4>1. Pos = Off[Len(results)] + Len(buf) /\ Len(buf) + k = HdrLen
        BY <1>1, <2>1, <2>4, SizeFacts DEF Pos, Want
      <4>2. Off[Len(results)] \in Nat /\ Len(buf) \in Nat /\ Len(stream) \in Nat /\ Off[sent] \in Nat /\ HdrLen \in Nat
        BY SizeFacts
      <4>3. Off[Len(results)] + Len(buf) + Len(stream) <= Off[sent]
        BY <1>4, <2>4, <4>1
      <4> QED BY <1>1, <4>1, <4>2, <4>3
    <3>2. Len(results) < sent
      <4>1. ASSUME sent <= Len(results) PROVE FALSE
        <5>1. Off[sent] <= Off[Len(results)]
          BY <4>1, SizeFacts, OffRises
        <5>2. Off[Len(results)] \in Nat /\ Off[sent] \in Nat /\ HdrLen \in Nat \ {0}
          BY SizeFacts
        <5> QED BY <3>1, <5>1, <5>2
      <4> QED BY <4>1, SizeFacts
    <3> QED BY <3>2, SizeFacts
  <2> QED BY <2>2, <2>3, <2>4
<1>14. ASSUME Enough(bytes), NEW i \in 1 .. Len(Messages), i = Len(results) + 1
       PROVE  i - 1 = Len(results) /\ (torn = 0 \/ (torn \in Nat /\ i < torn))
  BY <1>14, SizeFacts DEF Intact
<1>15. ASSUME rpc = "header", Enough(bytes) PROVE Value(bytes) = Len(Messages[Len(results) + 1])
  <2>1. PICK i \in 1 .. Len(Messages) : i = Len(results) + 1
    BY <1>13, <1>15
  <2>2. i - 1 = Len(results) /\ (torn = 0 \/ (torn \in Nat /\ i < torn))
    BY <1>14, <1>15, <2>1
  <2>3. Len(bytes) = HdrLen
    BY <1>1, <1>15 DEF Want
  <2>4. Carries(bytes, Off[i - 1], torn)
    BY <1>10, <1>15, <2>2
  <2> QED BY <1>1, <2>1, <2>2, <2>3, <2>4, CarriesHeader
<1>16. ASSUME rpc = "body", Enough(bytes) PROVE bytes = Messages[Len(results) + 1]
  <2>1. PICK i \in 1 .. Len(Messages) : i = Len(results) + 1
    BY <1>13, <1>16
  <2>2. i - 1 = Len(results) /\ (torn = 0 \/ (torn \in Nat /\ i < torn))
    BY <1>14, <1>16, <2>1
  <2>3. Len(bytes) = Len(Messages[i])
    BY <1>1, <1>16, <2>1 DEF Want, IInv, FlowInv
  <2>4. Carries(bytes, Off[i - 1] + HdrLen, torn)
    BY <1>11, <1>16, <2>2
  <2> QED BY <1>1, <2>1, <2>2, <2>3, <2>4, CarriesBody
<1> QED BY <1>7, <1>10, <1>11, <1>13, <1>15, <1>16

\* What does not move when the reader does not.
LEMMA PosSame == ASSUME UNCHANGED rVars PROVE Pos' = Pos /\ Want' = Want
<1> QED BY DEF rVars, Pos, Want

\* What the reader knows does not change when only the sender moves.
LEMMA ReaderUndisturbed ==
  ASSUME IInv, UNCHANGED rVars, sent' \in Nat, sent <= sent', torn' = torn \/ torn = 0,
         AtEnd => AtEnd', conn = "closed" => conn' = "closed"
  PROVE  ReadInv' /\ ResultInv' /\ FramesInOrder'
<1>1. rpc' = rpc /\ buf' = buf /\ inloop' = inloop /\ msglen' = msglen /\ use_tempbuf' = use_tempbuf
      /\ results' = results /\ ended' = ended
  BY DEF rVars
<1>2. ReadInv'
  <2>1. ReadInv
    BY DEF IInv
  <2>2. inloop' /\ conn' # "closed" => buf' # <<>>
    BY <1>1, <2>1 DEF ReadInv
  <2>3. ended' => AtEnd' /\ rpc' = "idle"
    BY <1>1, <2>1 DEF ReadInv
  <2>4. rpc' = "idle" => buf' = <<>>
    BY <1>1, <2>1 DEF ReadInv
  <2>5. rpc' = "body" => (use_tempbuf' = ~Fits(msglen'))
    BY <1>1, <2>1 DEF ReadInv
  <2> QED BY <2>2, <2>3, <2>4, <2>5 DEF ReadInv, Fits
<1>3. ResultInv'
  BY <1>1 DEF IInv, ResultInv
<1>4. FramesInOrder'
  <2>1. SUFFICES ASSUME NEW i \in DOMAIN results, torn' = 0 \/ i < torn'
                 PROVE  \/ i <= sent' /\ IsMessage(results[i], Messages[i])
                        \/ AtEnd' /\ results[i].n \in {0, -1} /\ results[i].data = <<>>
    BY <1>1 DEF FramesInOrder, IsMessage
  <2>2. \/ i <= sent /\ IsMessage(results[i], Messages[i])
        \/ AtEnd /\ results[i].n \in {0, -1} /\ results[i].data = <<>>
    BY <2>1 DEF IInv, FramesInOrder
  <2>3. i \in Nat /\ sent \in Nat
    BY <2>1, SizeFacts
  <2> QED BY <2>2, <2>3
<1> QED BY <1>2, <1>3, <1>4

\* TypeOK after a step of the sender, from what the step changes.
LEMMA SenderTypes ==
  ASSUME IInv, UNCHANGED <<faults, rVars>>, wpc' \in {"idle", "header", "body", "frame", "gone"},
         out' \in Seq(Byte), stream' \in Seq(Byte), sent' \in 0 .. Len(Messages), torn' \in 0 .. sent',
         conn' \in {"open", "closed", "reset"}
  PROVE  TypeOK'
<1>1. rpc' = rpc /\ buf' = buf /\ inloop' = inloop /\ msglen' = msglen /\ use_tempbuf' = use_tempbuf
      /\ results' = results /\ ended' = ended /\ faults' = faults /\ Want' = Want
  BY PosSame DEF rVars
<1>2. TypeOK
  BY DEF IInv
<1>3. {out', stream', buf'} \subseteq Seq(Byte)
  BY <1>1, SizeFacts
<1>4. {faults', inloop', use_tempbuf', ended'} \subseteq BOOLEAN
  BY <1>1, <1>2 DEF TypeOK
<1>5. rpc' \in {"idle", "header", "body", "gone"} /\ msglen' \in 0 .. Modulo - 1
      /\ (rpc' \in {"header", "body"} => Len(buf') <= Want')
  BY <1>1, <1>2 DEF TypeOK
<1>6. \A i \in DOMAIN results' :
        /\ results'[i].n \in Int /\ -Modulo <= 2 * results'[i].n /\ 2 * results'[i].n < Modulo
        /\ results'[i].data \in Seq(Byte)
  BY <1>1, <1>2 DEF TypeOK
<1> QED BY <1>3, <1>4, <1>5, <1>6 DEF TypeOK

\* FlowInv after a step, from what it needs.
LEMMA FlowRule ==
  ASSUME ~AtEnd' /\ Intact' =>
           /\ Carries(stream', Pos', torn')
           /\ torn' = 0 => Pos' + Len(stream') <= Off[sent']
           /\ rpc' = "header" => Carries(buf', Off[Len(results')], torn')
           /\ rpc' = "body" => /\ Len(results') < sent'
                               /\ msglen' = Len(Messages[Len(results') + 1])
                               /\ Carries(buf', Off[Len(results')] + HdrLen, torn')
  PROVE  FlowInv'
<1> QED BY DEF FlowInv, Carries

\* FlowInv after a step of the sender that writes nothing.
LEMMA SenderFlow ==
  ASSUME IInv, UNCHANGED rVars, UNCHANGED stream, sent' \in Nat, sent <= sent', torn' = torn \/ torn = 0,
         AtEnd => AtEnd'
  PROVE  FlowInv'
<1>1. SUFFICES ASSUME ~AtEnd', Intact'
               PROVE  /\ Carries(stream', Pos', torn')
                      /\ torn' = 0 => Pos' + Len(stream') <= Off[sent']
                      /\ rpc' = "header" => Carries(buf', Off[Len(results')], torn')
                      /\ rpc' = "body" => /\ Len(results') < sent'
                                          /\ msglen' = Len(Messages[Len(results') + 1])
                                          /\ Carries(buf', Off[Len(results')] + HdrLen, torn')
  BY FlowRule
<1>2. ~AtEnd
  BY <1>1
<1>3. rpc' = rpc /\ buf' = buf /\ msglen' = msglen /\ results' = results /\ Pos' = Pos /\ stream' = stream
  BY PosSame DEF rVars
<1>0. Intact
  BY <1>1, <1>3 DEF Intact
<1>4. Carries(stream, Pos, torn') /\ (torn = 0 => Pos + Len(stream) <= Off[sent])
  <2>1. Carries(stream, Pos, torn) /\ (torn = 0 => Pos + Len(stream) <= Off[sent])
    BY <1>0, <1>2 DEF IInv, FlowInv
  <2> QED BY <2>1, CarriesLess
<1>5. Off[sent] <= Off[sent'] /\ Off[sent'] \in Nat
  BY SizeFacts, OffRises, OffFacts
<1>6. ASSUME torn' = 0 PROVE Pos + Len(stream) <= Off[sent']
  <2>0. torn = 0
    BY <1>6
  <2>1. PICK a \in Nat, b \in Nat, c \in Nat : a = Pos + Len(stream) /\ b = Off[sent] /\ c = Off[sent']
    <3>1. Pos + Len(stream) \in Nat
      BY SizeFacts
    <3>2. Off[sent] \in Nat
      BY SizeFacts
    <3> QED BY <1>5, <3>1, <3>2, Zenon
  <2>2. a <= b /\ b <= c
    BY <1>4, <1>5, <2>0, <2>1, Zenon
  <2>3. a <= c
    BY <2>2
  <2> QED BY <2>1, <2>3, Zenon
<1>7. ASSUME rpc = "header" PROVE Carries(buf, Off[Len(results)], torn')
  <2>1. Carries(buf, Off[Len(results)], torn)
    BY <1>0, <1>2, <1>7 DEF IInv, FlowInv
  <2> QED BY <2>1, CarriesLess
<1>8. ASSUME rpc = "body"
      PROVE  Len(results) < sent' /\ msglen = Len(Messages[Len(results) + 1]) /\ Carries(buf, Off[Len(results)] + HdrLen, torn')
  <2>1. Len(results) < sent /\ msglen = Len(Messages[Len(results) + 1]) /\ Carries(buf, Off[Len(results)] + HdrLen, torn)
    BY <1>0, <1>2, <1>8 DEF IInv, FlowInv
  <2>2. Len(results) < sent'
    BY <2>1, SizeFacts
  <2>3. Carries(buf, Off[Len(results)] + HdrLen, torn')
    BY <2>1, CarriesLess
  <2> QED BY <2>1, <2>2, <2>3
<1> QED BY <1>3, <1>4, <1>6, <1>7, <1>8

\* What is left to write follows what is on its way.
LEMMA SendFacts ==
  ASSUME IInv, conn = "open", Intact, torn = 0
  PROVE  Carries(out, Pos + Len(stream), 0) /\ Pos + Len(stream) + Len(out) + ToWrite = Off[sent]
<1> QED BY DEF IInv, SendInv

\* After a cut frame, what is left to write is behind it.
LEMMA CutFacts ==
  ASSUME IInv, conn = "open", Intact, torn # 0
  PROVE  Off[torn - 1] <= Pos + Len(stream)
<1> QED BY DEF IInv, SendInv

\* SendInv after a step of the sender, from what it needs.
LEMMA SendRule ==
  ASSUME wpc' = "idle" => out' = <<>>,
         wpc' \in {"header", "body", "frame"} => sent' >= 1,
         conn' = "open" /\ Intact' /\ torn' = 0
           => Carries(out', Pos' + Len(stream'), 0) /\ Pos' + Len(stream') + Len(out') + ToWrite' = Off[sent'],
         conn' = "open" /\ Intact' /\ torn' # 0 => Off[torn' - 1] <= Pos' + Len(stream')
  PROVE  SendInv'
<1> QED BY DEF SendInv, Carries

\* The next message, when the sender has nothing to write.
LEMMA NextFrame ==
  ASSUME IInv, wpc = "idle", sent < Len(Messages)
  PROVE  /\ sent + 1 \in 1 .. Len(Messages) /\ (sent + 1) - 1 = sent
         /\ Off[sent + 1] = Off[sent] + HdrLen + Len(Messages[sent + 1])
         /\ Len(Messages[sent + 1]) \in Nat
         /\ conn = "open" /\ Intact /\ torn = 0 => Pos + Len(stream) = Off[sent]
<1>1. sent + 1 \in 1 .. Len(Messages) /\ (sent + 1) - 1 = sent
  BY SizeFacts
<1>2. FrameLen(sent + 1) = HdrLen + Len(Messages[sent + 1]) /\ Messages[sent + 1] \in Seq(Byte)
  BY <1>1, MessageType
<1>3. Off[sent + 1] = Off[sent] + FrameLen(sent + 1)
  BY SizeFacts, OffFacts
<1>4. Len(Messages[sent + 1]) \in Nat
  BY <1>2
<1>5. Off[sent + 1] = Off[sent] + HdrLen + Len(Messages[sent + 1])
  BY <1>2, <1>3, <1>4, SizeFacts
<1>6. ASSUME conn = "open", Intact, torn = 0 PROVE Pos + Len(stream) = Off[sent]
  <2>1. Pos + Len(stream) + Len(out) + ToWrite = Off[sent]
    BY <1>6, SendFacts
  <2>2. Len(out) = 0 /\ ToWrite = 0
    BY DEF IInv, SendInv, ToWrite
  <2>3. Pos \in Nat /\ Len(stream) \in Nat
    BY SizeFacts
  <2> QED BY <2>1, <2>2, <2>3
<1> QED BY <1>1, <1>4, <1>5, <1>6

\* Nothing of it changes with what the reader keeps and torn.
LEMMA IntactSame ==
  ASSUME UNCHANGED rVars, torn' = torn \/ torn = 0, Intact'
  PROVE  Intact
<1> QED BY DEF rVars, Intact

\* tcp_write gives the header of the next message to writen.
LEMMA WriteHeaderStep == IInv /\ tcp_write => IInv'
<1> SUFFICES ASSUME IInv, tcp_write PROVE IInv'
  OBVIOUS
<1> DEFINE i == sent + 1
<1>1. wpc = "idle" /\ sent < Len(Messages) /\ sent' = i /\ out' = Header(Len(Messages[i])) /\ wpc' = "header"
      /\ faults' = faults /\ torn' = torn /\ stream' = stream /\ conn' = conn /\ UNCHANGED rVars
  BY DEF tcp_write
<1>2. /\ i \in 1 .. Len(Messages) /\ i - 1 = sent
      /\ Off[i] = Off[sent] + HdrLen + Len(Messages[i]) /\ Len(Messages[i]) \in Nat
      /\ conn = "open" /\ Intact /\ torn = 0 => Pos + Len(stream) = Off[sent]
  BY <1>1, NextFrame
<1> HIDE DEF i
<1>3. out' \in Seq(Byte) /\ Len(out') = HdrLen /\ Carries(out', Off[sent], 0)
  BY <1>1, <1>2, MessageType, HeaderCarried
<1>4. i \in Nat /\ sent <= i /\ i >= 1 /\ i \in 0 .. Len(Messages) /\ torn \in 0 .. i
  BY <1>2, SizeFacts
<1>5. TypeOK'
  <2>1. conn \in {"open", "closed", "reset"}
    BY DEF IInv, TypeOK
  <2> QED BY <1>1, <1>3, <1>4, <2>1, SizeFacts, SenderTypes
<1>6. AtEnd' = AtEnd
  BY <1>1 DEF AtEnd
<1>7. FlowInv'
  BY <1>1, <1>4, <1>6, SenderFlow
<1>8. ReadInv' /\ ResultInv' /\ FramesInOrder'
  BY <1>1, <1>4, <1>6, ReaderUndisturbed
<1>9. SendInv'
  <2>1. ASSUME conn' = "open", Intact', torn' = 0
        PROVE  Carries(out', Pos' + Len(stream'), 0) /\ Pos' + Len(stream') + Len(out') + ToWrite' = Off[sent']
    <3>0. Intact
      BY <1>1, <2>1, IntactSame
    <3>1. Pos' = Pos /\ Pos + Len(stream) = Off[sent]
      BY <1>1, <1>2, <2>1, <3>0, PosSame
    <3>2. ToWrite' = Len(Messages[i])
      BY <1>1 DEF ToWrite
    <3>3. Off[sent] + HdrLen + ToWrite' = Off[sent']
      BY <1>1, <1>2, <3>2
    <3> QED BY <1>1, <1>3, <3>1, <3>3
  <2>2. ASSUME conn' = "open", Intact', torn' # 0 PROVE Off[torn' - 1] <= Pos' + Len(stream')
    <3>0. Intact
      BY <1>1, <2>2, IntactSame
    <3> QED BY <1>1, <2>2, <3>0, PosSame, CutFacts
  <2> QED BY <1>1, <1>4, <2>1, <2>2, SendRule
<1> QED BY <1>5, <1>7, <1>8, <1>9 DEF IInv

\* send_msg gives writen the whole frame, or the beginning of one whose length
\* wraps around.
LEMMA SendMsgStep == IInv /\ send_msg => IInv'
<1> SUFFICES ASSUME IInv, send_msg PROVE IInv'
  OBVIOUS
<1> DEFINE i == sent + 1
<1> DEFINE m == Messages[i]
<1>1. wpc = "idle" /\ sent < Len(Messages) /\ sent' = i /\ out' = SubSeq(Header(Len(m)) \o m, 1, MsgLen(Len(m))) /\ wpc' = "frame"
      /\ faults' = faults /\ stream' = stream /\ conn' = conn /\ UNCHANGED rVars
      /\ torn' = IF torn = 0 /\ Len(m) + HdrLen >= Modulo THEN i ELSE torn
  BY DEF send_msg
<1>2. /\ i \in 1 .. Len(Messages) /\ i - 1 = sent
      /\ Off[i] = Off[sent] + HdrLen + Len(m) /\ Len(m) \in Nat
      /\ conn = "open" /\ Intact /\ torn = 0 => Pos + Len(stream) = Off[sent]
  BY <1>1, NextFrame
<1> HIDE DEF i
<1>3. PICK h \in Seq(Byte) : h = Header(Len(m)) /\ Len(h) = HdrLen
  BY <1>2, MessageType
<1>4. PICK b \in Seq(Byte) : b = m
  BY <1>2, MessageType
<1>5. h \o b \in Seq(Byte) /\ Len(h \o b) = HdrLen + Len(b) /\ Len(b) \in Nat
  BY <1>3
<1>6. out' = SubSeq(h \o b, 1, MsgLen(Len(b)))
  BY <1>1, <1>3, <1>4
<1>7. out' \in Seq(Byte)
  <2>1. PICK x \in Nat : x = Len(b) + HdrLen
    BY <1>5, SizeFacts
  <2>2. x % Modulo \in Nat /\ x % Modulo <= x
    <3>1. PICK d \in Nat \ {0} : d = Modulo
      BY SizeFacts
    <3>2. PICK q \in Nat, r \in Nat : q = x \div d /\ r = x % d
      OBVIOUS
    <3>3. x = d * q + r
      BY <3>2
    <3>4. d * q \in Nat
      OBVIOUS
    <3> QED BY <3>1, <3>2, <3>3, <3>4
  <2>3. MsgLen(Len(b)) \in 0 .. Len(h \o b)
    BY <1>5, <2>1, <2>2, SizeFacts DEF MsgLen
  <2> QED BY <1>5, <1>6, <2>3, CutTypes
<1>8. ASSUME torn' = 0 PROVE torn = 0 /\ Len(out') = HdrLen + Len(m) /\ Carries(out', Off[sent], 0)
  <2>0. torn = 0
    BY <1>1, <1>2, <1>8
  <2>1. MsgLen(Len(b)) = HdrLen + Len(b)
    <3>1. PICK x \in Nat : x = Len(b) + HdrLen
      BY <1>5, SizeFacts
    <3>2. x < Modulo /\ Modulo \in Nat \ {0}
      <4>1. ~(Len(m) + HdrLen >= Modulo)
        BY <1>1, <1>2, <1>8, <2>0
      <4>2. ~(x >= Modulo)
        BY <1>4, <3>1, <4>1
      <4> QED BY <4>2, SizeFacts
    <3>3. x % Modulo = x
      BY <3>2
    <3>4. HdrLen + Len(b) = x
      BY <1>5, <3>1, SizeFacts
    <3> QED BY <3>1, <3>3, <3>4 DEF MsgLen
  <2>2. out' = h \o b
    <3>1. SubSeq(h \o b, 1, Len(h \o b)) = h \o b
      BY <1>5
    <3> QED BY <1>5, <1>6, <2>1, <3>1
  <2>3. Carries(h, Off[sent], 0) /\ Carries(b, Off[sent] + Len(h), 0)
    BY <1>2, <1>3, <1>4, HeaderCarried, BodyCarried
  <2>4. Carries(h \o b, Off[sent], 0)
    BY <2>3, SizeFacts, CarriesCat
  <2> QED BY <1>4, <1>5, <2>0, <2>2, <2>4
<1> HIDE DEF m
<1>9. i \in Nat /\ sent <= i /\ i >= 1 /\ i \in 0 .. Len(Messages) /\ torn' \in 0 .. i /\ (torn' = torn \/ torn = 0)
  <2>1. i \in Nat /\ sent <= i /\ i >= 1 /\ i \in 0 .. Len(Messages)
    BY <1>2, SizeFacts
  <2>2. torn' = i \/ torn' = torn
    BY <1>1
  <2>3. torn' \in 0 .. i
    BY <2>1, <2>2, SizeFacts
  <2> QED BY <1>1, <2>1, <2>3
<1>10. TypeOK'
  <2>1. conn \in {"open", "closed", "reset"}
    BY DEF IInv, TypeOK
  <2> QED BY <1>1, <1>7, <1>9, <2>1, SizeFacts, SenderTypes
<1>11. AtEnd' = AtEnd
  BY <1>1 DEF AtEnd
<1>12. FlowInv'
  BY <1>1, <1>9, <1>11, SenderFlow
<1>13. ReadInv' /\ ResultInv' /\ FramesInOrder'
  BY <1>1, <1>9, <1>11, ReaderUndisturbed
<1>14. SendInv'
  <2>1. ASSUME conn' = "open", Intact', torn' = 0
        PROVE  Carries(out', Pos' + Len(stream'), 0) /\ Pos' + Len(stream') + Len(out') + ToWrite' = Off[sent']
    <3>0. Intact
      BY <1>1, <1>9, <2>1, IntactSame
    <3>1. Pos' = Pos /\ Pos + Len(stream) = Off[sent]
      BY <1>1, <1>2, <1>8, <2>1, <3>0, PosSame
    <3>2. ToWrite' = 0
      BY <1>1 DEF ToWrite
    <3>3. Off[sent] + (HdrLen + Len(m)) + ToWrite' = Off[sent']
      BY <1>1, <1>2, <3>2, SizeFacts
    <3> QED BY <1>1, <1>8, <2>1, <3>1, <3>3
  <2>2. ASSUME conn' = "open", Intact', torn' # 0 PROVE Off[torn' - 1] <= Pos' + Len(stream')
    <3>0. Intact
      BY <1>1, <1>9, <2>2, IntactSame
    <3>1. CASE torn # 0
      <4>1. torn' = torn
        BY <1>9, <3>1
      <4> QED BY <1>1, <2>2, <3>0, <3>1, <4>1, PosSame, CutFacts
    <3>2. CASE torn = 0
      <4>1. torn' - 1 = sent
        BY <1>1, <1>2, <2>2, <3>2
      <4>2. Pos' + Len(stream') = Off[sent]
        BY <1>1, <1>2, <2>2, <3>0, <3>2, PosSame
      <4> QED BY <4>1, <4>2, SizeFacts
    <3> QED BY <3>1, <3>2
  <2> QED BY <1>1, <1>9, <2>1, <2>2, SendRule
<1> QED BY <1>10, <1>12, <1>13, <1>14 DEF IInv

\* write moves bytes from out to stream; the line of bytes stays the same.
LEMMA WriteStep == IInv /\ Write => IInv'
<1> SUFFICES ASSUME IInv, Write PROVE IInv'
  OBVIOUS
<1>1. wpc \in {"header", "body", "frame"} /\ conn = "open" /\ faults' = faults /\ wpc' = wpc /\ sent' = sent
      /\ torn' = torn /\ conn' = conn /\ UNCHANGED rVars
  BY DEF Write
<1>2. PICK k \in 1 .. Len(out) : stream' = stream \o SubSeq(out, 1, k) /\ out' = SubSeq(out, k + 1, Len(out))
  BY DEF Write
<1>3. PICK p \in Nat : p = Pos + Len(stream)
  BY SizeFacts
<1>5. k \in Nat /\ k >= 1 /\ k <= Len(out) /\ k \in 0 .. Len(out)
  BY SizeFacts
<1>6. PICK w : w = SubSeq(out, 1, k)
  OBVIOUS
<1>7. w \in Seq(Byte) /\ Len(w) = k /\ out' \in Seq(Byte) /\ Len(out') = Len(out) - k
  BY <1>2, <1>5, <1>6, SizeFacts, CutTypes
<1>8. stream' \in Seq(Byte) /\ Len(stream') = Len(stream) + k
  BY <1>2, <1>6, <1>7, SizeFacts
<1>9. ToWrite' = ToWrite /\ ToWrite \in Nat
  <2>1. ToWrite' = ToWrite
    BY <1>1 DEF ToWrite
  <2>2. sent \in 1 .. Len(Messages)
    BY <1>1, SizeFacts DEF IInv, SendInv
  <2>3. Len(Messages[sent]) \in Nat
    BY <2>2, MessageType
  <2> QED BY <2>1, <2>3 DEF ToWrite
<1>10. TypeOK'
  <2>1. sent \in 0 .. Len(Messages) /\ torn \in 0 .. sent
    BY SizeFacts
  <2> QED BY <1>1, <1>7, <1>8, <2>1, SenderTypes
<1>11. ~AtEnd /\ ~AtEnd'
  BY <1>1 DEF AtEnd
<1>12. ReadInv' /\ ResultInv' /\ FramesInOrder'
  BY <1>1, <1>11, SizeFacts, ReaderUndisturbed
<1>13. PICK len \in Nat, q \in Nat, o \in Nat : len = Len(stream) /\ q = Pos /\ o = Len(out)
  BY SizeFacts
<1>4. ASSUME Intact', torn = 0
      PROVE  Carries(w, p, 0) /\ Carries(out', p + k, 0) /\ p + Len(out) + ToWrite = Off[sent]
  <2>1. Intact
    BY <1>1, <1>4, IntactSame
  <2>2. Carries(out, p, 0) /\ p + Len(out) + ToWrite = Off[sent]
    BY <1>1, <1>3, <1>4, <2>1, SendFacts
  <2> QED BY <1>2, <1>5, <1>6, <2>2, SizeFacts, CarriesCut
<1>14. SendInv'
  <2>0. ASSUME conn' = "open", Intact', torn' = 0
        PROVE  Carries(out', Pos' + Len(stream'), 0) /\ Pos' + Len(stream') + Len(out') + ToWrite' = Off[sent']
    <3>0. Carries(out', p + k, 0) /\ p + Len(out) + ToWrite = Off[sent]
      BY <1>1, <1>4, <2>0
    <3>1. q + (len + k) = p + k
      BY <1>3, <1>5, <1>13
    <3>2. Pos' + Len(stream') = p + k
      BY <1>1, <1>8, <1>13, <3>1, PosSame
    <3>3. Carries(out', Pos' + Len(stream'), 0)
      BY <3>0, <3>2
    <3>4. (p + k) + (o - k) + ToWrite = p + o + ToWrite
      BY <1>3, <1>5, <1>9, <1>13
    <3>5. Pos' + Len(stream') + Len(out') + ToWrite' = Off[sent']
      BY <1>1, <1>7, <1>9, <1>13, <3>0, <3>2, <3>4
    <3> QED BY <3>3, <3>5
  <2>2. ASSUME conn' = "open", Intact', torn' # 0 PROVE Off[torn' - 1] <= Pos' + Len(stream')
    <3>0. Intact
      BY <1>1, <2>2, IntactSame
    <3>1. Off[torn - 1] <= q + len
      BY <1>1, <1>13, <2>2, <3>0, CutFacts
    <3>2. torn - 1 \in Nat
      BY <1>1, <2>2, SizeFacts
    <3>3. PICK z \in Nat : z = Off[torn - 1]
      BY <3>2, OffFacts
    <3>4. z <= q + (len + k)
      BY <1>5, <3>1, <3>3
    <3> QED BY <1>1, <1>8, <1>13, <3>3, <3>4, PosSame
  <2>3. wpc' # "idle" /\ sent' >= 1
    BY <1>1 DEF IInv, SendInv
  <2> QED BY <2>0, <2>2, <2>3, SendRule
<1>15. FlowInv'
  <2>0. SUFFICES ASSUME Intact'
                 PROVE  /\ Carries(stream', Pos', torn')
                        /\ torn' = 0 => Pos' + Len(stream') <= Off[sent']
                        /\ rpc' = "header" => Carries(buf', Off[Len(results')], torn')
                        /\ rpc' = "body" => /\ Len(results') < sent'
                                            /\ msglen' = Len(Messages[Len(results') + 1])
                                            /\ Carries(buf', Off[Len(results')] + HdrLen, torn')
    BY FlowRule
  <2>1. Intact
    BY <1>1, <2>0, IntactSame
  <2>2. Carries(stream, Pos, torn)
    BY <1>11, <2>1 DEF IInv, FlowInv
  <2>3. Carries(w, p, torn)
    <3>1. CASE torn = 0
      BY <1>4, <2>0, <3>1
    <3>2. CASE torn # 0
      BY <1>1, <1>3, <1>7, <2>1, <3>2, SizeFacts, CutFacts, CarriesBehind
    <3> QED BY <3>1, <3>2
  <2>4. Carries(stream \o w, Pos, torn)
    BY <1>3, <1>7, <2>2, <2>3, SizeFacts, CarriesCat
  <2>5. Carries(stream', Pos', torn')
    BY <1>1, <1>2, <1>6, <2>4, PosSame
  <2>6. ASSUME torn' = 0 PROVE Pos' + Len(stream') <= Off[sent']
    <3>0. p + o + ToWrite = Off[sent]
      BY <1>1, <1>4, <1>13, <2>0, <2>6
    <3>1. q + (len + k) <= p + o + ToWrite
      BY <1>3, <1>5, <1>9, <1>13
    <3> QED BY <1>1, <1>8, <1>13, <3>0, <3>1, PosSame
  <2>7. rpc' = rpc /\ buf' = buf /\ msglen' = msglen /\ results' = results
    BY <1>1 DEF rVars
  <2>8. rpc' = "header" => Carries(buf', Off[Len(results')], torn')
    BY <1>1, <1>11, <2>1, <2>7 DEF IInv, FlowInv
  <2>9. rpc' = "body" => /\ Len(results') < sent'
                         /\ msglen' = Len(Messages[Len(results') + 1])
                         /\ Carries(buf', Off[Len(results')] + HdrLen, torn')
    BY <1>1, <1>11, <2>1, <2>7 DEF IInv, FlowInv
  <2> QED BY <2>5, <2>6, <2>8, <2>9
<1> QED BY <1>10, <1>12, <1>14, <1>15 DEF IInv

\* After the header, out is the message, which follows it.
LEMMA WrittenStep == IInv /\ Written => IInv'
<1> SUFFICES ASSUME IInv, Written PROVE IInv'
  OBVIOUS
<1>1. out = <<>> /\ faults' = faults /\ sent' = sent /\ torn' = torn /\ stream' = stream /\ conn' = conn /\ UNCHANGED rVars
  BY DEF Written
<1>2. \/ wpc = "header" /\ wpc' = "body" /\ out' = Messages[sent]
      \/ wpc \in {"body", "frame"} /\ wpc' = "idle" /\ out' = out
  BY DEF Written
<1>3. sent \in 1 .. Len(Messages)
  BY <1>2, SizeFacts DEF IInv, SendInv
<1>4. Messages[sent] \in Seq(Byte) /\ out' \in Seq(Byte)
  BY <1>2, <1>3, MessageType, SizeFacts
<1>5. TypeOK'
  <2>1. conn \in {"open", "closed", "reset"} /\ sent \in 0 .. Len(Messages) /\ torn \in 0 .. sent
    BY DEF IInv, TypeOK
  <2> QED BY <1>1, <1>2, <1>4, <2>1, SizeFacts, SenderTypes
<1>6. AtEnd' = AtEnd
  BY <1>1 DEF AtEnd
<1>7. FlowInv'
  BY <1>1, <1>6, SizeFacts, SenderFlow
<1>8. ReadInv' /\ ResultInv' /\ FramesInOrder'
  BY <1>1, <1>6, SizeFacts, ReaderUndisturbed
<1>9. SendInv'
  <2>1. ASSUME conn' = "open", Intact', torn' = 0
        PROVE  Carries(out', Pos' + Len(stream'), 0) /\ Pos' + Len(stream') + Len(out') + ToWrite' = Off[sent']
    <3>0. Intact
      BY <1>1, <2>1, IntactSame
    <3>1. PICK p \in Nat : p = Pos + Len(stream)
      BY SizeFacts
    <3>2. Len(out) = 0 /\ p + Len(out) + ToWrite = Off[sent]
      BY <1>1, <2>1, <3>0, <3>1, SendFacts
    <3>3. Pos' + Len(stream') = p
      BY <1>1, <3>1, PosSame
    <3>4. CASE wpc = "header"
      <4>1. wpc' = "body" /\ out' = Messages[sent]
        BY <1>2, <3>4
      <4>2. PICK o \in Nat : o = Len(Messages[sent])
        BY <1>4
      <4>3. ToWrite = o /\ ToWrite' = 0
        BY <3>4, <4>1, <4>2 DEF ToWrite
      <4>4. p + o = Off[sent]
        BY <3>2, <4>2, <4>3
      <4>5. sent - 1 \in Nat /\ (sent - 1) + 1 = sent
        BY <1>3, SizeFacts
      <4>6. Off[sent] = Off[sent - 1] + FrameLen(sent) /\ Off[sent - 1] \in Nat
        BY <4>5, OffFacts
      <4>7. FrameLen(sent) = HdrLen + o
        BY <1>3, <4>2, MessageType
      <4>8. p = Off[sent - 1] + HdrLen
        <5>1. PICK x \in Nat, y \in Nat, h \in Nat : x = Off[sent - 1] /\ y = Off[sent] /\ h = HdrLen
          BY <4>6, SizeFacts
        <5>2. p + o = y /\ y = x + (h + o)
          BY <4>4, <4>6, <4>7, <5>1
        <5>3. p = x + h
          BY <5>2
        <5> QED BY <5>1, <5>3
      <4>9. Carries(out', p, 0)
        BY <1>3, <4>1, <4>8, BodyCarried
      <4>10. p + Len(out') + ToWrite' = Off[sent']
        BY <1>1, <4>1, <4>2, <4>3, <4>4
      <4> QED BY <3>3, <4>9, <4>10
    <3>5. CASE wpc # "header"
      <4>1. wpc' = "idle" /\ out' = <<>>
        BY <1>1, <1>2, <3>5
      <4>2. ToWrite = 0 /\ ToWrite' = 0
        BY <3>5, <4>1 DEF ToWrite
      <4>3. p = Off[sent]
        BY <3>2, <4>2
      <4>4. Carries(out', p, 0)
        BY <4>1, CarriesEmpty
      <4>5. p + Len(out') + ToWrite' = Off[sent']
        BY <1>1, <3>1, <4>1, <4>2, <4>3
      <4> QED BY <3>3, <4>4, <4>5
    <3> QED BY <3>4, <3>5
  <2>2. wpc' = "idle" => out' = <<>>
    BY <1>1, <1>2
  <2>3. sent' >= 1
    BY <1>1, <1>3, SizeFacts
  <2>4. ASSUME conn' = "open", Intact', torn' # 0 PROVE Off[torn' - 1] <= Pos' + Len(stream')
    <3>0. Intact
      BY <1>1, <2>4, IntactSame
    <3> QED BY <1>1, <2>4, <3>0, PosSame, CutFacts
  <2> QED BY <2>1, <2>2, <2>3, <2>4, SendRule
<1> QED BY <1>5, <1>7, <1>8, <1>9 DEF IInv

\* A sender on a broken connection reaches nobody.
LEMMA WriteFailsStep == IInv /\ WriteFails => IInv'
<1> SUFFICES ASSUME IInv, WriteFails PROVE IInv'
  OBVIOUS
<1>1. conn # "open" /\ faults' = faults /\ sent' = sent /\ torn' = torn /\ stream' = stream /\ conn' = conn /\ UNCHANGED rVars
      /\ wpc \in {"header", "body", "frame"}
  BY DEF WriteFails
<1>2. \/ wpc = "header" /\ wpc' = "body" /\ out' = Messages[sent]
      \/ wpc # "header" /\ wpc' = "gone" /\ out' = <<>>
  BY DEF WriteFails
<1>3. sent \in 1 .. Len(Messages)
  BY <1>1, SizeFacts DEF IInv, SendInv
<1>4. out' \in Seq(Byte)
  <2>1. Messages[sent] \in Seq(Byte)
    BY <1>3, MessageType
  <2>2. <<>> \in Seq(Byte)
    OBVIOUS
  <2> QED BY <1>2, <2>1, <2>2, Zenon
<1>5. TypeOK'
  <2>1. conn \in {"open", "closed", "reset"} /\ sent \in 0 .. Len(Messages) /\ torn \in 0 .. sent
    BY DEF IInv, TypeOK
  <2> QED BY <1>1, <1>2, <1>4, <2>1, SizeFacts, SenderTypes
<1>6. AtEnd' = AtEnd
  BY <1>1 DEF AtEnd
<1>7. FlowInv'
  BY <1>1, <1>6, SizeFacts, SenderFlow
<1>8. ReadInv' /\ ResultInv' /\ FramesInOrder'
  BY <1>1, <1>6, SizeFacts, ReaderUndisturbed
<1>9. SendInv'
  <2>1. wpc' # "idle" /\ conn' # "open" /\ sent' >= 1
    BY <1>1, <1>2, <1>3, SizeFacts
  <2> QED BY <2>1, SendRule
<1> QED BY <1>5, <1>7, <1>8, <1>9 DEF IInv

\* The sender closes, inside a frame or not: stream is still a piece of the line.
LEMMA CloseStep == IInv /\ Close => IInv'
<1> SUFFICES ASSUME IInv, Close PROVE IInv'
  OBVIOUS
<1>1. conn = "open" /\ conn' = "closed" /\ wpc' = "gone" /\ out' = <<>> /\ faults' = faults /\ sent' = sent
      /\ torn' = torn /\ stream' = stream /\ UNCHANGED rVars
  BY DEF Close
<1>2. out' \in Seq(Byte) /\ sent \in 0 .. Len(Messages) /\ torn \in 0 .. sent
  BY <1>1, SizeFacts
<1>3. TypeOK'
  BY <1>1, <1>2, SizeFacts, SenderTypes
<1>4. ~AtEnd
  BY <1>1 DEF AtEnd
<1>5. FlowInv'
  BY <1>1, <1>4, SizeFacts, SenderFlow
<1>6. ReadInv' /\ ResultInv' /\ FramesInOrder'
  BY <1>1, <1>4, SizeFacts, ReaderUndisturbed
<1>7. SendInv'
  BY <1>1, SendRule
<1> QED BY <1>3, <1>5, <1>6, <1>7 DEF IInv

\* What a reset leaves of stream is its beginning.
LEMMA ResetStep == IInv /\ Reset => IInv'
<1> SUFFICES ASSUME IInv, Reset PROVE IInv'
  OBVIOUS
<1>1. conn = "open" /\ conn' = "reset" /\ wpc' = wpc /\ out' = out /\ faults' = faults /\ sent' = sent /\ torn' = torn /\ UNCHANGED rVars
  BY DEF Reset, wVars
<1>2. PICK k \in 0 .. Len(stream) : stream' = SubSeq(stream, 1, k)
  BY DEF Reset
<1>3. ~AtEnd
  BY <1>1 DEF AtEnd
<1>5. stream' \in Seq(Byte) /\ Len(stream') = k
  BY <1>2, SizeFacts, CutTypes
<1>6. TypeOK'
  <2>1. wpc \in {"idle", "header", "body", "frame", "gone"} /\ sent \in 0 .. Len(Messages) /\ torn \in 0 .. sent
    BY DEF IInv, TypeOK
  <2> QED BY <1>1, <1>5, <2>1, SizeFacts, SenderTypes
<1>7. ReadInv' /\ ResultInv' /\ FramesInOrder'
  BY <1>1, <1>3, SizeFacts, ReaderUndisturbed
<1>8. SendInv'
  <2>1. (wpc = "idle" => out = <<>>) /\ (wpc \in {"header", "body", "frame"} => sent >= 1)
    BY DEF IInv, SendInv
  <2> QED BY <1>1, <2>1, SendRule
<1>9. FlowInv'
  <2>0. SUFFICES ASSUME Intact'
                 PROVE  /\ Carries(stream', Pos', torn')
                        /\ torn' = 0 => Pos' + Len(stream') <= Off[sent']
                        /\ rpc' = "header" => Carries(buf', Off[Len(results')], torn')
                        /\ rpc' = "body" => /\ Len(results') < sent'
                                            /\ msglen' = Len(Messages[Len(results') + 1])
                                            /\ Carries(buf', Off[Len(results')] + HdrLen, torn')
    BY FlowRule
  <2>1. Intact
    BY <1>1, <2>0, IntactSame
  <2>2. Carries(stream, Pos, torn) /\ (torn = 0 => Pos + Len(stream) <= Off[sent])
    BY <1>3, <2>1 DEF IInv, FlowInv
  <2>3. Carries(stream', Pos, torn)
    BY <1>2, <2>2, SizeFacts, CarriesCut
  <2>4. ASSUME torn = 0 PROVE Pos' + Len(stream') <= Off[sent']
    <3>1. PICK p \in Nat, l \in Nat, o \in Nat : p = Pos /\ l = Len(stream) /\ o = Off[sent]
      BY SizeFacts
    <3>2. p + l <= o /\ k \in 0 .. l
      BY <2>2, <2>4, <3>1
    <3>3. p + k <= o
      BY <3>1, <3>2
    <3> QED BY <1>1, <1>5, <3>1, <3>3, PosSame
  <2>5. rpc' = rpc /\ buf' = buf /\ msglen' = msglen /\ results' = results
    BY <1>1 DEF rVars
  <2>6. rpc' = "header" => Carries(buf', Off[Len(results')], torn')
    BY <1>1, <1>3, <2>1, <2>5 DEF IInv, FlowInv
  <2>7. rpc' = "body" => /\ Len(results') < sent'
                         /\ msglen' = Len(Messages[Len(results') + 1])
                         /\ Carries(buf', Off[Len(results')] + HdrLen, torn')
    BY <1>1, <1>3, <2>1, <2>5 DEF IInv, FlowInv
  <2> QED BY <1>1, <2>3, <2>4, <2>6, <2>7, PosSame
<1> QED BY <1>6, <1>7, <1>8, <1>9 DEF IInv

\* TypeOK after a step of the reader, from what the step changes.
LEMMA ReaderTypes ==
  ASSUME IInv, UNCHANGED <<faults, wVars>>, stream' \in Seq(Byte), conn' \in {"open", "closed", "reset"},
         rpc' \in {"idle", "header", "body", "gone"}, buf' \in Seq(Byte),
         rpc' \in {"header", "body"} => Len(buf') <= Want',
         msglen' \in 0 .. Modulo - 1, inloop' \in BOOLEAN, use_tempbuf' \in BOOLEAN, ended' \in BOOLEAN,
         results' \in Seq(ResultRec)
  PROVE  TypeOK'
<1>1. faults' = faults /\ wpc' = wpc /\ out' = out /\ sent' = sent /\ torn' = torn
  BY DEF wVars
<1>2. wpc \in {"idle", "header", "body", "frame", "gone"} /\ sent \in 0 .. Len(Messages) /\ torn \in 0 .. sent /\ faults \in BOOLEAN
  BY DEF IInv, TypeOK
<1>3. {out', stream', buf'} \subseteq Seq(Byte)
  BY <1>1, SizeFacts
<1>4. {faults', inloop', use_tempbuf', ended'} \subseteq BOOLEAN
  BY <1>1, <1>2
<1>5. \A i \in DOMAIN results' :
        /\ results'[i].n \in Int /\ -Modulo <= 2 * results'[i].n /\ 2 * results'[i].n < Modulo
        /\ results'[i].data \in Seq(Byte)
  <2>1. ASSUME NEW i \in DOMAIN results' PROVE results'[i] \in ResultRec
    OBVIOUS
  <2>2. ASSUME NEW i \in DOMAIN results' PROVE results'[i].n \in Ints /\ results'[i].data \in Seq(Byte)
    BY <2>1 DEF ResultRec
  <2> QED BY <2>2 DEF Ints
<1> QED BY <1>1, <1>2, <1>3, <1>4, <1>5 DEF TypeOK

\* SendInv after a step of the reader: it takes bytes from the front.
LEMMA ReaderSend ==
  ASSUME IInv, UNCHANGED wVars,
         conn' = "open" /\ Intact' => conn = "open" /\ Intact /\ Pos' + Len(stream') = Pos + Len(stream)
  PROVE  SendInv'
<1>1. wpc' = wpc /\ out' = out /\ sent' = sent /\ torn' = torn
  BY DEF wVars
<1>2. (wpc = "idle" => out = <<>>) /\ (wpc \in {"header", "body", "frame"} => sent >= 1)
  BY DEF IInv, SendInv
<1>3. ASSUME conn' = "open", Intact', torn' = 0
      PROVE  Carries(out', Pos' + Len(stream'), 0) /\ Pos' + Len(stream') + Len(out') + ToWrite' = Off[sent']
  <2>1. Carries(out, Pos + Len(stream), 0) /\ Pos + Len(stream) + Len(out) + ToWrite = Off[sent]
    BY <1>1, <1>3, SendFacts
  <2>2. ToWrite' = ToWrite
    BY <1>1 DEF ToWrite
  <2> QED BY <1>1, <1>3, <2>1, <2>2
<1>4. ASSUME conn' = "open", Intact', torn' # 0 PROVE Off[torn' - 1] <= Pos' + Len(stream')
  BY <1>1, <1>4, CutFacts
<1> QED BY <1>1, <1>2, <1>3, <1>4, SendRule

\* ReadInv after a step of the reader, from what it needs.
LEMMA ReadRule ==
  ASSUME rpc' = "idle" => buf' = <<>>,
         inloop' /\ conn' # "closed" => buf' # <<>>,
         rpc' = "body" => (use_tempbuf' = ~Fits(msglen')),
         ended' => AtEnd' /\ rpc' = "idle"
  PROVE  ReadInv'
<1> QED BY DEF ReadInv, Fits

\* While tcp_read runs, the end has not been reported.
LEMMA Running ==
  ASSUME IInv, rpc # "idle"
  PROVE  ~ended
<1> QED BY DEF IInv, ReadInv

\* No result, nothing new.
LEMMA ResultsSame ==
  ASSUME IInv, results' = results, sent' = sent, torn' = torn, AtEnd => AtEnd'
  PROVE  ResultInv' /\ FramesInOrder'
<1>1. ResultInv'
  BY DEF IInv, ResultInv
<1>2. FramesInOrder'
  <2>1. SUFFICES ASSUME NEW i \in DOMAIN results, torn = 0 \/ i < torn
                 PROVE  \/ i <= sent /\ IsMessage(results[i], Messages[i])
                        \/ AtEnd' /\ results[i].n \in {0, -1} /\ results[i].data = <<>>
    BY DEF FramesInOrder, IsMessage
  <2> QED BY <2>1 DEF IInv, FramesInOrder
<1> QED BY <1>1, <1>2

\* The int that a count becomes.
LEMMA IntFacts ==
  ASSUME NEW l \in 0 .. Modulo - 1
  PROVE  ToInt(l) \in Ints /\ (ToInt(l) = l \/ (2 * l >= Modulo /\ ToInt(l) < 0))
<1>1. PICK m \in Nat \ {0} : m = Modulo
  BY PowFacts, FrameAssumption DEF Modulo
<1>2. CASE 2 * l < Modulo
  <2>1. ToInt(l) = l
    BY <1>2 DEF ToInt
  <2> QED BY <1>1, <1>2, <2>1 DEF Ints
<1>3. CASE ~(2 * l < Modulo)
  <2>1. ToInt(l) = l - Modulo
    BY <1>3 DEF ToInt
  <2> QED BY <1>1, <1>3, <2>1 DEF Ints
<1> QED BY <1>2, <1>3

\* 0 and the error are ints.
LEMMA SmallInts == 0 \in Ints /\ -1 \in Ints
<1>1. Base \in Nat \ {0, 1} /\ HdrLen \in Nat \ {0}
  BY FrameAssumption
<1>2. PICK k \in Nat : HdrLen = k + 1
  <2>1. HdrLen - 1 \in Nat /\ HdrLen = (HdrLen - 1) + 1
    BY <1>1
  <2> QED BY <2>1
<1>3. PICK p \in Nat \ {0} : p = Pow[k]
  BY PowFacts
<1>4. Modulo = Base * p
  BY <1>2, <1>3, PowFacts DEF Modulo
<1>5. PICK m \in Nat : m = Base * p
  BY <1>1
<1>6. Base + 0 <= m
  <2>1. Base * 0 + Base <= Base * p
    BY <1>1, <1>3, MulGrows
  <2> QED BY <1>1, <1>5, <2>1
<1>7. m >= 2 /\ Modulo = m
  BY <1>1, <1>4, <1>5, <1>6
<1> QED BY <1>7 DEF Ints

\* One more result.
LEMMA OneMore ==
  ASSUME IInv, NEW n \in Ints, NEW bytes \in Seq(Byte),
         results' = Append(results, Result(n, bytes)), sent' = sent, torn' = torn, AtEnd => AtEnd',
         \/ Len(results) < sent /\ IsMessage([n |-> n, data |-> bytes], Messages[Len(results) + 1])
         \/ AtEnd' /\ n \in {0, -1} /\ bytes = <<>>
         \/ torn # 0 /\ ~(Len(results) + 1 < torn),
         use_tempbuf \/ Len(bytes) <= maxsize
  PROVE  ResultInv' /\ FramesInOrder' /\ Len(results') = Len(results) + 1
<1>1. PICK r : r = Result(n, bytes)
  OBVIOUS
<1>2. r.n = n /\ r.data = bytes /\ r.tmp = use_tempbuf /\ r \in ResultRec
  <2>1. use_tempbuf \in BOOLEAN
    BY DEF IInv, TypeOK
  <2> QED BY <1>1, <2>1 DEF Result, ResultRec
<1>3. PICK R : R = ResultRec
  OBVIOUS
<1>4. results \in Seq(R) /\ r \in R /\ results' = Append(results, r)
  BY <1>1, <1>2, <1>3, SizeFacts
<1>5. /\ results' \in Seq(R) /\ Len(results') = Len(results) + 1 /\ Len(results) \in Nat
      /\ DOMAIN results' = 1 .. Len(results) + 1
      /\ \A i \in 1 .. Len(results) : results'[i] = results[i]
      /\ results'[Len(results) + 1] = r
      /\ DOMAIN results = 1 .. Len(results)
  BY <1>4
<1>6. ResultInv'
  <2>1. ASSUME NEW i \in DOMAIN results' PROVE results'[i].tmp \/ Len(results'[i].data) <= maxsize
    <3>1. CASE i \in 1 .. Len(results)
      BY <1>5, <2>1, <3>1 DEF IInv, ResultInv
    <3>2. CASE i = Len(results) + 1
      BY <1>2, <1>5, <2>1, <3>2
    <3> QED BY <1>5, <3>1, <3>2
  <2>2. results' \in Seq(ResultRec)
    BY <1>3, <1>5
  <2> QED BY <2>1, <2>2 DEF ResultInv, ResultRec, Ints
<1>7. FramesInOrder'
  <2>1. SUFFICES ASSUME NEW i \in DOMAIN results', torn = 0 \/ i < torn
                 PROVE  \/ i <= sent /\ IsMessage(results'[i], Messages[i])
                        \/ AtEnd' /\ results'[i].n \in {0, -1} /\ results'[i].data = <<>>
    BY DEF FramesInOrder, IsMessage
  <2>2. CASE i \in 1 .. Len(results)
    <3>1. i \in DOMAIN results /\ results'[i] = results[i]
      BY <1>5, <2>2
    <3> QED BY <2>1, <3>1 DEF IInv, FramesInOrder
  <2>3. CASE i = Len(results) + 1
    <3>1. results'[i].n = n /\ results'[i].data = bytes
      BY <1>2, <1>5, <2>3
    <3>2. Len(results) < sent => i <= sent
      BY <2>3, SizeFacts
    <3>3. IsMessage([n |-> n, data |-> bytes], Messages[i]) => IsMessage(results'[i], Messages[i])
      BY <3>1 DEF IsMessage
    <3> QED BY <2>1, <2>3, <3>1, <3>2, <3>3
  <2> QED BY <1>5, <2>2, <2>3
<1> QED BY <1>5, <1>6, <1>7

\* Where the frame that is being read ends.
LEMMA OffNext ==
  ASSUME IInv, Len(results) < sent
  PROVE  /\ Off[Len(results) + 1] = Off[Len(results)] + HdrLen + Len(Messages[Len(results) + 1])
         /\ Len(results) + 1 \in 1 .. Len(Messages)
         /\ Len(Messages[Len(results) + 1]) \in Nat
<1>1. PICK i \in 1 .. Len(Messages) : i = Len(results) + 1
  BY SizeFacts
<1>2. FrameLen(i) = HdrLen + Len(Messages[i]) /\ Len(Messages[i]) \in Nat
  BY MessageType
<1>3. Off[Len(results) + 1] = Off[Len(results)] + FrameLen(Len(results) + 1)
  BY SizeFacts, OffFacts
<1>4. PICK a \in Nat, b \in Nat, c \in Nat : a = Off[Len(results)] /\ b = HdrLen /\ c = Len(Messages[i])
  BY <1>2, SizeFacts
<1>5. a + (b + c) = a + b + c
  OBVIOUS
<1> QED BY <1>1, <1>2, <1>3, <1>4, <1>5

\* tcp_read begins at the end of the last frame.
LEMMA BeginReadStep == IInv /\ tcp_read => IInv'
<1> SUFFICES ASSUME IInv, tcp_read PROVE IInv'
  OBVIOUS
<1>1. /\ rpc = "idle" /\ rpc' = "header" /\ buf' = <<>> /\ inloop' = FALSE /\ msglen' \in Uninit
      /\ faults' = faults /\ use_tempbuf' = use_tempbuf /\ results' = results /\ ended' = ended
      /\ stream' = stream /\ conn' = conn /\ UNCHANGED wVars
  BY DEF tcp_read
<1>2. stream # <<>> \/ (AtEnd /\ ~ended)
  BY DEF tcp_read
<1>3. ~ended
  BY <1>2 DEF IInv, ReadInv, AtEnd
<1>4. sent' = sent /\ torn' = torn /\ AtEnd' = AtEnd
  BY <1>1 DEF wVars, AtEnd
<1>5. buf = <<>> /\ Pos' = Pos /\ Pos = Off[Len(results)] /\ Intact' = Intact
  <2>1. buf = <<>>
    BY <1>1 DEF IInv, ReadInv
  <2>2. Pos' = Pos /\ Pos = Off[Len(results)]
    BY <1>1, <2>1, SizeFacts DEF Pos
  <2>3. Intact' = Intact
    BY <1>1, <1>4 DEF Intact
  <2> QED BY <2>1, <2>2, <2>3
<1>6. TypeOK'
  <2>1. conn \in {"open", "closed", "reset"} /\ use_tempbuf \in BOOLEAN /\ ended \in BOOLEAN
    BY DEF IInv, TypeOK
  <2>2. msglen' \in 0 .. Modulo - 1
    BY <1>1, FrameAssumption
  <2>3. Len(buf') <= Want' /\ buf' \in Seq(Byte)
    BY <1>1, SizeFacts DEF Want
  <2>4. stream \in Seq(Byte) /\ results \in Seq(ResultRec)
    BY SizeFacts
  <2>5. /\ stream' \in Seq(Byte) /\ conn' \in {"open", "closed", "reset"} /\ rpc' \in {"idle", "header", "body", "gone"}
        /\ inloop' \in BOOLEAN /\ use_tempbuf' \in BOOLEAN /\ ended' \in BOOLEAN /\ results' \in Seq(ResultRec)
        /\ UNCHANGED <<faults, wVars>>
    BY <1>1, <2>1, <2>4
  <2> QED BY <2>2, <2>3, <2>5, ReaderTypes
<1>7. SendInv'
  BY <1>1, <1>5, ReaderSend
<1>8. FlowInv'
  <2>1. ASSUME ~AtEnd', Intact' PROVE Carries(stream, Pos, torn) /\ (torn = 0 => Pos + Len(stream) <= Off[sent])
    <3>1. ~AtEnd /\ Intact
      BY <1>4, <1>5, <2>1
    <3> QED BY <3>1 DEF IInv, FlowInv
  <2>2. Carries(buf', Off[Len(results')], torn')
    BY <1>1, CarriesEmpty
  <2> QED BY <1>1, <1>4, <1>5, <2>1, <2>2, FlowRule
<1>9. ReadInv'
  BY <1>1, <1>3, ReadRule
<1>10. ResultInv' /\ FramesInOrder'
  BY <1>1, <1>4, ResultsSame
<1> QED BY <1>6, <1>7, <1>8, <1>9, <1>10 DEF IInv

\* A reader that dies leaves its results.
LEMMA DiesStep ==
  ASSUME IInv, rpc \in {"header", "body"}, Dies, stream' \in Seq(Byte), conn' \in {"open", "closed", "reset"},
         AtEnd => AtEnd', UNCHANGED <<faults, wVars>>
  PROVE  IInv'
<1>1. /\ rpc' = "gone" /\ buf' = <<>> /\ inloop' = FALSE /\ msglen' = msglen /\ use_tempbuf' = use_tempbuf
      /\ results' = results /\ ended' = ended /\ faults' = faults /\ sent' = sent /\ torn' = torn /\ UNCHANGED wVars
  BY DEF Dies, wVars
<1>2. ~Intact'
  BY <1>1 DEF Intact
<1>3. ~ended
  BY Running
<1>4. TypeOK'
  <2>1. use_tempbuf \in BOOLEAN /\ ended \in BOOLEAN /\ msglen \in 0 .. Modulo - 1
    BY DEF IInv, TypeOK
  <2>2. results \in Seq(ResultRec) /\ <<>> \in Seq(Byte)
    BY SizeFacts
  <2> QED BY <1>1, <2>1, <2>2, ReaderTypes
<1>5. SendInv' /\ FlowInv'
  BY <1>1, <1>2, ReaderSend, FlowRule
<1>6. ReadInv'
  BY <1>1, <1>3, ReadRule
<1>7. ResultInv' /\ FramesInOrder'
  BY <1>1, ResultsSame
<1> QED BY <1>4, <1>5, <1>6, <1>7 DEF IInv

\* A read that leaves readn in its loop.
LEMMA ReadMoreStep ==
  ASSUME IInv, rpc \in {"header", "body"}, NEW k \in 1 .. Len(stream), Asked(k), UNCHANGED <<faults, conn, wVars>>,
         stream' = SubSeq(stream, k + 1, Len(stream)),
         ~Enough(buf \o SubSeq(stream, 1, k)), buf' = buf \o SubSeq(stream, 1, k), inloop' = TRUE,
         UNCHANGED <<rpc, msglen, use_tempbuf, results, ended>>
  PROVE  IInv'
<1>1. /\ ~AtEnd
      /\ buf' \in Seq(Byte) /\ Len(buf') = Len(buf) + k /\ Len(buf') <= Want
      /\ stream' \in Seq(Byte) /\ Len(stream') = Len(stream) - k
  BY GotTypes
<1>2. /\ faults' = faults /\ conn' = conn /\ sent' = sent /\ torn' = torn /\ rpc' = rpc /\ msglen' = msglen
      /\ use_tempbuf' = use_tempbuf /\ results' = results /\ ended' = ended /\ UNCHANGED wVars
  BY DEF wVars
<1>0. Intact' = Intact
  BY <1>2 DEF Intact
<1>3. PICK h \in Nat, b \in Nat, s \in Nat :
        h = Off[Len(results)] + (IF rpc = "body" THEN HdrLen ELSE 0) /\ b = Len(buf) /\ s = Len(stream)
  <2>1. Off[Len(results)] \in Nat /\ HdrLen \in Nat
    BY SizeFacts
  <2>2. Off[Len(results)] + (IF rpc = "body" THEN HdrLen ELSE 0) \in Nat
    BY <2>1
  <2> QED BY <2>2, SizeFacts
<1>4. k \in Nat /\ 1 <= k /\ k <= s
  BY <1>3
<1>5. Pos = h + b /\ Pos' = h + (b + k)
  BY <1>1, <1>2, <1>3 DEF Pos
<1>6. Pos' = Pos + k /\ Pos' + Len(stream') = Pos + Len(stream)
  <2>1. h + (b + k) = (h + b) + k /\ h + (b + k) + (s - k) = (h + b) + s
    BY <1>4
  <2> QED BY <1>1, <1>3, <1>5, <2>1
<1>7. ~ended
  BY Running
<1>8. TypeOK'
  <2>1. conn \in {"open", "closed", "reset"} /\ use_tempbuf \in BOOLEAN /\ ended \in BOOLEAN /\ msglen \in 0 .. Modulo - 1
        /\ rpc \in {"idle", "header", "body", "gone"}
    BY DEF IInv, TypeOK
  <2>2. Want' = Want
    BY <1>2 DEF Want
  <2>3. results \in Seq(ResultRec)
    BY SizeFacts
  <2> QED BY <1>1, <1>2, <2>1, <2>2, <2>3, ReaderTypes
<1>9. SendInv'
  BY <1>0, <1>2, <1>6, ReaderSend
<1>10. FlowInv'
  <2>0. SUFFICES ASSUME Intact
                 PROVE  /\ Carries(stream', Pos', torn')
                        /\ torn' = 0 => Pos' + Len(stream') <= Off[sent']
                        /\ rpc' = "header" => Carries(buf', Off[Len(results')], torn')
                        /\ rpc' = "body" => /\ Len(results') < sent'
                                            /\ msglen' = Len(Messages[Len(results') + 1])
                                            /\ Carries(buf', Off[Len(results')] + HdrLen, torn')
    BY <1>0, FlowRule
  <2>1. torn = 0 => Pos + Len(stream) <= Off[sent]
    BY <1>1, <2>0 DEF IInv, FlowInv
  <2>2. rpc = "body" => Len(results) < sent /\ msglen = Len(Messages[Len(results) + 1])
    BY <1>1, <2>0 DEF IInv, FlowInv
  <2>3. /\ Carries(stream', Pos + k, torn)
        /\ rpc = "header" => Carries(buf', Off[Len(results)], torn)
        /\ rpc = "body" => Carries(buf', Off[Len(results)] + HdrLen, torn)
    BY <2>0, Got
  <2>4. torn' = 0 => Pos' + Len(stream') <= Off[sent']
    BY <1>2, <1>6, <2>1
  <2> QED BY <1>2, <1>6, <2>2, <2>3, <2>4
<1>11. ReadInv'
  <2>1. buf' # <<>>
    <3>1. b + k # 0
      BY <1>4
    <3>2. Len(buf') # 0
      BY <1>1, <1>3, <3>1
    <3> QED BY <3>2
  <2>2. rpc = "body" => (use_tempbuf = ~Fits(msglen))
    BY DEF IInv, ReadInv
  <2>3. rpc' = "body" => (use_tempbuf' = ~Fits(msglen'))
    BY <1>2, <2>2
  <2>4. ~ended' /\ rpc' # "idle"
    BY <1>2, <1>7
  <2> QED BY <2>1, <2>3, <2>4, ReadRule
<1>12. ResultInv' /\ FramesInOrder'
  BY <1>1, <1>2, ResultsSame
<1> QED BY <1>8, <1>9, <1>10, <1>11, <1>12 DEF IInv

\* A read that completes the length.
LEMMA ReadLengthStep ==
  ASSUME IInv, rpc = "header", NEW k \in 1 .. Len(stream), Asked(k), UNCHANGED <<faults, conn, wVars>>,
         stream' = SubSeq(stream, k + 1, Len(stream)),
         Enough(buf \o SubSeq(stream, 1, k)), ReadBody(Value(buf \o SubSeq(stream, 1, k)))
  PROVE  IInv'
<1>0. PICK bytes : bytes = buf \o SubSeq(stream, 1, k)
  OBVIOUS
<1>1. /\ ~AtEnd
      /\ bytes \in Seq(Byte) /\ Len(bytes) = Len(buf) + k
      /\ stream' \in Seq(Byte) /\ Len(stream') = Len(stream) - k
      /\ Len(bytes) = HdrLen
  BY <1>0, GotTypes DEF Want
<1>2. CASE Dies
  <2>1. conn' \in {"open", "closed", "reset"}
    BY DEF IInv, TypeOK
  <2> QED BY <1>1, <1>2, <2>1, DiesStep
<1>3. CASE ~Dies
  <2>2. /\ faults' = faults /\ conn' = conn /\ sent' = sent /\ torn' = torn /\ rpc' = "body" /\ msglen' = Value(bytes)
        /\ use_tempbuf' = ~Fits(msglen') /\ buf' = <<>> /\ inloop' = FALSE /\ results' = results /\ ended' = ended
        /\ UNCHANGED wVars
    BY <1>0, <1>3 DEF wVars, ReadBody
  <2>3. PICK h \in Nat, b \in Nat, s \in Nat, d \in Nat : h = Off[Len(results)] /\ b = Len(buf) /\ s = Len(stream) /\ d = HdrLen
    BY SizeFacts
  <2>4. k \in Nat /\ 1 <= k /\ k <= s /\ b + k = d
    <3>1. k \in 1 .. s
      BY <2>3
    <3>2. b + k = d
      BY <1>1, <2>3
    <3> QED BY <3>1, <3>2
  <2>5. Pos = h + b /\ Pos' = h + d
    <3>1. Pos = h + 0 + b
      BY <2>3 DEF Pos
    <3>2. Pos' = h + d + 0
      BY <2>2, <2>3 DEF Pos
    <3> QED BY <2>3, <3>1, <3>2
  <2>6. Pos' = Pos + k /\ Pos' + Len(stream') = Pos + Len(stream)
    <3>1. h + d = (h + b) + k /\ h + d + (s - k) = (h + b) + s
      BY <2>4
    <3> QED BY <1>1, <2>3, <2>5, <3>1
  <2>7. ~ended
    BY Running
  <2>0. Intact' = Intact
    BY <2>2 DEF Intact
  <2>8. TypeOK'
    <3>1. conn \in {"open", "closed", "reset"} /\ ended \in BOOLEAN
      BY DEF IInv, TypeOK
    <3>2. msglen' \in 0 .. Modulo - 1
      BY <1>1, <2>2, ValueType
    <3>3. results \in Seq(ResultRec)
      BY SizeFacts
    <3>4. Len(buf') <= Want' /\ buf' \in Seq(Byte)
      BY <2>2, <3>2, SizeFacts DEF Want
    <3>5. use_tempbuf' \in BOOLEAN
      BY <2>2 DEF Fits
    <3> QED BY <1>1, <2>2, <3>1, <3>2, <3>3, <3>4, <3>5, ReaderTypes
  <2>9. SendInv'
    BY <2>0, <2>2, <2>6, ReaderSend
  <2>10. FlowInv'
    <3>0. SUFFICES ASSUME Intact
                   PROVE  /\ Carries(stream', Pos', torn')
                          /\ torn' = 0 => Pos' + Len(stream') <= Off[sent']
                          /\ rpc' = "header" => Carries(buf', Off[Len(results')], torn')
                          /\ rpc' = "body" => /\ Len(results') < sent'
                                              /\ msglen' = Len(Messages[Len(results') + 1])
                                              /\ Carries(buf', Off[Len(results')] + HdrLen, torn')
      BY <2>0, FlowRule
    <3>1. torn = 0 => Pos + Len(stream) <= Off[sent]
      BY <1>1, <3>0 DEF IInv, FlowInv
    <3>2. Carries(stream', Pos + k, torn) /\ Len(results) < sent /\ Value(bytes) = Len(Messages[Len(results) + 1])
      BY <1>0, <3>0, Got
    <3>4. torn' = 0 => Pos' + Len(stream') <= Off[sent']
      BY <2>2, <2>6, <3>1
    <3>5. Carries(buf', Off[Len(results')] + HdrLen, torn')
      BY <2>2, CarriesEmpty
    <3> QED BY <2>2, <2>6, <3>2, <3>4, <3>5
  <2>11. ReadInv'
    BY <2>2, <2>7, ReadRule
  <2>12. ResultInv' /\ FramesInOrder'
    BY <1>1, <2>2, ResultsSame
  <2> QED BY <2>8, <2>9, <2>10, <2>11, <2>12 DEF IInv
<1> QED BY <1>2, <1>3

\* A read that completes the message.
LEMMA ReadMessageStep ==
  ASSUME IInv, rpc = "body", NEW k \in 1 .. Len(stream), Asked(k), UNCHANGED <<faults, conn, wVars>>,
         stream' = SubSeq(stream, k + 1, Len(stream)),
         NEW bytes, bytes = buf \o SubSeq(stream, 1, k), Enough(bytes), Return(ToInt(Len(bytes)), bytes)
  PROVE  IInv'
<1>1. /\ ~AtEnd
      /\ bytes \in Seq(Byte) /\ Len(bytes) = Len(buf) + k
      /\ stream' \in Seq(Byte) /\ Len(stream') = Len(stream) - k
      /\ Len(bytes) = msglen
  BY GotTypes DEF Want
<1>2. /\ faults' = faults /\ conn' = conn /\ sent' = sent /\ torn' = torn /\ rpc' = "idle" /\ msglen' = msglen
      /\ use_tempbuf' = use_tempbuf /\ buf' = <<>> /\ inloop' = FALSE
      /\ results' = Append(results, Result(ToInt(Len(bytes)), bytes)) /\ ended' = FALSE
      /\ UNCHANGED wVars
  BY <1>1 DEF wVars, Return
<1>3. PICK h \in Nat, b \in Nat, s \in Nat, d \in Nat, l \in Nat :
        h = Off[Len(results)] /\ b = Len(buf) /\ s = Len(stream) /\ d = HdrLen /\ l = msglen
  BY SizeFacts
<1>4. k \in Nat /\ 1 <= k /\ k <= s /\ b + k = l
  BY <1>1, <1>3
<1>5. PICK n : n = ToInt(Len(bytes))
  OBVIOUS
<1>6. n \in Ints /\ (n = Len(bytes) \/ (2 * Len(bytes) >= Modulo /\ n < 0))
  <2>1. Len(bytes) \in 0 .. Modulo - 1
    BY <1>1, SizeFacts DEF IInv, TypeOK
  <2> QED BY <1>5, <2>1, IntFacts
<1>7. IsMessage([n |-> n, data |-> bytes], bytes)
  BY <1>6 DEF IsMessage
<1>8. use_tempbuf \/ Len(bytes) <= maxsize
  BY <1>1 DEF IInv, ReadInv, Fits
<1>9. Intact => Len(results) < sent /\ bytes = Messages[Len(results) + 1]
  BY Got
<1>10. \/ Len(results) < sent /\ IsMessage([n |-> n, data |-> bytes], Messages[Len(results) + 1])
       \/ torn # 0 /\ ~(Len(results) + 1 < torn)
  BY <1>7, <1>9 DEF Intact
<1>11. ResultInv' /\ FramesInOrder' /\ Len(results') = Len(results) + 1
  BY <1>1, <1>2, <1>5, <1>6, <1>8, <1>10, OneMore
<1>12. ASSUME Intact' PROVE Intact
  BY <1>2, <1>11, <1>12, SizeFacts DEF Intact
<1>13. ASSUME Intact PROVE Pos' = Pos + k /\ Pos' + Len(stream') = Pos + Len(stream)
  <2>1. Pos = h + d + b
    BY <1>3 DEF Pos
  <2>2. Pos' = Off[Len(results) + 1] + 0 + 0
    BY <1>2, <1>11 DEF Pos
  <2>3. Off[Len(results) + 1] = h + d + l
    BY <1>1, <1>3, <1>9, <1>13, OffNext
  <2>4. Pos' = h + d + l
    BY <1>3, <2>2, <2>3
  <2>5. h + d + l = (h + d + b) + k /\ h + d + l + (s - k) = (h + d + b) + s
    BY <1>4
  <2> QED BY <1>1, <1>3, <2>1, <2>4, <2>5
<1>14. TypeOK'
  <2>1. conn \in {"open", "closed", "reset"} /\ use_tempbuf \in BOOLEAN /\ msglen \in 0 .. Modulo - 1
    BY DEF IInv, TypeOK
  <2>2. results' \in Seq(ResultRec)
    BY <1>11 DEF ResultInv, ResultRec, Ints
  <2>3. buf' \in Seq(Byte)
    BY <1>2
  <2> QED BY <1>1, <1>2, <2>1, <2>2, <2>3, ReaderTypes
<1>15. SendInv'
  BY <1>2, <1>12, <1>13, ReaderSend
<1>16. FlowInv'
  <2>0. SUFFICES ASSUME Intact
                 PROVE  Carries(stream', Pos', torn') /\ (torn' = 0 => Pos' + Len(stream') <= Off[sent'])
    BY <1>2, <1>12, FlowRule
  <2>1. torn = 0 => Pos + Len(stream) <= Off[sent]
    BY <1>1, <2>0 DEF IInv, FlowInv
  <2>2. Carries(stream', Pos + k, torn)
    BY <2>0, Got
  <2> QED BY <1>2, <1>13, <2>0, <2>1, <2>2
<1>17. ReadInv'
  BY <1>2, ReadRule
<1> QED BY <1>11, <1>14, <1>15, <1>16, <1>17 DEF IInv

\* The outcomes of a read.
LEMMA ReadStep == IInv /\ Read => IInv'
<1> SUFFICES ASSUME IInv, Read PROVE IInv'
  OBVIOUS
<1>1. rpc \in {"header", "body"} /\ UNCHANGED <<faults, conn, wVars>>
  BY DEF Read
<1>2. PICK k \in 1 .. Len(stream) :
        /\ Asked(k)
        /\ stream' = SubSeq(stream, k + 1, Len(stream))
        /\ \/ /\ ~Enough(buf \o SubSeq(stream, 1, k))
              /\ buf' = buf \o SubSeq(stream, 1, k)
              /\ inloop' = TRUE
              /\ UNCHANGED <<rpc, msglen, use_tempbuf, results, ended>>
           \/ /\ Enough(buf \o SubSeq(stream, 1, k))
              /\ rpc = "header"
              /\ ReadBody(Value(buf \o SubSeq(stream, 1, k)))
           \/ /\ Enough(buf \o SubSeq(stream, 1, k))
              /\ rpc = "body"
              /\ Return(ToInt(Len(buf \o SubSeq(stream, 1, k))), buf \o SubSeq(stream, 1, k))
           \/ Dies
  BY DEF Read
<1>3. CASE ~Enough(buf \o SubSeq(stream, 1, k)) /\ buf' = buf \o SubSeq(stream, 1, k) /\ inloop' = TRUE
           /\ UNCHANGED <<rpc, msglen, use_tempbuf, results, ended>>
  BY <1>1, <1>2, <1>3, ReadMoreStep
<1>4. CASE Enough(buf \o SubSeq(stream, 1, k)) /\ rpc = "header" /\ ReadBody(Value(buf \o SubSeq(stream, 1, k)))
  BY <1>1, <1>2, <1>4, ReadLengthStep
<1>5. CASE Enough(buf \o SubSeq(stream, 1, k)) /\ rpc = "body"
           /\ Return(ToInt(Len(buf \o SubSeq(stream, 1, k))), buf \o SubSeq(stream, 1, k))
  BY <1>1, <1>2, <1>5, ReadMessageStep
<1>6. CASE Dies
  <2>1. ~AtEnd /\ stream' \in Seq(Byte)
    BY <1>1, <1>2, GotTypes
  <2>2. conn' \in {"open", "closed", "reset"}
    BY <1>1 DEF IInv, TypeOK
  <2> QED BY <1>1, <1>6, <2>1, <2>2, DiesStep
<1> QED BY <1>2, <1>3, <1>4, <1>5, <1>6

\* tcp_read returns without data at the end of the connection.
LEMMA EndStep ==
  ASSUME IInv, rpc \in {"header", "body"}, NEW n \in {-1, 0}, Return(n, <<>>), AtEnd, AtEnd',
         conn' \in {"closed", "reset"}, stream' = stream, UNCHANGED <<faults, wVars>>
  PROVE  IInv'
<1>1. /\ faults' = faults /\ sent' = sent /\ torn' = torn /\ rpc' = "idle" /\ msglen' = msglen
      /\ use_tempbuf' = use_tempbuf /\ buf' = <<>> /\ inloop' = FALSE
      /\ results' = Append(results, Result(n, <<>>)) /\ ended' \in BOOLEAN
      /\ UNCHANGED wVars
  BY DEF wVars, Return
<1>2. n \in Ints /\ n \in {0, -1} /\ <<>> \in Seq(Byte)
  BY SmallInts
<1>3. Len(<<>>) <= maxsize
  BY FrameAssumption
<1>4. ResultInv' /\ FramesInOrder'
  BY <1>1, <1>2, <1>3, OneMore
<1>5. TypeOK'
  <2>1. use_tempbuf \in BOOLEAN /\ msglen \in 0 .. Modulo - 1
    BY DEF IInv, TypeOK
  <2>2. results' \in Seq(ResultRec)
    BY <1>4 DEF ResultInv, ResultRec, Ints
  <2>3. stream' \in Seq(Byte)
    BY SizeFacts
  <2> QED BY <1>1, <1>2, <2>1, <2>2, <2>3, ReaderTypes
<1>6. SendInv'
  BY <1>1, ReaderSend
<1>7. FlowInv'
  BY FlowRule
<1>8. ReadInv'
  BY <1>1, ReadRule
<1> QED BY <1>4, <1>5, <1>6, <1>7, <1>8 DEF IInv

\* A read of 0 bytes: the end of the connection, or a message without data.
LEMMA ReadZeroStep == IInv /\ ReadZero => IInv'
<1> SUFFICES ASSUME IInv, ReadZero PROVE IInv'
  OBVIOUS
<1>1. rpc \in {"header", "body"} /\ Return(0, <<>>) /\ faults' = faults /\ stream' = stream /\ conn' = conn /\ UNCHANGED wVars
      /\ ((conn = "closed" /\ stream = <<>>) \/ Want = 0)
  BY DEF ReadZero
<1>2. CASE AtEnd
  <2>1. conn \in {"closed", "reset"}
    BY <1>2 DEF IInv, TypeOK, AtEnd
  <2>2. AtEnd'
    BY <1>1, <1>2 DEF AtEnd
  <2> QED BY <1>1, <1>2, <2>1, <2>2, EndStep
<1>3. CASE ~AtEnd
  <2>1. Want = 0
    BY <1>1, <1>3 DEF AtEnd
  <2>2. rpc = "body" /\ msglen = 0
    <3>1. rpc # "header"
      BY <2>1, SizeFacts DEF Want
    <3> QED BY <1>1, <2>1, <3>1 DEF Want
  <2>3. ASSUME Intact
        PROVE  /\ Len(results) < sent /\ 0 = Len(Messages[Len(results) + 1])
               /\ Carries(stream, Pos, torn) /\ (torn = 0 => Pos + Len(stream) <= Off[sent])
    BY <1>3, <2>2, <2>3 DEF IInv, FlowInv
  <2>4. Len(buf) = 0
    <3>1. Len(buf) <= 0
      BY <1>1, <2>1 DEF IInv, TypeOK
    <3> QED BY <3>1, SizeFacts
  <2>5. ASSUME Intact PROVE Messages[Len(results) + 1] = <<>>
    <3>1. Messages[Len(results) + 1] \in Seq(Byte)
      BY <2>3, <2>5, OffNext, MessageType
    <3> QED BY <2>3, <2>5, <3>1
  <2>6. /\ sent' = sent /\ torn' = torn /\ rpc' = "idle" /\ msglen' = msglen
        /\ use_tempbuf' = use_tempbuf /\ buf' = <<>> /\ inloop' = FALSE
        /\ results' = Append(results, Result(0, <<>>)) /\ ended' = FALSE
    BY <1>1, <1>3, <2>2 DEF wVars, Return
  <2>7. ResultInv' /\ FramesInOrder' /\ Len(results') = Len(results) + 1
    <3>1. 0 \in Ints /\ <<>> \in Seq(Byte) /\ Len(<<>>) = 0
      BY SmallInts
    <3>2. IsMessage([n |-> 0, data |-> <<>>], <<>>)
      BY <3>1 DEF IsMessage
    <3>3. Len(<<>>) <= maxsize
      BY FrameAssumption
    <3>4. \/ Len(results) < sent /\ IsMessage([n |-> 0, data |-> <<>>], Messages[Len(results) + 1])
          \/ torn # 0 /\ ~(Len(results) + 1 < torn)
      BY <2>2, <2>3, <2>5, <3>2 DEF Intact
    <3> QED BY <1>3, <2>6, <3>1, <3>3, <3>4, OneMore
  <2>8. ASSUME Intact PROVE Pos' = Pos
    <3>1. PICK h \in Nat, d \in Nat : h = Off[Len(results)] /\ d = HdrLen
      BY SizeFacts
    <3>2. Pos = h + d + 0
      BY <2>2, <2>4, <3>1 DEF Pos
    <3>3. Pos' = Off[Len(results) + 1] + 0 + 0
      BY <2>6, <2>7 DEF Pos
    <3>4. Off[Len(results) + 1] = h + d + 0
      BY <2>3, <2>8, <3>1, OffNext
    <3> QED BY <3>2, <3>3, <3>4
  <2>9. TypeOK'
    <3>1. conn \in {"open", "closed", "reset"} /\ use_tempbuf \in BOOLEAN /\ msglen \in 0 .. Modulo - 1
      BY DEF IInv, TypeOK
    <3>2. results' \in Seq(ResultRec)
      BY <2>7 DEF ResultInv, ResultRec, Ints
    <3>3. buf' \in Seq(Byte) /\ stream' \in Seq(Byte)
      BY <1>1, <2>6, SizeFacts
    <3> QED BY <1>1, <2>6, <3>1, <3>2, <3>3, ReaderTypes
  <2>10. ASSUME Intact' PROVE Intact
    BY <2>2, <2>6, <2>7, <2>10, SizeFacts DEF Intact
  <2>11. SendInv'
    BY <1>1, <2>8, <2>10, ReaderSend
  <2>12. FlowInv'
    BY <1>1, <2>3, <2>6, <2>8, <2>10, FlowRule
  <2>13. ReadInv'
    BY <2>6, ReadRule
  <2> QED BY <2>7, <2>9, <2>11, <2>12, <2>13 DEF IInv
<1> QED BY <1>2, <1>3

\* A failing read: nothing can be read any more, whatever msglen and buf are.
LEMMA ReadErrorStep == IInv /\ ReadError => IInv'
<1> SUFFICES ASSUME IInv, ReadError PROVE IInv'
  OBVIOUS
<1>1. rpc \in {"header", "body"} /\ conn = "reset" /\ stream = <<>> /\ conn' = "closed" /\ faults' = faults /\ stream' = stream
      /\ UNCHANGED wVars /\ Want > 0
  BY DEF ReadError
<1>2. AtEnd /\ AtEnd'
  BY <1>1 DEF AtEnd
<1>3. ~ended /\ ended \in BOOLEAN /\ use_tempbuf \in BOOLEAN /\ inloop \in BOOLEAN /\ msglen \in 0 .. Modulo - 1
  BY <1>1, Running DEF IInv, TypeOK
<1>4. stream' \in Seq(Byte) /\ results \in Seq(ResultRec) /\ sent' = sent /\ torn' = torn
  BY <1>1, SizeFacts DEF wVars
<1>5. SendInv' /\ FlowInv'
  BY <1>1, <1>2, ReaderSend, FlowRule
<1>6. CASE ~inloop /\ rpc = "header" /\ ReadBody(msglen)
  <2>0. CASE Dies
    BY <1>1, <1>2, <1>4, <2>0, DiesStep
  <2>1. CASE ~Dies
    <3>1. rpc' = "body" /\ msglen' = msglen /\ use_tempbuf' = ~Fits(msglen) /\ buf' = <<>> /\ inloop' = FALSE
          /\ results' = results /\ ended' = ended
      BY <1>6, <2>1 DEF ReadBody
    <3>2. TypeOK'
      <4>1. Len(buf') <= Want' /\ buf' \in Seq(Byte)
        BY <3>1, SizeFacts DEF Want
      <4>2. use_tempbuf' \in BOOLEAN
        BY <3>1 DEF Fits
      <4> QED BY <1>1, <1>3, <1>4, <3>1, <4>1, <4>2, ReaderTypes
    <3>3. ReadInv'
      BY <1>3, <3>1, ReadRule
    <3>4. ResultInv' /\ FramesInOrder'
      BY <1>2, <1>4, <3>1, ResultsSame
    <3> QED BY <1>5, <3>2, <3>3, <3>4 DEF IInv
  <2> QED BY <2>0, <2>1
<1>7. CASE ~inloop /\ rpc = "body" /\ Return(-1, <<>>)
  BY <1>1, <1>2, <1>7, EndStep
<1>8. CASE inloop /\ buf' = Front(buf) /\ UNCHANGED <<rpc, inloop, msglen, use_tempbuf, results, ended>>
  <2>1. rpc' = rpc /\ inloop' = inloop /\ msglen' = msglen /\ use_tempbuf' = use_tempbuf /\ results' = results /\ ended' = ended
    BY <1>8
  <2>2. buf # <<>> /\ Len(buf) <= Want
    BY <1>1, <1>8 DEF IInv, ReadInv, TypeOK
  <2>3. buf' = SubSeq(buf, 1, Len(buf) - 1) /\ Len(buf) >= 1
    BY <1>8, <2>2, SizeFacts DEF Front
  <2>4. buf' \in Seq(Byte) /\ Len(buf') = Len(buf) - 1
    <3>1. PICK k \in 0 .. Len(buf) : k = Len(buf) - 1
      BY <2>3, SizeFacts
    <3>2. PICK s \in Seq(Byte) : s = buf
      BY SizeFacts
    <3>3. SubSeq(s, 1, k) \in Seq(Byte) /\ Len(SubSeq(s, 1, k)) = k
      BY <3>2
    <3> QED BY <2>3, <3>1, <3>2, <3>3
  <2>5. TypeOK'
    <3>1. Want' = Want
      BY <2>1 DEF Want
    <3>2. Len(buf') <= Want'
      BY <2>2, <2>4, <3>1, SizeFacts
    <3> QED BY <1>1, <1>3, <1>4, <2>1, <2>4, <3>2, ReaderTypes
  <2>6. ReadInv'
    <3>1. rpc = "body" => (use_tempbuf = ~Fits(msglen))
      BY DEF IInv, ReadInv
    <3> QED BY <1>1, <1>3, <2>1, <3>1, ReadRule
  <2>7. ResultInv' /\ FramesInOrder'
    BY <1>2, <1>4, <2>1, ResultsSame
  <2> QED BY <1>5, <2>5, <2>6, <2>7 DEF IInv
<1> QED BY <1>6, <1>7, <1>8 DEF ReadError

\* The initial states satisfy the invariant.
LEMMA InitStep == Init => IInv
<1> SUFFICES ASSUME Init PROVE IInv
  OBVIOUS
<1>1. /\ faults \in Faults /\ wpc = "idle" /\ out = <<>> /\ sent = 0 /\ torn = 0 /\ stream = <<>> /\ conn = "open"
      /\ rpc = "idle" /\ buf = <<>> /\ inloop = FALSE /\ results = <<>> /\ msglen \in Uninit
      /\ use_tempbuf = FALSE /\ ended = FALSE
  BY DEF Init
<1>2. TypeOK
  <2>1. faults \in BOOLEAN /\ msglen \in 0 .. Modulo - 1 /\ Len(Messages) \in Nat
    BY <1>1, FrameAssumption
  <2>2. {out, stream, buf} \subseteq Seq(Byte) /\ {faults, inloop, use_tempbuf, ended} \subseteq BOOLEAN
    <3>1. <<>> \in Seq(Byte)
      OBVIOUS
    <3>2. {out, stream, buf} \subseteq Seq(Byte)
      BY <1>1, <3>1
    <3>3. {faults, inloop, use_tempbuf, ended} \subseteq BOOLEAN
      BY <1>1, <2>1
    <3> QED BY <3>2, <3>3
  <2>3. DOMAIN results = {}
    BY <1>1
  <2>4. sent \in 0 .. Len(Messages) /\ torn \in 0 .. sent
    BY <1>1, <2>1
  <2> QED BY <1>1, <2>1, <2>2, <2>3, <2>4 DEF TypeOK
<1>3. Pos = 0 /\ Len(stream) = 0 /\ Len(out) = 0 /\ Off[0] = 0
  BY <1>1, OffFacts DEF Pos
<1>4. SendInv
  BY <1>1, <1>3, CarriesEmpty DEF SendInv, ToWrite
<1>5. FlowInv
  BY <1>1, <1>3, CarriesEmpty DEF FlowInv
<1>6. ReadInv
  BY <1>1 DEF ReadInv
<1>7. ResultInv /\ FramesInOrder
  BY <1>1 DEF ResultInv, FramesInOrder
<1> QED BY <1>2, <1>4, <1>5, <1>6, <1>7 DEF IInv

\* So does a step that changes nothing.
LEMMA StutterStep == IInv /\ UNCHANGED vars => IInv'
<1> SUFFICES ASSUME IInv, UNCHANGED vars PROVE IInv'
  OBVIOUS
<1>1. /\ faults' = faults /\ conn' = conn /\ stream' = stream /\ out' = out /\ wpc' = wpc /\ sent' = sent /\ torn' = torn
      /\ UNCHANGED rVars /\ UNCHANGED wVars
  BY DEF vars, rVars, wVars
<1>2. AtEnd' = AtEnd
  BY <1>1 DEF AtEnd
<1>3. TypeOK'
  <2>1. wpc \in {"idle", "header", "body", "frame", "gone"} /\ sent \in 0 .. Len(Messages) /\ torn \in 0 .. sent
        /\ conn \in {"open", "closed", "reset"}
    BY DEF IInv, TypeOK
  <2> QED BY <1>1, <2>1, SizeFacts, SenderTypes
<1>4. FlowInv'
  BY <1>1, <1>2, SizeFacts, SenderFlow
<1>5. ReadInv' /\ ResultInv' /\ FramesInOrder'
  BY <1>1, <1>2, SizeFacts, ReaderUndisturbed
<1>6. SendInv'
  <2>1. Intact' => Intact
    BY <1>1, IntactSame
  <2> QED BY <1>1, <2>1, PosSame, ReaderSend
<1> QED BY <1>3, <1>4, <1>5, <1>6 DEF IInv

\* IInv is an inductive invariant.
LEMMA IInvHolds == Spec => []IInv
<1>1. IInv /\ [Next]_vars => IInv'
  BY WriteHeaderStep, SendMsgStep, WriteStep, WrittenStep, WriteFailsStep, CloseStep, ResetStep,
     BeginReadStep, ReadStep, ReadZeroStep, ReadErrorStep, StutterStep DEF Next, Sender, Reader
<1> QED BY InitStep, <1>1, PTL DEF Spec

\* Every variable keeps its type; in particular readn (util.cpp) never holds more
\* bytes than tcp_read asked it for, also of a length that is not a length.
THEOREM TypeCorrect == Spec => []TypeOK
<1>1. IInv => TypeOK
  BY DEF IInv
<1> QED BY IInvHolds, <1>1, PTL

\* However the kernel cuts the bytes that tcp_write and start_send write, tcp_read
\* (tcp_comm.cpp) returns the messages whole and in order, for every length that a
\* dsize_t holds, up to the first frame that its msg_t cut short; the number it
\* returns is the length, or negative for a length that an int cannot hold.  The
\* only other results have no data and come at the end of the connection.
THEOREM FramesStayInOrder == Spec => []FramesInOrder
<1>1. IInv => FramesInOrder
  BY DEF IInv
<1> QED BY IInvHolds, <1>1, PTL

\* The readn of tcp_read stays inside the caller's buffer of maxsize bytes or the
\* temporary one of msglen + 1 bytes, for every length the header can name and also
\* when msglen was never read, with the one exception of the largest length, whose
\* msglen + 1 wraps around to an empty buffer.
THEOREM BufferIsNeverExceeded == Spec => []BufferFits
<1>1. IInv => BufferFits
  <2> SUFFICES ASSUME IInv PROVE BufferFits
    OBVIOUS
  <2>1. ASSUME rpc \in {"header", "body"} PROVE Len(buf) <= Capacity \/ (use_tempbuf /\ msglen + 1 = Modulo)
    <3>1. Len(buf) <= Want
      BY <2>1 DEF IInv, TypeOK
    <3>2. CASE rpc = "header"
      BY <3>1, <3>2 DEF Want, Capacity
    <3>3. CASE rpc = "body"
      <4>1. Len(buf) <= msglen /\ (use_tempbuf = ~Fits(msglen))
        BY <3>1, <3>3 DEF Want, IInv, ReadInv
      <4>2. PICK l \in Nat, b \in Nat, m \in Nat \ {0} : l = msglen /\ b = Len(buf) /\ m = Modulo /\ l < m
        BY SizeFacts
      <4>3. maxsize \in Nat
        BY FrameAssumption
      <4>4. CASE ~use_tempbuf
        <5>1. l <= maxsize /\ b <= l
          BY <4>1, <4>2, <4>4 DEF Fits
        <5>2. Capacity = maxsize
          BY <3>3, <4>4 DEF Capacity
        <5> QED BY <4>2, <4>3, <5>1, <5>2
      <4>5. CASE use_tempbuf
        <5>1. Capacity = (l + 1) % m
          BY <3>3, <4>2, <4>5 DEF Capacity
        <5>2. CASE l + 1 = m
          BY <4>2, <4>5, <5>2
        <5>3. CASE l + 1 < m
          <6>1. (l + 1) % m = l + 1
            BY <5>3
          <6>2. b <= l + 1
            BY <4>1, <4>2
          <6> QED BY <4>2, <5>1, <6>1, <6>2
        <5> QED BY <4>2, <5>2, <5>3
      <4> QED BY <4>4, <4>5
    <3> QED BY <2>1, <3>2, <3>3
  <2> QED BY <2>1 DEF BufferFits, IInv, ResultInv
<1> QED BY IInvHolds, <1>1, PTL
===============================================================================
