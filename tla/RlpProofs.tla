------------------------------ MODULE RlpProofs ------------------------------
(* Theorems about Rlp, for every layout of prefixes, every item and every    *)
(* string of bytes: decoding inverts encoding, the encoder's is the shortest *)
(* form, and no encoding begins another.                                     *)
EXTENDS Rlp, SequenceTheorems, InductionTheorems

-----------------------------------------------------------------------------
(* The layout *)
LEMMA Layout ==
    /\ STRING0 \in Nat /\ STRING0 >= 1 /\ SHORT \in Nat /\ SHORT >= 1
    /\ LENGTHS \in Nat /\ LENGTHS >= 1
    /\ LONGSTRING = STRING0 + SHORT /\ LIST0 = STRING0 + SHORT + LENGTHS + 1
    /\ LONGLIST = STRING0 + SHORT + LENGTHS + 1 + SHORT
    /\ Base = STRING0 + SHORT + LENGTHS + 1 + SHORT + LENGTHS + 1
    /\ MaxData \in Nat /\ MaxEncoding \in Nat /\ MaxEncoding >= 1 /\ MaxDepth \in Nat
    /\ MaxData <= MaxDepth /\ Len(Digits[MaxEncoding]) <= LENGTHS
BY LayoutAssumption DEF LONGSTRING, LIST0, LONGLIST, Base

LEMMA BaseType == Base \in Nat /\ Base >= 2
BY Layout

LEMMA BytesAreNumbers == Byte \subseteq Nat /\ Seq(Byte) \subseteq Seq(Nat)
<1>1. Byte \subseteq Nat
      BY BaseType DEF Byte
<1>2. ASSUME NEW s \in Seq(Byte)
      PROVE  s \in Seq(Nat)
      BY <1>1, SeqMonotonic
<1>. QED BY <1>1, <1>2

-----------------------------------------------------------------------------
(* Numbers *)
LEMMA Division ==
    ASSUME NEW n \in Nat, NEW b \in Nat, b >= 2
    PROVE  /\ n \div b \in Nat /\ n % b \in 0..(b - 1)
           /\ n = b * (n \div b) + (n % b)
           /\ n # 0 => n \div b < n
<1>. DEFINE q == n \div b
            r == n % b
<1>1. q \in Int /\ r \in Int /\ n = b * q + r /\ 0 <= r /\ r < b
      OBVIOUS
<1>. HIDE DEF q, r
<1>2. q >= 0
  <2>1. SUFFICES ASSUME q <= -1 PROVE FALSE
        BY <1>1
  <2>2. b * q <= b * (-1)
        BY <1>1, <2>1
  <2>. QED BY <1>1, <2>2
<1>3. n # 0 => q < n
  <2>1. SUFFICES ASSUME n # 0, q >= n PROVE FALSE
        BY <1>1
  <2>2. b * q >= 2 * q
        BY <1>1, <1>2
  <2>. QED BY <1>1, <2>1, <2>2
<1>. QED BY <1>1, <1>2, <1>3 DEF q, r

(* The last digit and the rest can be told from the number.                  *)
LEMMA DivisionUnique ==
    ASSUME NEW b \in Nat, b >= 2, NEW x \in Nat, NEW c \in 0..(b - 1), NEW y \in Nat,
           NEW d \in 0..(b - 1), b * x + c = b * y + d
    PROVE  x = y /\ c = d
<1>1. ~(x < y)
  <2>1. SUFFICES ASSUME x + 1 <= y PROVE FALSE
        OBVIOUS
  <2>2. b * (x + 1) <= b * y
        BY <2>1
  <2>3. b * (x + 1) = b * x + b
        OBVIOUS
  <2>. QED BY <2>2, <2>3
<1>2. ~(y < x)
  <2>1. SUFFICES ASSUME y + 1 <= x PROVE FALSE
        OBVIOUS
  <2>2. b * (y + 1) <= b * x
        BY <2>1
  <2>3. b * (y + 1) = b * y + b
        OBVIOUS
  <2>. QED BY <2>2, <2>3
<1>. QED BY <1>1, <1>2

LEMMA DivisionMonotone ==
    ASSUME NEW b \in Nat, b >= 2, NEW m \in Nat, NEW n \in Nat, m <= n
    PROVE  m \div b <= n \div b
<1>. DEFINE x == m \div b
            y == n \div b
            c == m % b
            d == n % b
<1>1. /\ x \in Nat /\ y \in Nat /\ c \in 0..(b - 1) /\ d \in 0..(b - 1)
      /\ m = b * x + c /\ n = b * y + d
      BY Division
<1>. HIDE DEF x, y, c, d
<1>2. SUFFICES ASSUME y + 1 <= x PROVE FALSE
      BY <1>1 DEF x, y
<1>3. b * (y + 1) <= b * x
      BY <1>1, <1>2
<1>4. b * (y + 1) = b * y + b
      BY <1>1
<1>. QED BY <1>1, <1>3, <1>4

LEMMA DigitsAre ==
    /\ Digits \in [Nat -> Seq(Byte)]
    /\ Digits[0] = <<>>
    /\ \A n \in Nat : n # 0 => Digits[n] = Append(Digits[n \div Base], n % Base)
<1>. DEFINE S == Seq(Byte)
            Body(f) == [n \in Nat |-> IF n = 0 THEN <<>> ELSE Append(f[n \div Base], n % Base)]
            step == [n \in Nat |-> [f \in [Nat -> S] |->
                       IF n = 0 THEN <<>> ELSE Append(f[n \div Base], n % Base)]]
<1>1. \A n \in Nat : /\ n \div Base \in Nat /\ n % Base \in Byte
                     /\ n # 0 => n \div Base < n
      BY BaseType, Division DEF Byte
<1>2. step \in [Nat -> [[Nat -> S] -> S]]
  <2>1. ASSUME NEW n \in Nat, NEW f \in [Nat -> S]
        PROVE  (IF n = 0 THEN <<>> ELSE Append(f[n \div Base], n % Base)) \in S
        BY <1>1
  <2>. QED BY <2>1
<1>3. LooksBack(S, step)
  <2>1. ASSUME NEW n \in Nat, NEW f \in [Nat -> S], NEW g \in [Nat -> S],
               \A m \in Nat : m < n => f[m] = g[m]
        PROVE  step[n][f] = step[n][g]
    <3>1. n # 0 => f[n \div Base] = g[n \div Base]
          BY <1>1, <2>1
    <3>. QED BY <3>1
  <2>. HIDE DEF step
  <2>. QED BY <2>1 DEF LooksBack
<1>4. PICK f : Settles(f, S, step)
  <2>1. <<>> \in S
        OBVIOUS
  <2>. HIDE DEF step, S
  <2>. QED BY <1>2, <1>3, <2>1, StrongRecursion
<1>5. f \in [Nat -> S] /\ f = Body(f)
      BY <1>4 DEF Settles
<1>6. Digits = Body(Digits)
      BY <1>5 DEF Digits
<1>. HIDE DEF step
<1>7. Digits[0] = <<>> /\ \A n \in Nat : n # 0 => Digits[n] = Append(Digits[n \div Base], n % Base)
      BY <1>6
<1>. DEFINE P == {n \in Nat : Digits[n] \in S}
<1>8. ASSUME NEW n \in Nat, \A m \in Nat : m < n => m \in P
      PROVE  n \in P
  <2>1. CASE n = 0
    <3>1. <<>> \in S
          OBVIOUS
    <3>. HIDE DEF S
    <3>. QED BY <2>1, <3>1, <1>7
  <2>2. CASE n # 0
    <3>1. n \div Base \in P /\ n % Base \in Byte
          BY <1>1, <1>8, <2>2
    <3>2. Digits[n \div Base] \in S
          BY <3>1
    <3>3. Append(Digits[n \div Base], n % Base) \in S
          BY <3>1, <3>2
    <3>. HIDE DEF S
    <3>. QED BY <3>3, <2>2, <1>7
  <2>. QED BY <2>1, <2>2
<1>9. Nat \subseteq P
  <2>. HIDE DEF P
  <2>. QED BY <1>8, StrongInduction
<1>. QED BY <1>6, <1>7, <1>9

(* A recursive function may stop at a bound.                                 *)
IteratesTo(f, m, S, base, step) ==
    f \in [0..m -> S] /\ f[0] = base /\ \A n \in 1..m : f[n] = step[n][f[n - 1]]

LEMMA RecursionUpTo ==
    ASSUME NEW S, NEW base \in S, NEW m \in Nat, NEW step \in [1..m -> [S -> S]]
    PROVE  \E f : IteratesTo(f, m, S, base, step)
<1>. DEFINE all == [n \in Nat |-> IF n + 1 \in 1..m THEN step[n + 1] ELSE [x \in S |-> x]]
<1>1. all \in [Nat -> [S -> S]]
      OBVIOUS
<1>2. PICK g : Iterates(g, S, base, all)
  <2>. HIDE DEF all
  <2>. QED BY <1>1, NatRecursion
<1>3. g \in [Nat -> S] /\ g[0] = base /\ \A n \in Nat : g[n + 1] = all[n][g[n]]
      BY <1>2 DEF Iterates
<1>. DEFINE f == [n \in 0..m |-> g[n]]
<1>4. f \in [0..m -> S] /\ f[0] = base
      BY <1>3
<1>5. ASSUME NEW n \in 1..m
      PROVE  f[n] = step[n][f[n - 1]]
  <2>1. n - 1 \in Nat /\ (n - 1) + 1 = n /\ n - 1 \in 0..m /\ n \in 0..m
        OBVIOUS
  <2>2. g[(n - 1) + 1] = all[n - 1][g[n - 1]]
        BY <1>3, <2>1
  <2>3. all[n - 1] = step[n]
        BY <2>1
  <2>. HIDE DEF all
  <2>. QED BY <2>1, <2>2, <2>3
<1>. HIDE DEF f
<1>6. IteratesTo(f, m, S, base, step)
      BY <1>4, <1>5 DEF IteratesTo
<1>. QED BY <1>6

LEMMA FromBytesUpTo ==
    ASSUME NEW s \in Seq(Byte)
    PROVE  \E u \in [0..Len(s) -> Nat] : /\ u[0] = 0
                                         /\ \A n \in 1..Len(s) : u[n] = u[n - 1] * Base + s[n]
                                         /\ from_bytes(s) = u[Len(s)]
<1>. DEFINE m == Len(s)
            Body(f) == [n \in 0..m |-> IF n = 0 THEN 0 ELSE f[n - 1] * Base + s[n]]
            step == [n \in 1..m |-> [x \in Nat |-> x * Base + s[n]]]
            u == CHOOSE f : f = Body(f)
<1>1. m \in Nat /\ \A n \in 1..m : s[n] \in Nat
  <2>1. m \in Nat /\ \A n \in 1..m : s[n] \in Byte
        OBVIOUS
  <2>. QED BY <2>1 DEF Byte
<1>2. step \in [1..m -> [Nat -> Nat]]
      BY <1>1, BaseType
<1>3. PICK f : IteratesTo(f, m, Nat, 0, step)
  <2>1. 0 \in Nat
        OBVIOUS
  <2>. HIDE DEF m, step
  <2>. QED BY <1>1, <1>2, <2>1, RecursionUpTo
<1>4. f = Body(f)
  <2>1. ASSUME NEW n \in 0..m, n # 0
        PROVE  f[n] = f[n - 1] * Base + s[n]
    <3>1. n \in 1..m /\ n - 1 \in 0..m
          BY <1>1, <2>1
    <3>2. f[n] = step[n][f[n - 1]] /\ f[n - 1] \in Nat
          BY <1>3, <3>1 DEF IteratesTo
    <3>. HIDE DEF m
    <3>. QED BY <3>1, <3>2
  <2>. HIDE DEF m
  <2>. QED BY <1>3, <2>1 DEF IteratesTo
<1>5. u = Body(u)
      BY <1>4
<1>6. from_bytes(s) = u[m]
      BY DEF from_bytes
<1>. HIDE DEF u, m
<1>7. u[0] = 0 /\ \A n \in 1..m : u[n] = u[n - 1] * Base + s[n]
      BY <1>1, <1>5
<1>. DEFINE P == {n \in Nat : n <= m => u[n] \in Nat}
<1>8. 0 \in P
      BY <1>7
<1>9. ASSUME NEW n \in Nat, n \in P
      PROVE  n + 1 \in P
  <2>1. CASE n + 1 <= m
    <3>1. n + 1 \in 1..m /\ (n + 1) - 1 = n /\ n <= m
          BY <1>1, <2>1
    <3>2. u[n + 1] = u[n] * Base + s[n + 1] /\ u[n] \in Nat
          BY <1>7, <1>9, <3>1
    <3>3. s[n + 1] \in Nat /\ u[n] * Base \in Nat
          BY <1>1, <3>1, <3>2, BaseType
    <3>4. u[n + 1] \in Nat
          BY <3>2, <3>3
    <3>. QED BY <3>4
  <2>. QED BY <2>1
<1>10. Nat \subseteq P
  <2>. HIDE DEF P
  <2>. QED BY <1>8, <1>9, Induction
<1>11. u \in [0..m -> Nat]
  <2>1. \A n \in 0..m : n \in Nat /\ n <= m
        BY <1>1
  <2>2. \A n \in 0..m : u[n] \in Nat
        BY <1>10, <2>1
  <2>. QED BY <1>5, <2>2
<1>. QED BY <1>6, <1>7, <1>11 DEF m

(* A byte more is a digit more.                                              *)
LEMMA FromBytes ==
    /\ from_bytes(<<>>) = 0
    /\ \A s \in Seq(Byte) : from_bytes(s) \in Nat
    /\ \A s \in Seq(Byte), b \in Byte : from_bytes(Append(s, b)) = from_bytes(s) * Base + b
<1>1. from_bytes(<<>>) = 0
  <2>1. <<>> \in Seq(Byte) /\ Len(<<>>) = 0
        OBVIOUS
  <2>. QED BY <2>1, FromBytesUpTo
<1>2. ASSUME NEW s \in Seq(Byte)
      PROVE  from_bytes(s) \in Nat
  <2>1. Len(s) \in 0..Len(s)
        OBVIOUS
  <2>. QED BY <2>1, FromBytesUpTo
<1>3. ASSUME NEW s \in Seq(Byte), NEW b \in Byte
      PROVE  from_bytes(Append(s, b)) = from_bytes(s) * Base + b
  <2>. DEFINE t == Append(s, b)
              m == Len(s)
  <2>1. /\ t \in Seq(Byte) /\ Len(t) = m + 1 /\ t[m + 1] = b /\ m \in Nat
        /\ \A n \in 1..m : t[n] = s[n]
        OBVIOUS
  <2>2. PICK u \in [0..m -> Nat] : /\ u[0] = 0
                                   /\ \A n \in 1..m : u[n] = u[n - 1] * Base + s[n]
                                   /\ from_bytes(s) = u[m]
        BY FromBytesUpTo
  <2>. HIDE DEF t
  <2>3. PICK v \in [0..Len(t) -> Nat] : /\ v[0] = 0
                                        /\ \A n \in 1..Len(t) : v[n] = v[n - 1] * Base + t[n]
                                        /\ from_bytes(t) = v[Len(t)]
        BY <2>1, FromBytesUpTo
  <2>. HIDE DEF m
  <2>. DEFINE P == {n \in Nat : n <= m => u[n] = v[n]}
  <2>4. 0 \in P
        BY <2>2, <2>3
  <2>5. ASSUME NEW n \in Nat, n \in P
        PROVE  n + 1 \in P
    <3>1. CASE n + 1 <= m
      <4>1. n + 1 \in 1..m /\ n + 1 \in 1..Len(t) /\ (n + 1) - 1 = n /\ n <= m
            BY <2>1, <3>1
      <4>2. u[n + 1] = u[n] * Base + s[n + 1] /\ v[n + 1] = v[n] * Base + t[n + 1]
            BY <2>2, <2>3, <4>1
      <4>3. u[n] = v[n] /\ s[n + 1] = t[n + 1]
            BY <2>1, <2>5, <4>1
      <4>. QED BY <4>2, <4>3
    <3>. QED BY <3>1
  <2>6. Nat \subseteq P
    <3>. HIDE DEF P
    <3>. QED BY <2>4, <2>5, Induction
  <2>7. u[m] = v[m]
        BY <2>1, <2>6
  <2>8. m + 1 \in 1..Len(t) /\ (m + 1) - 1 = m
        BY <2>1
  <2>9. v[m + 1] = v[m] * Base + t[m + 1]
        BY <2>3, <2>8
  <2>. QED BY <2>1, <2>2, <2>3, <2>7, <2>9 DEF t
<1>. QED BY <1>1, <1>2, <1>3

(* Digits make the number they were made of, and the first is not 0.         *)
LEMMA DigitsMakeNumber ==
    ASSUME NEW n \in Nat
    PROVE  /\ from_bytes(Digits[n]) = n
           /\ Digits[n] # <<>> => Digits[n][1] # 0
<1>. DEFINE P == {k \in Nat : /\ from_bytes(Digits[k]) = k
                              /\ Digits[k] # <<>> => Digits[k][1] # 0}
<1>1. ASSUME NEW k \in Nat, \A j \in Nat : j < k => j \in P
      PROVE  k \in P
  <2>1. CASE k = 0
        BY <2>1, DigitsAre, FromBytes
  <2>2. CASE k # 0
    <3>. DEFINE q == k \div Base
                r == k % Base
    <3>0. q \in Nat /\ r \in 0..(Base - 1) /\ k = Base * q + r /\ q < k
          BY <2>2, BaseType, Division
    <3>1. q \in Nat /\ r \in Byte /\ k = Base * q + r /\ q < k /\ r \in Nat
      <4>. HIDE DEF q, r
      <4>. QED BY <3>0 DEF Byte
    <3>2. Digits[k] = Append(Digits[q], r) /\ Digits[q] \in Seq(Byte)
          BY <2>2, <3>1, DigitsAre
    <3>3. from_bytes(Digits[q]) = q /\ (Digits[q] # <<>> => Digits[q][1] # 0)
          BY <1>1, <3>1
    <3>. HIDE DEF q, r
    <3>4. from_bytes(Digits[k]) = q * Base + r
          BY <3>1, <3>2, <3>3, FromBytes
    <3>5. q * Base + r = k
          BY <3>1, BaseType
    <3>6. Digits[k][1] # 0
      <4>1. CASE Digits[q] = <<>>
        <5>1. q = 0
              BY <4>1, <3>3, FromBytes
        <5>2. Digits[k] = <<r>>
              BY <4>1, <3>2
        <5>3. r = k
              BY <5>1, <3>1, BaseType
        <5>. QED BY <5>2, <5>3, <2>2
      <4>2. CASE Digits[q] # <<>>
        <5>1. Digits[k][1] = Digits[q][1]
              BY <4>2, <3>2
        <5>. QED BY <5>1, <4>2, <3>3
      <4>. QED BY <4>1, <4>2
    <3>. QED BY <3>4, <3>5, <3>6
  <2>. QED BY <2>1, <2>2
<1>2. Nat \subseteq P
  <2>. HIDE DEF P
  <2>. QED BY <1>1, StrongInduction
<1>. QED BY <1>2

LEMMA DigitsStep ==
    ASSUME NEW n \in Nat, n # 0
    PROVE  /\ n \div Base \in Nat /\ n \div Base < n
           /\ Len(Digits[n \div Base]) \in Nat
           /\ Len(Digits[n]) = Len(Digits[n \div Base]) + 1
<1>1. n \div Base \in Nat /\ n \div Base < n
      BY BaseType, Division
<1>2. Digits[n] = Append(Digits[n \div Base], n % Base) /\ Digits[n \div Base] \in Seq(Byte)
      BY <1>1, DigitsAre
<1>. QED BY <1>1, <1>2

(* A smaller number has no more digits.                                      *)
LEMMA DigitsMonotone ==
    ASSUME NEW m \in Nat, NEW n \in Nat, m <= n
    PROVE  Len(Digits[m]) <= Len(Digits[n])
<1>. DEFINE P == {k \in Nat : \A j \in Nat : j <= k => Len(Digits[j]) <= Len(Digits[k])}
<1>1. ASSUME NEW k \in Nat, \A j \in Nat : j < k => j \in P
      PROVE  k \in P
  <2>1. SUFFICES ASSUME NEW j \in Nat, j <= k
                 PROVE  Len(Digits[j]) <= Len(Digits[k])
        OBVIOUS
  <2>2. CASE j = 0
    <3>1. Digits[j] = <<>> /\ Digits[k] \in Seq(Byte)
          BY <2>2, DigitsAre
    <3>. QED BY <3>1
  <2>3. CASE j # 0
    <3>. DEFINE x == j \div Base
                y == k \div Base
    <3>1. /\ x \in Nat /\ y \in Nat /\ y < k
          /\ Len(Digits[j]) = Len(Digits[x]) + 1 /\ Len(Digits[k]) = Len(Digits[y]) + 1
          /\ Len(Digits[x]) \in Nat /\ Len(Digits[y]) \in Nat
          BY <2>1, <2>3, DigitsStep
    <3>2. x <= y
          BY <2>1, BaseType, DivisionMonotone
    <3>. HIDE DEF x, y
    <3>3. Len(Digits[x]) <= Len(Digits[y])
          BY <1>1, <3>1, <3>2
    <3>. QED BY <3>1, <3>3
  <2>. QED BY <2>2, <2>3
<1>2. Nat \subseteq P
  <2>. HIDE DEF P
  <2>. QED BY <1>1, StrongInduction
<1>. QED BY <1>2

(* A length has a digit and, up to the bound, fits into a prefix.            *)
LEMMA LengthDigits ==
    ASSUME NEW n \in Nat, n # 0
    PROVE  /\ encode_length(n) = Digits[n] /\ Digits[n] \in Seq(Byte)
           /\ Len(Digits[n]) \in Nat /\ Len(Digits[n]) >= 1
           /\ n <= MaxEncoding => Len(Digits[n]) <= LENGTHS
<1>1. encode_length(n) = Digits[n] /\ Digits[n] \in Seq(Byte)
      BY DigitsAre DEF encode_length
<1>2. Len(Digits[n]) \in Nat /\ Len(Digits[n]) >= 1
      BY DigitsStep
<1>3. ASSUME n <= MaxEncoding
      PROVE  Len(Digits[n]) <= LENGTHS
  <2>1. Len(Digits[n]) <= Len(Digits[MaxEncoding])
        BY <1>3, DigitsMonotone, Layout
  <2>2. Digits[MaxEncoding] \in Seq(Byte)
        BY Layout, DigitsAre
  <2>3. Len(Digits[MaxEncoding]) \in Nat
        BY <2>2
  <2>. QED BY <1>2, <2>1, <2>3, Layout
<1>. QED BY <1>1, <1>2, <1>3

(* The digits of what bytes stand for are these bytes, or fewer.             *)
LEMMA FewestDigits ==
    ASSUME NEW s \in Seq(Byte)
    PROVE  /\ Len(Digits[from_bytes(s)]) <= Len(s)
           /\ Len(Digits[from_bytes(s)]) = Len(s) => Digits[from_bytes(s)] = s
<1>. DEFINE Good(t) == /\ Len(Digits[from_bytes(t)]) <= Len(t)
                       /\ Len(Digits[from_bytes(t)]) = Len(t) => Digits[from_bytes(t)] = t
            P == {n \in Nat : \A t \in Seq(Byte) : Len(t) = n => Good(t)}
<1>1. 0 \in P
  <2>1. SUFFICES ASSUME NEW t \in Seq(Byte), Len(t) = 0
                 PROVE  Good(t)
        OBVIOUS
  <2>2. t = <<>>
        BY <2>1
  <2>3. Digits[from_bytes(t)] = <<>>
        BY <2>2, FromBytes, DigitsAre
  <2>. QED BY <2>2, <2>3
<1>2. ASSUME NEW n \in Nat, n \in P
      PROVE  n + 1 \in P
  <2>1. SUFFICES ASSUME NEW t \in Seq(Byte), Len(t) = n + 1
                 PROVE  Good(t)
        OBVIOUS
  <2>. DEFINE s0 == SubSeq(t, 1, n)
              b == t[n + 1]
              v == from_bytes(s0)
  <2>2. s0 \in Seq(Byte) /\ Len(s0) = n /\ b \in Byte /\ t = Append(s0, b)
        BY <2>1
  <2>. HIDE DEF s0, b
  <2>3. v \in Nat /\ from_bytes(t) = v * Base + b /\ b \in Nat /\ b \in 0..(Base - 1)
        BY <2>2, FromBytes DEF Byte
  <2>4. Good(s0)
        BY <1>2, <2>2
  <2>. HIDE DEF v
  <2>. DEFINE w == v * Base + b
  <2>5. w \in Nat
        BY <2>3, BaseType
  <2>6. CASE w = 0
    <3>1. Digits[from_bytes(t)] = <<>>
          BY <2>6, <2>3, DigitsAre
    <3>. QED BY <3>1, <2>1
  <2>7. CASE w # 0
    <3>1. w \div Base = v /\ w % Base = b
      <4>. DEFINE q == w \div Base
                  r == w % Base
      <4>1. q \in Nat /\ r \in 0..(Base - 1) /\ w = Base * q + r
            BY <2>5, BaseType, Division
      <4>2. w = Base * v + b
            BY <2>3, BaseType
      <4>. HIDE DEF q, r, w
      <4>3. Base * q + r = Base * v + b
            BY <4>1, <4>2
      <4>4. q = v /\ r = b
            BY <4>1, <4>3, <2>3, BaseType, DivisionUnique
      <4>. QED BY <4>4 DEF q, r
    <3>. HIDE DEF w
    <3>2. Digits[w] = Append(Digits[v], b) /\ Digits[v] \in Seq(Byte)
          BY <3>1, <2>3, <2>5, <2>7, DigitsAre
    <3>3. Len(Digits[w]) = Len(Digits[v]) + 1 /\ Len(Digits[v]) \in Nat
          BY <3>2
    <3>4. Len(Digits[v]) <= n /\ (Len(Digits[v]) = n => Digits[v] = s0)
          BY <2>2, <2>4 DEF v
    <3>5. Len(Digits[w]) <= n + 1
          BY <2>2, <3>3, <3>4
    <3>6. ASSUME Len(Digits[w]) = n + 1
          PROVE  Digits[w] = t
      <4>1. Len(Digits[v]) = n
            BY <2>2, <3>3, <3>6
      <4>. QED BY <2>2, <3>2, <3>4, <4>1
    <3>7. Good(t)
          BY <2>1, <2>3, <3>5, <3>6 DEF w
    <3>. QED BY <3>7
  <2>. QED BY <2>6, <2>7
<1>3. Nat \subseteq P
  <2>. HIDE DEF P
  <2>. QED BY <1>1, <1>2, Induction
<1>4. Len(s) \in P
      BY <1>3
<1>. QED BY <1>4

-----------------------------------------------------------------------------
(* Items and their encodings *)
LEMMA ItemsAre ==
    /\ Items[0] = Strings
    /\ \A d \in 1..MaxDepth : Items[d] = Strings \cup [items : Seq(Items[d - 1])]
<1>. DEFINE Level(f, d) == IF d = 0 THEN Strings ELSE Strings \cup [items : Seq(f[d - 1])]
            Upto(n, g) == g = [d \in 0..n |-> Level(g, d)]
            P == {n \in Nat : \E g : Upto(n, g)}
<1>1. 0 \in P
  <2>1. Upto(0, [d \in 0..0 |-> Strings])
        OBVIOUS
  <2>. QED BY <2>1
<1>2. ASSUME NEW n \in Nat, n \in P
      PROVE  n + 1 \in P
  <2>1. PICK g : Upto(n, g)
        BY <1>2
  <2>. DEFINE h == [d \in 0..(n + 1) |-> IF d = n + 1 THEN Level(g, n + 1) ELSE g[d]]
  <2>2. \A d \in 0..(n + 1) : d # 0 => h[d - 1] = g[d - 1]
        OBVIOUS
  <2>3. \A d \in 0..(n + 1) : h[d] = Level(g, d)
    <3>. HIDE DEF Level
    <3>1. \A d \in 0..n : g[d] = Level(g, d)
          BY <2>1
    <3>2. \A d \in 0..(n + 1) : d # n + 1 => d \in 0..n
          OBVIOUS
    <3>. QED BY <3>1, <3>2
  <2>4. \A d \in 0..(n + 1) : h[d] = Level(h, d)
    <3>. HIDE DEF h
    <3>. QED BY <2>2, <2>3
  <2>5. h = [d \in 0..(n + 1) |-> h[d]]
        OBVIOUS
  <2>. HIDE DEF h, Level
  <2>6. Upto(n + 1, h)
        BY <2>4, <2>5
  <2>. QED BY <2>6
<1>3. Nat \subseteq P
  <2>. HIDE DEF P
  <2>. QED BY <1>1, <1>2, Induction
<1>4. \E g : Upto(MaxDepth, g)
  <2>1. MaxDepth \in P
        BY <1>3, Layout
  <2>. HIDE DEF Upto
  <2>. QED BY <2>1
<1>5. Upto(MaxDepth, Items)
      BY <1>4 DEF Items
<1>6. \A d \in 1..MaxDepth : d # 0 /\ d \in 0..MaxDepth
      BY Layout
<1>. QED BY <1>5, <1>6, Layout

(* What is what.                                                             *)
LEMMA ItemKinds ==
    /\ \A d \in 0..MaxDepth : Strings \subseteq Items[d]
    /\ \A s \in Strings : IsString(s) /\ s.bytes \in Seq(Byte) /\ s = String(s.bytes)
    /\ \A s \in Seq(Byte) : String(s) \in Strings
    /\ \A d \in 0..MaxDepth : \A i \in Items[d] : IsString(i) => i \in Strings
    /\ \A d \in 0..MaxDepth : \A i \in Items[d] : ~IsString(i) =>
          d \in 1..MaxDepth /\ i.items \in Seq(Items[d - 1]) /\ i = List(i.items)
    /\ \A d \in 1..MaxDepth : \A s \in Seq(Items[d - 1]) : List(s) \in Items[d]
    /\ \A s : ~IsString(List(s)) /\ List(s).items = s
    /\ \A s : IsString(String(s)) /\ String(s).bytes = s
<1>1. \A d \in 0..MaxDepth : d = 0 \/ d \in 1..MaxDepth
      BY Layout
<1>2. \A s : ~IsString(List(s)) /\ List(s).items = s /\ IsString(String(s)) /\ String(s).bytes = s
      BY DEF IsString, List, String
<1>3. \A s \in Strings : IsString(s) /\ s.bytes \in Seq(Byte) /\ s = String(s.bytes)
      BY DEF Strings, IsString, String
<1>4. \A s \in Seq(Byte) : String(s) \in Strings
      BY DEF Strings, String
<1>5. ASSUME NEW d \in 1..MaxDepth
      PROVE  \A i \in [items : Seq(Items[d - 1])] :
                ~IsString(i) /\ i.items \in Seq(Items[d - 1]) /\ i = List(i.items)
      BY DEF IsString, List
<1>6. ASSUME NEW d \in 1..MaxDepth
      PROVE  \A s \in Seq(Items[d - 1]) : List(s) \in [items : Seq(Items[d - 1])]
      BY DEF List
<1>7. \A d \in 0..MaxDepth : Strings \subseteq Items[d]
      BY <1>1, ItemsAre
<1>8. \A d \in 0..MaxDepth : \A i \in Items[d] :
         i \in Strings \/ (d \in 1..MaxDepth /\ i \in [items : Seq(Items[d - 1])])
      BY <1>1, ItemsAre
<1>9. \A d \in 0..MaxDepth : \A i \in Items[d] : IsString(i) => i \in Strings
      BY <1>5, <1>8
<1>10. \A d \in 0..MaxDepth : \A i \in Items[d] : ~IsString(i) =>
          d \in 1..MaxDepth /\ i.items \in Seq(Items[d - 1]) /\ i = List(i.items)
       BY <1>3, <1>5, <1>8
<1>11. \A d \in 1..MaxDepth : \A s \in Seq(Items[d - 1]) : List(s) \in Items[d]
       BY <1>6, ItemsAre
<1>. QED BY <1>2, <1>3, <1>4, <1>7, <1>9, <1>10, <1>11

(* What is nested less deeply is an item, too.                               *)
LEMMA ItemsGrow ==
    ASSUME NEW d \in 0..MaxDepth, NEW e \in 0..MaxDepth, d <= e
    PROVE  Items[d] \subseteq Items[e]
<1>. DEFINE P == {n \in Nat : n < MaxDepth => Items[n] \subseteq Items[n + 1]}
<1>1. 0 \in P
  <2>1. 0 < MaxDepth => 0 + 1 \in 0..MaxDepth
        BY Layout
  <2>2. 0 < MaxDepth => Items[0] \subseteq Items[0 + 1]
        BY <2>1, ItemKinds, ItemsAre
  <2>. QED BY <2>2
<1>2. ASSUME NEW n \in Nat, n \in P
      PROVE  n + 1 \in P
  <2>1. CASE n + 1 < MaxDepth
    <3>1. /\ n + 1 \in 1..MaxDepth /\ (n + 1) + 1 \in 1..MaxDepth
          /\ (n + 1) - 1 = n /\ ((n + 1) + 1) - 1 = n + 1
          BY <2>1, Layout
    <3>2. Items[n] \subseteq Items[n + 1]
          BY <1>2, <2>1, Layout
    <3>3. Seq(Items[n]) \subseteq Seq(Items[n + 1])
          BY <3>2
    <3>4. [items : Seq(Items[n])] \subseteq [items : Seq(Items[n + 1])]
          BY <3>3
    <3>5. /\ Items[n + 1] = Strings \cup [items : Seq(Items[n])]
          /\ Items[(n + 1) + 1] = Strings \cup [items : Seq(Items[n + 1])]
          BY <3>1, ItemsAre
    <3>6. Items[n + 1] \subseteq Items[(n + 1) + 1]
          BY <3>4, <3>5
    <3>. QED BY <3>6
  <2>. QED BY <2>1
<1>3. Nat \subseteq P
  <2>. HIDE DEF P
  <2>. QED BY <1>1, <1>2, Induction
<1>. DEFINE Q == {n \in Nat : d + n <= MaxDepth => Items[d] \subseteq Items[d + n]}
<1>4. 0 \in Q
  <2>1. d + 0 = d
        OBVIOUS
  <2>. QED BY <2>1
<1>5. ASSUME NEW n \in Nat, n \in Q
      PROVE  n + 1 \in Q
  <2>1. CASE d + (n + 1) <= MaxDepth
    <3>1. d + n \in Nat /\ d + n < MaxDepth /\ d + (n + 1) = (d + n) + 1
          BY <2>1, Layout
    <3>2. Items[d + n] \subseteq Items[(d + n) + 1] /\ Items[d] \subseteq Items[d + n]
          BY <1>3, <1>5, <3>1, Layout
    <3>. QED BY <3>1, <3>2
  <2>. QED BY <2>1
<1>6. Nat \subseteq Q
  <2>. HIDE DEF Q
  <2>. QED BY <1>4, <1>5, Induction
<1>7. e - d \in Nat /\ d + (e - d) = e /\ e <= MaxDepth
      BY Layout
<1>8. e - d \in Q
      BY <1>6, <1>7
<1>. QED BY <1>7, <1>8

LEMMA EncodingsAre ==
    \A d \in 0..MaxDepth :
       Encodings[d] = [i \in Items[d] |-> IF IsString(i) THEN encode_string(i.bytes)
                                          ELSE encode_list(i.items, Encodings[d - 1])]
<1>. DEFINE Level(f, d) == [i \in Items[d] |-> IF IsString(i) THEN encode_string(i.bytes)
                                               ELSE encode_list(i.items, f[d - 1])]
            Upto(n, g) == g = [d \in 0..n |-> Level(g, d)]
            P == {n \in Nat : n <= MaxDepth => \E g : Upto(n, g)}
<1>0. ASSUME NEW d \in 0..MaxDepth, NEW f, NEW g, d # 0 => f[d - 1] = g[d - 1]
      PROVE  Level(f, d) = Level(g, d)
  <2>1. CASE d = 0
    <3>1. \A i \in Items[d] : IsString(i)
          BY <2>1, ItemsAre, ItemKinds
    <3>. QED BY <3>1
  <2>2. CASE d # 0
        BY <1>0, <2>2
  <2>. QED BY <2>1, <2>2
<1>1. 0 \in P
  <2>. DEFINE g == [d \in 0..0 |-> [i \in Items[d] |-> encode_string(i.bytes)]]
  <2>1. ASSUME NEW d \in 0..0
        PROVE  g[d] = Level(g, d)
    <3>1. d = 0
          OBVIOUS
    <3>2. \A i \in Items[0] : IsString(i)
          BY ItemsAre, ItemKinds
    <3>. QED BY <3>1, <3>2
  <2>2. g = [d \in 0..0 |-> g[d]]
        OBVIOUS
  <2>. HIDE DEF g, Level
  <2>3. Upto(0, g)
        BY <2>1, <2>2
  <2>. QED BY <2>3
<1>2. ASSUME NEW n \in Nat, n \in P
      PROVE  n + 1 \in P
  <2>1. CASE n + 1 <= MaxDepth
    <3>1. PICK g : Upto(n, g)
          BY <1>2, <2>1, Layout
    <3>. DEFINE h == [d \in 0..(n + 1) |-> IF d = n + 1 THEN Level(g, n + 1) ELSE g[d]]
    <3>2. \A d \in 0..(n + 1) : d # 0 => h[d - 1] = g[d - 1]
          OBVIOUS
    <3>. HIDE DEF Level
    <3>3. \A d \in 0..(n + 1) : h[d] = Level(g, d)
      <4>1. \A d \in 0..n : g[d] = Level(g, d)
            BY <3>1
      <4>. QED BY <4>1
    <3>4. \A d \in 0..(n + 1) : h[d] = Level(h, d)
      <4>1. \A d \in 0..(n + 1) : d \in 0..MaxDepth
            BY <2>1, Layout
      <4>. HIDE DEF h
      <4>. QED BY <1>0, <3>2, <3>3, <4>1
    <3>5. h = [d \in 0..(n + 1) |-> h[d]]
          OBVIOUS
    <3>. HIDE DEF h
    <3>6. Upto(n + 1, h)
          BY <3>4, <3>5
    <3>. QED BY <3>6
  <2>. QED BY <2>1
<1>3. Nat \subseteq P
  <2>. HIDE DEF P
  <2>. QED BY <1>1, <1>2, Induction
<1>4. \E g : Upto(MaxDepth, g)
  <2>1. MaxDepth \in Nat /\ MaxDepth <= MaxDepth
        BY Layout
  <2>2. MaxDepth \in P
    <3>. HIDE DEF P
    <3>. QED BY <1>3, <2>1
  <2>. HIDE DEF Upto
  <2>. QED BY <2>1, <2>2
<1>5. Upto(MaxDepth, Encodings)
      BY <1>4 DEF Encodings
<1>. QED BY <1>5

(* A list's payload: an item more is an encoding more.                       *)
LEMMA PayloadUpTo ==
    ASSUME NEW T, NEW e \in [T -> Seq(Nat)], NEW s \in Seq(T)
    PROVE  \E u \in [0..Len(s) -> Seq(Nat)] :
              /\ u[0] = <<>>
              /\ \A n \in 1..Len(s) : u[n] = u[n - 1] \o e[s[n]]
              /\ Payload(s, e) = u[Len(s)]
<1>. DEFINE m == Len(s)
            Bytes == Seq(Nat)
            Body(f) == [n \in 0..m |-> IF n = 0 THEN <<>> ELSE f[n - 1] \o e[s[n]]]
            step == [n \in 1..m |-> [x \in Bytes |-> x \o e[s[n]]]]
            u == CHOOSE f : f = Body(f)
<1>1. m \in Nat /\ \A n \in 1..m : e[s[n]] \in Bytes
      OBVIOUS
<1>2. step \in [1..m -> [Bytes -> Bytes]]
      BY <1>1
<1>3. PICK f : IteratesTo(f, m, Bytes, <<>>, step)
  <2>1. <<>> \in Bytes
        OBVIOUS
  <2>. HIDE DEF m, step, Bytes
  <2>. QED BY <1>1, <1>2, <2>1, RecursionUpTo
<1>4. f = Body(f)
  <2>1. ASSUME NEW n \in 0..m, n # 0
        PROVE  f[n] = f[n - 1] \o e[s[n]]
    <3>1. n \in 1..m /\ n - 1 \in 0..m
          BY <1>1, <2>1
    <3>. HIDE DEF step
    <3>2. f[n] = step[n][f[n - 1]] /\ f[n - 1] \in Bytes
          BY <1>3, <3>1 DEF IteratesTo
    <3>. HIDE DEF m, Bytes
    <3>. QED BY <3>1, <3>2 DEF step
  <2>. HIDE DEF m, step, Bytes
  <2>. QED BY <1>3, <2>1 DEF IteratesTo
<1>5. u = Body(u)
      BY <1>4
<1>6. Payload(s, e) = u[m]
      BY DEF Payload
<1>. HIDE DEF u, m
<1>7. u[0] = <<>> /\ \A n \in 1..m : u[n] = u[n - 1] \o e[s[n]]
  <2>1. 0 \in 0..m /\ \A n \in 1..m : n \in 0..m /\ n # 0
        BY <1>1
  <2>2. \A n \in 0..m : u[n] = IF n = 0 THEN <<>> ELSE u[n - 1] \o e[s[n]]
        BY <1>5, Zenon
  <2>. QED BY <2>1, <2>2, Zenon
<1>. DEFINE P == {n \in Nat : n <= m => u[n] \in Bytes}
<1>8. 0 \in P
  <2>1. u[0] \in Bytes
        BY <1>7
  <2>. HIDE DEF Bytes
  <2>. QED BY <2>1
<1>9. ASSUME NEW n \in Nat, n \in P
      PROVE  n + 1 \in P
  <2>1. CASE n + 1 <= m
    <3>1. n + 1 \in 1..m /\ (n + 1) - 1 = n /\ n <= m
          BY <1>1, <2>1
    <3>2. u[n + 1] = u[n] \o e[s[n + 1]] /\ u[n] \in Bytes
          BY <1>7, <1>9, <3>1
    <3>3. e[s[n + 1]] \in Bytes
          BY <1>1, <3>1
    <3>4. u[n] \o e[s[n + 1]] \in Bytes
          BY <3>2, <3>3
    <3>5. u[n + 1] \in Bytes
          BY <3>2, <3>4, Zenon
    <3>. HIDE DEF Bytes
    <3>. QED BY <3>5
  <2>. QED BY <2>1
<1>10. Nat \subseteq P
  <2>. HIDE DEF P
  <2>. QED BY <1>8, <1>9, Induction
<1>11. u \in [0..m -> Bytes]
  <2>1. \A n \in 0..m : n \in Nat /\ n <= m
        BY <1>1
  <2>. HIDE DEF Bytes
  <2>2. \A n \in 0..m : u[n] \in Bytes
        BY <1>10, <2>1
  <2>. QED BY <1>5, <2>2
<1>. QED BY <1>6, <1>7, <1>11 DEF m

LEMMA Payloads ==
    ASSUME NEW T, NEW e \in [T -> Seq(Nat)]
    PROVE  /\ Payload(<<>>, e) = <<>>
           /\ \A s \in Seq(T) : Payload(s, e) \in Seq(Nat)
           /\ \A s \in Seq(T), x \in T : Payload(Append(s, x), e) = Payload(s, e) \o e[x]
<1>1. Payload(<<>>, e) = <<>>
  <2>. DEFINE s == <<>>
  <2>1. s \in Seq(T) /\ Len(s) = 0
        OBVIOUS
  <2>. HIDE DEF s
  <2>2. PICK u \in [0..Len(s) -> Seq(Nat)] :
              /\ u[0] = <<>>
              /\ \A n \in 1..Len(s) : u[n] = u[n - 1] \o e[s[n]]
              /\ Payload(s, e) = u[Len(s)]
        BY <2>1, PayloadUpTo, ZenonT(60)
  <2>. QED BY <2>1, <2>2, Zenon DEF s
<1>2. ASSUME NEW s \in Seq(T)
      PROVE  Payload(s, e) \in Seq(Nat)
  <2>1. Len(s) \in 0..Len(s)
        OBVIOUS
  <2>2. PICK u \in [0..Len(s) -> Seq(Nat)] : Payload(s, e) = u[Len(s)]
        BY PayloadUpTo
  <2>. QED BY <2>1, <2>2, Zenon
<1>3. ASSUME NEW s \in Seq(T), NEW x \in T
      PROVE  Payload(Append(s, x), e) = Payload(s, e) \o e[x]
  <2>. DEFINE t == Append(s, x)
              m == Len(s)
  <2>1. /\ t \in Seq(T) /\ Len(t) = m + 1 /\ t[m + 1] = x /\ m \in Nat
        /\ \A n \in 1..m : t[n] = s[n]
        OBVIOUS
  <2>2. PICK u \in [0..m -> Seq(Nat)] : /\ u[0] = <<>>
                                        /\ \A n \in 1..m : u[n] = u[n - 1] \o e[s[n]]
                                        /\ Payload(s, e) = u[m]
        BY PayloadUpTo
  <2>. HIDE DEF t
  <2>3. PICK v \in [0..Len(t) -> Seq(Nat)] : /\ v[0] = <<>>
                                             /\ \A n \in 1..Len(t) : v[n] = v[n - 1] \o e[t[n]]
                                             /\ Payload(t, e) = v[Len(t)]
        BY <2>1, PayloadUpTo
  <2>. HIDE DEF m
  <2>. DEFINE P == {n \in Nat : n <= m => u[n] = v[n]}
  <2>4. 0 \in P
        BY <2>2, <2>3
  <2>5. ASSUME NEW n \in Nat, n \in P
        PROVE  n + 1 \in P
    <3>1. CASE n + 1 <= m
      <4>1. n + 1 \in 1..m /\ n + 1 \in 1..Len(t) /\ (n + 1) - 1 = n /\ n <= m
            BY <2>1, <3>1
      <4>2. u[n + 1] = u[n] \o e[s[n + 1]] /\ v[n + 1] = v[n] \o e[t[n + 1]]
            BY <2>2, <2>3, <4>1
      <4>3. u[n] = v[n] /\ s[n + 1] = t[n + 1]
            BY <2>1, <2>5, <4>1
      <4>4. u[n + 1] = v[n + 1]
            BY <4>2, <4>3, Zenon
      <4>. QED BY <4>4
    <3>. QED BY <3>1
  <2>6. Nat \subseteq P
    <3>. HIDE DEF P
    <3>. QED BY <2>4, <2>5, Induction
  <2>7. u[m] = v[m]
        BY <2>1, <2>6
  <2>8. m + 1 \in 1..Len(t) /\ (m + 1) - 1 = m
        BY <2>1
  <2>9. v[m + 1] = v[m] \o e[t[m + 1]]
        BY <2>3, <2>8
  <2>. QED BY <2>1, <2>2, <2>3, <2>7, <2>9 DEF t
<1>. QED BY <1>1, <1>2, <1>3

(* A prefix and, after 55 bytes, a length come before a payload.             *)
LEMMA PrefixedType ==
    ASSUME NEW short \in Nat, NEW long \in Nat, NEW payload \in Seq(Nat)
    PROVE  /\ Prefixed(short, long, payload) \in Seq(Nat)
           /\ Len(Prefixed(short, long, payload)) >= Len(payload) + 1
<1>1. CASE Len(payload) <= SHORT
      BY <1>1 DEF Prefixed
<1>2. CASE Len(payload) > SHORT
  <2>. DEFINE ds == Digits[Len(payload)]
  <2>1. encode_length(Len(payload)) = ds /\ ds \in Seq(Byte) /\ Len(ds) \in Nat /\ Len(ds) >= 1
        BY <1>2, Layout, LengthDigits
  <2>2. ds \in Seq(Nat)
        BY <2>1, BytesAreNumbers
  <2>. HIDE DEF ds
  <2>3. Prefixed(short, long, payload) = <<long + Len(ds)>> \o ds \o payload
        BY <1>2, <2>1, Layout, SMTT(30) DEF Prefixed
  <2>. QED BY <2>1, <2>2, <2>3
<1>. QED BY <1>1, <1>2, Layout

LEMMA EncodeStringType ==
    ASSUME NEW s \in Seq(Byte)
    PROVE  encode_string(s) \in Seq(Nat) /\ Len(encode_string(s)) >= 1
<1>1. s \in Seq(Nat)
      BY BytesAreNumbers
<1>2. STRING0 \in Nat /\ LONGSTRING \in Nat
      BY Layout
<1>. QED BY <1>1, <1>2, PrefixedType DEF encode_string

LEMMA EncodingsType ==
    ASSUME NEW d \in 0..MaxDepth
    PROVE  /\ Encodings[d] \in [Items[d] -> Seq(Nat)]
           /\ \A i \in Items[d] : Len(Encodings[d][i]) >= 1
<1>. DEFINE Good(n) == /\ Encodings[n] \in [Items[n] -> Seq(Nat)]
                       /\ \A i \in Items[n] : Len(Encodings[n][i]) >= 1
            P == {n \in Nat : n <= MaxDepth => Good(n)}
<1>1. ASSUME NEW n \in 0..MaxDepth, n # 0 => Good(n - 1)
      PROVE  Good(n)
  <2>1. ASSUME NEW i \in Items[n]
        PROVE  Encodings[n][i] \in Seq(Nat) /\ Len(Encodings[n][i]) >= 1
    <3>1. CASE IsString(i)
      <4>1. i.bytes \in Seq(Byte) /\ Encodings[n][i] = encode_string(i.bytes)
        <5>1. i.bytes \in Seq(Byte)
              BY <3>1, ItemKinds
        <5>2. Encodings[n][i] = encode_string(i.bytes)
              BY <3>1, EncodingsAre
        <5>. QED BY <5>1, <5>2
      <4>. QED BY <4>1, EncodeStringType
    <3>2. CASE ~IsString(i)
      <4>0. n \in 1..MaxDepth /\ i.items \in Seq(Items[n - 1])
            BY <3>2, ItemKinds
      <4>1. /\ n # 0 /\ i.items \in Seq(Items[n - 1])
            /\ Encodings[n][i] = encode_list(i.items, Encodings[n - 1])
        <5>1. Encodings[n][i] = encode_list(i.items, Encodings[n - 1])
              BY <3>2, EncodingsAre
        <5>. QED BY <4>0, <5>1, Layout
      <4>2. Encodings[n - 1] \in [Items[n - 1] -> Seq(Nat)]
            BY <1>1, <4>1
      <4>3. Payload(i.items, Encodings[n - 1]) \in Seq(Nat)
            BY <4>1, <4>2, Payloads
      <4>4. LIST0 \in Nat /\ LONGLIST \in Nat
            BY Layout
      <4>. QED BY <4>1, <4>3, <4>4, PrefixedType DEF encode_list
    <3>. QED BY <3>1, <3>2
  <2>2. \E f : Encodings[n] = [i \in Items[n] |-> f[i]]
    <3>1. Encodings[n] = [i \in Items[n] |-> Encodings[n][i]]
          BY EncodingsAre
    <3>. QED BY <3>1
  <2>. QED BY <2>1, <2>2
<1>. HIDE DEF Good
<1>2. 0 \in P
      BY <1>1, Layout
<1>3. ASSUME NEW n \in Nat, n \in P
      PROVE  n + 1 \in P
  <2>1. CASE n + 1 <= MaxDepth
    <3>1. n + 1 \in 0..MaxDepth /\ (n + 1) - 1 = n /\ n <= MaxDepth
          BY <2>1, Layout
    <3>2. Good(n)
          BY <1>3, <3>1
    <3>3. Good(n + 1)
          BY <1>1, <3>1, <3>2
    <3>. QED BY <3>3
  <2>. QED BY <2>1
<1>4. Nat \subseteq P
  <2>. HIDE DEF P
  <2>. QED BY <1>2, <1>3, Induction
<1>5. d \in Nat /\ d <= MaxDepth
      BY Layout
<1>6. Good(d)
      BY <1>4, <1>5
<1>. QED BY <1>6 DEF Good

-----------------------------------------------------------------------------
(* Reading at an offset *)
At(bytes, offset) == Decodings(bytes)[Len(bytes) - offset]

Later(bytes, offset) == [p \in (offset + 1)..Len(bytes) |-> At(bytes, p)]

LEMMA Reading ==
    ASSUME NEW bytes, Len(bytes) \in Nat, NEW offset \in 0..Len(bytes)
    PROVE  At(bytes, offset) = decode_item(bytes, Later(bytes, offset), offset)
<1>. DEFINE L == Len(bytes)
            Rest(f, n) == [p \in (L - n + 1)..L |-> f[L - p]]
            Level(f, n) == decode_item(bytes, Rest(f, n), L - n)
            Upto(n, g) == g = [k \in 0..n |-> Level(g, k)]
            P == {n \in Nat : \E g : Upto(n, g)}
<1>0. ASSUME NEW n \in Nat, NEW f, NEW g, \A k \in Nat : k < n => f[k] = g[k]
      PROVE  Level(f, n) = Level(g, n)
  <2>1. \A p \in (L - n + 1)..L : L - p \in Nat /\ L - p < n
        OBVIOUS
  <2>2. Rest(f, n) = Rest(g, n)
        BY <1>0, <2>1
  <2>. HIDE DEF Rest
  <2>. QED BY <2>2
<1>. HIDE DEF L, Level
<1>1. 0 \in P
  <2>. DEFINE g == [k \in 0..0 |-> Level(bytes, k)]
  <2>1. ASSUME NEW k \in 0..0
        PROVE  g[k] = Level(g, k)
    <3>1. k \in Nat /\ \A j \in Nat : ~(j < k)
          OBVIOUS
    <3>. HIDE DEF g
    <3>2. Level(bytes, k) = Level(g, k)
          BY <1>0, <3>1
    <3>. QED BY <3>2 DEF g
  <2>2. g = [k \in 0..0 |-> g[k]]
        OBVIOUS
  <2>. HIDE DEF g
  <2>3. Upto(0, g)
        BY <2>1, <2>2
  <2>. QED BY <2>3
<1>2. ASSUME NEW n \in Nat, n \in P
      PROVE  n + 1 \in P
  <2>1. PICK g : Upto(n, g)
        BY <1>2
  <2>. DEFINE h == [k \in 0..(n + 1) |-> IF k = n + 1 THEN Level(g, n + 1) ELSE g[k]]
  <2>2. \A k \in 0..(n + 1) : \A j \in Nat : j < k => h[j] = g[j]
        OBVIOUS
  <2>3. \A k \in 0..(n + 1) : h[k] = Level(g, k)
    <3>1. \A k \in 0..n : g[k] = Level(g, k)
          BY <2>1
    <3>2. \A k \in 0..(n + 1) : k # n + 1 => k \in 0..n
          OBVIOUS
    <3>. QED BY <3>1, <3>2
  <2>4. \A k \in 0..(n + 1) : h[k] = Level(h, k)
    <3>1. \A k \in 0..(n + 1) : k \in Nat
          OBVIOUS
    <3>. HIDE DEF h
    <3>. QED BY <1>0, <2>2, <2>3, <3>1
  <2>5. h = [k \in 0..(n + 1) |-> h[k]]
        OBVIOUS
  <2>. HIDE DEF h
  <2>6. Upto(n + 1, h)
        BY <2>4, <2>5
  <2>. QED BY <2>6
<1>3. Nat \subseteq P
  <2>. HIDE DEF P
  <2>. QED BY <1>1, <1>2, Induction
<1>4. \E g : Upto(L, g)
  <2>1. L \in P
        BY <1>3 DEF L
  <2>. HIDE DEF Upto
  <2>. QED BY <2>1
<1>5. Upto(L, Decodings(bytes))
  <2>. DEFINE R == CHOOSE g : Upto(L, g)
  <2>1. Upto(L, R)
        BY <1>4
  <2>2. Decodings(bytes) = R
        BY DEF Decodings, Level, L
  <2>. HIDE DEF R, Upto
  <2>. QED BY <2>1, <2>2
<1>6. L - offset \in 0..L
      BY DEF L
<1>7. Decodings(bytes)[L - offset] = Level(Decodings(bytes), L - offset)
      BY <1>5, <1>6
<1>8. L - (L - offset) = offset
      BY DEF L
<1>. QED BY <1>7, <1>8 DEF Level, L, At, Later

(* The rounds of the loop that reads a list.                                 *)
RoundsOf(after, later, start, end) ==
    /\ after[0] = Stopped(<<>>, start)
    /\ \A n \in 1..(end - start) : after[n] = Round(later, end, after[n - 1])
    /\ ItemsFrom(later, start, end) = after[end - start]

LEMMA Rounds ==
    ASSUME NEW later, NEW start \in Nat, NEW end \in Nat, start <= end
    PROVE  \E after : RoundsOf(after, later, start, end)
<1>. DEFINE m == end - start
            Level(f, n) == IF n = 0 THEN Stopped(<<>>, start) ELSE Round(later, end, f[n - 1])
            Upto(n, g) == g = [k \in 0..n |-> Level(g, k)]
            P == {n \in Nat : \E g : Upto(n, g)}
            R == CHOOSE g : Upto(m, g)
<1>0. m \in Nat
      OBVIOUS
<1>1. 0 \in P
  <2>1. Upto(0, [k \in 0..0 |-> Stopped(<<>>, start)])
        OBVIOUS
  <2>. QED BY <2>1
<1>2. ASSUME NEW n \in Nat, n \in P
      PROVE  n + 1 \in P
  <2>1. PICK g : Upto(n, g)
        BY <1>2
  <2>. DEFINE h == [k \in 0..(n + 1) |-> IF k = n + 1 THEN Level(g, n + 1) ELSE g[k]]
  <2>2. \A k \in 0..(n + 1) : k # 0 => h[k - 1] = g[k - 1]
        OBVIOUS
  <2>3. \A k \in 0..(n + 1) : h[k] = Level(g, k)
    <3>. HIDE DEF Level
    <3>1. \A k \in 0..n : g[k] = Level(g, k)
          BY <2>1
    <3>2. \A k \in 0..(n + 1) : k # n + 1 => k \in 0..n
          OBVIOUS
    <3>. QED BY <3>1, <3>2
  <2>4. \A k \in 0..(n + 1) : h[k] = Level(h, k)
    <3>. HIDE DEF h
    <3>. QED BY <2>2, <2>3
  <2>5. h = [k \in 0..(n + 1) |-> h[k]]
        OBVIOUS
  <2>. HIDE DEF h, Level
  <2>6. Upto(n + 1, h)
        BY <2>4, <2>5
  <2>. QED BY <2>6
<1>3. Nat \subseteq P
  <2>. HIDE DEF P
  <2>. QED BY <1>1, <1>2, Induction
<1>4. \E g : Upto(m, g)
  <2>1. m \in P
    <3>. HIDE DEF P, m
    <3>. QED BY <1>0, <1>3
  <2>. HIDE DEF Upto
  <2>. QED BY <2>1
<1>5. Upto(m, R)
      BY <1>4
<1>6. ItemsFrom(later, start, end) = R[m]
      BY DEF ItemsFrom
<1>. HIDE DEF R, m
<1>7. \A k \in 0..m : R[k] = Level(R, k)
  <2>. HIDE DEF Level
  <2>. QED BY <1>5
<1>8. 0 \in 0..m /\ \A k \in 1..m : k \in 0..m /\ k # 0
      BY <1>0
<1>9. R[0] = Stopped(<<>>, start)
      BY <1>7, <1>8
<1>10. \A k \in 1..m : R[k] = Round(later, end, R[k - 1])
       BY <1>7, <1>8
<1>11. RoundsOf(R, later, start, end)
       BY <1>6, <1>9, <1>10 DEF RoundsOf, m
<1>. QED BY <1>11

-----------------------------------------------------------------------------
(* What _decode_item makes of each kind of prefix                            *)
LEMMA ByteItem ==
    ASSUME NEW bytes \in Seq(Nat), NEW later, NEW o \in Nat, o < Len(bytes), bytes[o + 1] < STRING0
    PROVE  decode_item(bytes, later, o) = Found(String(<<bytes[o + 1]>>), o + 1)
<1>. DEFINE c == bytes[o + 1]
<1>1. /\ c < STRING0 /\ ~(c \in STRING0..LONGSTRING) /\ ~(c \in (LONGSTRING + 1)..(LIST0 - 1))
      /\ ~(c \in LIST0..LONGLIST) /\ ~(o >= Len(bytes))
      BY Layout
<1>. QED BY <1>1 DEF decode_item

LEMMA ShortString ==
    ASSUME NEW bytes \in Seq(Nat), NEW later, NEW o \in Nat, o < Len(bytes),
           NEW n \in 0..SHORT, bytes[o + 1] = STRING0 + n
    PROVE  decode_item(bytes, later, o) = StringTo(bytes, o + 1, o + 1 + n)
<1>. DEFINE c == bytes[o + 1]
<1>1. /\ ~(c < STRING0) /\ c \in STRING0..LONGSTRING /\ ~(c \in (LONGSTRING + 1)..(LIST0 - 1))
      /\ ~(c \in LIST0..LONGLIST) /\ ~(o >= Len(bytes))
      BY Layout
<1>2. decode_item(bytes, later, o) = StringTo(bytes, o + 1, o + 1 + bytes[o + 1] - STRING0)
      BY <1>1 DEF decode_item
<1>3. o + 1 + bytes[o + 1] - STRING0 = o + 1 + n
      BY Layout
<1>. QED BY <1>2, <1>3

LEMMA LongString ==
    ASSUME NEW bytes \in Seq(Nat), NEW later, NEW o \in Nat, o < Len(bytes),
           NEW k \in 1..LENGTHS, bytes[o + 1] = LONGSTRING + k
    PROVE  decode_item(bytes, later, o) =
              IF o + 1 + k > Len(bytes) THEN ValueError
              ELSE StringTo(bytes, o + 1 + k,
                            o + 1 + k + from_bytes(Part(bytes, o + 1, o + 1 + k)))
<1>. DEFINE c == bytes[o + 1]
<1>1. /\ ~(c < STRING0) /\ ~(c \in STRING0..LONGSTRING) /\ ~(c \in LIST0..LONGLIST)
      /\ c \in (LONGSTRING + 1)..(LIST0 - 1) /\ o + 1 + c - LONGSTRING = o + 1 + k
      /\ ~(o >= Len(bytes))
      BY Layout
<1>2. decode_item(bytes, later, o) =
         IF o + 1 + c - LONGSTRING > Len(bytes) THEN ValueError
         ELSE StringTo(bytes, o + 1 + c - LONGSTRING,
                       o + 1 + c - LONGSTRING
                          + from_bytes(Part(bytes, o + 1, o + 1 + c - LONGSTRING)))
      BY <1>1 DEF decode_item
<1>. QED BY <1>1, <1>2

LEMMA ShortList ==
    ASSUME NEW bytes \in Seq(Nat), NEW later, NEW o \in Nat, o < Len(bytes),
           NEW n \in 0..SHORT, bytes[o + 1] = LIST0 + n
    PROVE  decode_item(bytes, later, o) = decode_list(bytes, later, o + 1, n)
<1>. DEFINE c == bytes[o + 1]
<1>1. /\ ~(c < STRING0) /\ ~(c \in STRING0..LONGSTRING) /\ ~(c \in (LONGSTRING + 1)..(LIST0 - 1))
      /\ c \in LIST0..LONGLIST /\ c - LIST0 = n
      BY Layout
<1>2. decode_item(bytes, later, o) = decode_list(bytes, later, o + 1, c - LIST0)
      BY <1>1 DEF decode_item
<1>. QED BY <1>1, <1>2

LEMMA LongList ==
    ASSUME NEW bytes \in Seq(Nat), NEW later, NEW o \in Nat, o < Len(bytes),
           NEW k \in 1..LENGTHS, bytes[o + 1] = LONGLIST + k
    PROVE  decode_item(bytes, later, o) =
              IF o + 1 + k > Len(bytes) THEN ValueError
              ELSE decode_list(bytes, later, o + 1 + k, from_bytes(Part(bytes, o + 1, o + 1 + k)))
<1>. DEFINE c == bytes[o + 1]
<1>1. /\ ~(c < STRING0) /\ ~(c \in STRING0..LONGSTRING) /\ ~(c \in (LONGSTRING + 1)..(LIST0 - 1))
      /\ ~(c \in LIST0..LONGLIST) /\ o + 1 + c - LONGLIST = o + 1 + k
      BY Layout
<1>2. decode_item(bytes, later, o) =
         IF o + 1 + c - LONGLIST > Len(bytes) THEN ValueError
         ELSE decode_list(bytes, later, o + 1 + c - LONGLIST,
                          from_bytes(Part(bytes, o + 1, o + 1 + c - LONGLIST)))
      BY <1>1 DEF decode_item
<1>. QED BY <1>1, <1>2

(* Every byte is one of the five kinds.                                      *)
LEMMA KindsOfPrefix ==
    ASSUME NEW b \in Byte
    PROVE  \/ b < STRING0
           \/ \E n \in 0..SHORT : b = STRING0 + n
           \/ \E k \in 1..LENGTHS : b = LONGSTRING + k
           \/ \E n \in 0..SHORT : b = LIST0 + n
           \/ \E k \in 1..LENGTHS : b = LONGLIST + k
<1>1. b \in Nat /\ b <= Base - 1
      BY BaseType DEF Byte
<1>2. CASE b < LONGSTRING + 1 /\ b >= STRING0
  <2>1. b - STRING0 \in 0..SHORT /\ b = STRING0 + (b - STRING0)
        BY <1>1, <1>2, Layout
  <2>. QED BY <2>1
<1>3. CASE b < LIST0 /\ b >= LONGSTRING + 1
  <2>1. b - LONGSTRING \in 1..LENGTHS /\ b = LONGSTRING + (b - LONGSTRING)
        BY <1>1, <1>3, Layout
  <2>. QED BY <2>1
<1>4. CASE b < LONGLIST + 1 /\ b >= LIST0
  <2>1. b - LIST0 \in 0..SHORT /\ b = LIST0 + (b - LIST0)
        BY <1>1, <1>4, Layout
  <2>. QED BY <2>1
<1>5. CASE b >= LONGLIST + 1
  <2>1. b - LONGLIST \in 1..LENGTHS /\ b = LONGLIST + (b - LONGLIST)
        BY <1>1, <1>5, Layout
  <2>. QED BY <2>1
<1>. QED BY <1>1, <1>2, <1>3, <1>4, <1>5, Layout

-----------------------------------------------------------------------------
(* Encodings within a string of bytes                                        *)
Occurs(s, bytes, o) ==
    o + Len(s) <= Len(bytes) /\ \A k \in 1..Len(s) : bytes[o + k] = s[k]

LEMMA Parts ==
    ASSUME NEW T, NEW bytes \in Seq(T), NEW o \in Nat, NEW n \in Nat, o + n <= Len(bytes)
    PROVE  /\ Part(bytes, o, o + n) \in Seq(T) /\ Len(Part(bytes, o, o + n)) = n
           /\ \A k \in 1..n : Part(bytes, o, o + n)[k] = bytes[o + k]
<1>1. \A k \in (o + 1)..(o + n) : bytes[k] \in T
      OBVIOUS
<1>2. o + 1 \in Int /\ o + n \in Int
      OBVIOUS
<1>3. /\ Part(bytes, o, o + n) \in Seq(T)
      /\ Len(Part(bytes, o, o + n)) = (IF o + 1 <= o + n THEN (o + n) - (o + 1) + 1 ELSE 0)
      /\ \A k \in 1..((o + n) - (o + 1) + 1) : Part(bytes, o, o + n)[k] = bytes[(o + 1) + k - 1]
      BY <1>1, <1>2, SubSeqProperties DEF Part
<1>4. \A k \in 1..n : k \in 1..((o + n) - (o + 1) + 1) /\ (o + 1) + k - 1 = o + k
      OBVIOUS
<1>. QED BY <1>3, <1>4

LEMMA OccursPart ==
    ASSUME NEW bytes \in Seq(Nat), NEW s \in Seq(Nat), NEW o \in Nat, Occurs(s, bytes, o)
    PROVE  Part(bytes, o, o + Len(s)) = s
<1>. DEFINE p == Part(bytes, o, o + Len(s))
<1>1. o + Len(s) <= Len(bytes) /\ \A k \in 1..Len(s) : bytes[o + k] = s[k]
      BY DEF Occurs
<1>. DEFINE n == Len(s)
<1>2. p \in Seq(Nat) /\ Len(p) = Len(s) /\ \A k \in 1..Len(s) : p[k] = bytes[o + k]
  <2>1. n \in Nat /\ o + n <= Len(bytes)
        BY <1>1
  <2>. HIDE DEF n
  <2>2. /\ Part(bytes, o, o + n) \in Seq(Nat) /\ Len(Part(bytes, o, o + n)) = n
        /\ \A k \in 1..n : Part(bytes, o, o + n)[k] = bytes[o + k]
        BY <2>1, Parts
  <2>. QED BY <2>2, Zenon DEF n
<1>. HIDE DEF p
<1>3. p = s
      BY <1>1, <1>2, SeqEqual
<1>. QED BY <1>3 DEF p

LEMMA OccursJoin ==
    ASSUME NEW bytes \in Seq(Nat), NEW s \in Seq(Nat), NEW t \in Seq(Nat), NEW o \in Nat,
           Occurs(s \o t, bytes, o)
    PROVE  Occurs(s, bytes, o) /\ Occurs(t, bytes, o + Len(s))
<1>. DEFINE j == s \o t
<1>1. /\ Len(j) = Len(s) + Len(t) /\ Len(s) \in Nat /\ Len(t) \in Nat
      /\ \A k \in 1..Len(s) : j[k] = s[k]
      /\ \A k \in 1..Len(t) : j[Len(s) + k] = t[k]
      OBVIOUS
<1>2. o + Len(j) <= Len(bytes) /\ \A k \in 1..Len(j) : bytes[o + k] = j[k]
      BY DEF Occurs
<1>. HIDE DEF j
<1>3. \A k \in 1..Len(s) : k \in 1..Len(j)
      BY <1>1
<1>4. \A k \in 1..Len(t) : Len(s) + k \in 1..Len(j) /\ o + (Len(s) + k) = (o + Len(s)) + k
      BY <1>1
<1>5. Occurs(s, bytes, o)
      BY <1>1, <1>2, <1>3, SMTT(30) DEF Occurs
<1>6. \A k \in 1..Len(t) : bytes[(o + Len(s)) + k] = t[k]
      BY <1>1, <1>2, <1>4
<1>7. (o + Len(s)) + Len(t) <= Len(bytes)
      BY <1>1, <1>2
<1>8. Occurs(t, bytes, o + Len(s))
      BY <1>6, <1>7, Zenon DEF Occurs
<1>. QED BY <1>5, <1>8

(* Where a prefix occurs its payload follows, of the length that it gives.   *)
Follows(payload, short, long, bytes, o, start) ==
    /\ start > o /\ start + Len(payload) = o + Len(Prefixed(short, long, payload))
    /\ Occurs(payload, bytes, start)
    /\ \/ /\ Len(payload) <= SHORT /\ start = o + 1
          /\ bytes[o + 1] = short + Len(payload)
       \/ \E k \in 1..LENGTHS :
             /\ start = o + 1 + k
             /\ bytes[o + 1] = long + k
             /\ from_bytes(Part(bytes, o + 1, o + 1 + k)) = Len(payload)

LEMMA PrefixedOccurs ==
    ASSUME NEW short \in Nat, NEW long \in Nat, NEW payload \in Seq(Nat),
           Len(payload) <= MaxEncoding, NEW bytes \in Seq(Nat), NEW o \in Nat,
           Occurs(Prefixed(short, long, payload), bytes, o)
    PROVE  \E start \in Nat : Follows(payload, short, long, bytes, o, start)
<1>. DEFINE n == Len(payload)
<1>0. n \in Nat
      OBVIOUS
<1>1. CASE n <= SHORT
  <2>. DEFINE h == <<short + n>>
  <2>1. Prefixed(short, long, payload) = h \o payload /\ h \in Seq(Nat) /\ Len(h) = 1
        BY <1>1 DEF Prefixed
  <2>2. Len(h \o payload) = 1 + n /\ h[1] = short + n
        OBVIOUS
  <2>. HIDE DEF h
  <2>3. Occurs(h, bytes, o) /\ Occurs(payload, bytes, o + 1)
        BY <2>1, OccursJoin
  <2>4. bytes[o + 1] = short + n
        BY <2>1, <2>2, <2>3 DEF Occurs
  <2>5. o + 1 \in Nat /\ o + 1 > o /\ (o + 1) + n = o + Len(Prefixed(short, long, payload))
        BY <2>1, <2>2
  <2>. QED BY <1>1, <2>3, <2>4, <2>5 DEF Follows
<1>2. CASE n > SHORT
  <2>. DEFINE ds == Digits[n]
              k == Len(ds)
              h == <<long + k>>
  <2>0. n # 0
        BY <1>2, Layout
  <2>1. /\ encode_length(n) = ds /\ ds \in Seq(Byte) /\ k \in Nat /\ k >= 1 /\ k <= LENGTHS
        /\ from_bytes(ds) = n
    <3>. HIDE DEF n
    <3>1. n <= MaxEncoding
          BY DEF n
    <3>. QED BY <1>0, <2>0, <3>1, LengthDigits, DigitsMakeNumber
  <2>2. ds \in Seq(Nat) /\ k \in 1..LENGTHS
        BY <2>1, BytesAreNumbers, Layout
  <2>3. Prefixed(short, long, payload) = h \o ds \o payload /\ h \in Seq(Nat) /\ Len(h) = 1
    <3>. HIDE DEF ds
    <3>1. ~(n <= SHORT)
          BY <1>2, Layout
    <3>. QED BY <2>1, <3>1 DEF Prefixed
  <2>. HIDE DEF ds
  <2>4. /\ h \o ds \in Seq(Nat) /\ Len(h \o ds) = 1 + k /\ h[1] = long + k
        /\ Len((h \o ds) \o payload) = 1 + k + n
        BY <2>1, <2>2
  <2>. HIDE DEF h
  <2>5. Occurs(h \o ds, bytes, o) /\ Occurs(payload, bytes, o + (1 + k))
    <3>. DEFINE hd == h \o ds
    <3>1. hd \in Seq(Nat) /\ Len(hd) = 1 + k /\ Occurs(hd \o payload, bytes, o)
          BY <2>3, <2>4
    <3>. HIDE DEF hd, k
    <3>2. Occurs(hd, bytes, o) /\ Occurs(payload, bytes, o + (1 + k))
          BY <3>1, OccursJoin
    <3>. QED BY <3>2 DEF hd
  <2>6. Occurs(h, bytes, o) /\ Occurs(ds, bytes, o + 1)
        BY <2>2, <2>3, <2>5, OccursJoin
  <2>7. bytes[o + 1] = long + k
        BY <2>3, <2>4, <2>6, SMTT(30) DEF Occurs
  <2>8. Part(bytes, o + 1, o + 1 + k) = ds
        BY <2>2, <2>6, OccursPart
  <2>9. /\ o + 1 + k \in Nat /\ o + 1 + k > o /\ o + (1 + k) = o + 1 + k
        /\ (o + 1 + k) + n = o + Len(Prefixed(short, long, payload))
        BY <1>0, <2>1, <2>3, <2>4
  <2>. HIDE DEF k, n
  <2>. QED BY <2>1, <2>2, <2>5, <2>7, <2>8, <2>9 DEF n, Follows
<1>. QED BY <1>0, <1>1, <1>2, Layout

(* A string's encoding is read as the string, wherever it is found.          *)
LEMMA StringReads ==
    ASSUME NEW s \in Seq(Byte), Len(encode_string(s)) <= MaxEncoding,
           NEW bytes \in Seq(Nat), NEW later, NEW o \in Nat, Occurs(encode_string(s), bytes, o)
    PROVE  decode_item(bytes, later, o) = Found(String(s), o + Len(encode_string(s)))
<1>0. s \in Seq(Nat) /\ Len(s) \in Nat /\ Len(bytes) \in Nat
      BY BytesAreNumbers
<1>1. CASE Len(s) = 1 /\ s[1] < STRING0
  <2>1. encode_string(s) = s /\ s = <<s[1]>>
        BY <1>1, <1>0 DEF encode_string
  <2>2. bytes[o + 1] = s[1] /\ o < Len(bytes)
    <3>0. encode_string(s) = s
          BY <2>1
    <3>1. Occurs(s, bytes, o)
          BY <3>0
    <3>2. 1 \in 1..Len(s)
          BY <1>1
    <3>3. o + Len(s) <= Len(bytes) /\ \A k \in 1..Len(s) : bytes[o + k] = s[k]
          BY <3>1 DEF Occurs
    <3>. QED BY <1>0, <1>1, <3>2, <3>3
  <2>3. decode_item(bytes, later, o) = Found(String(<<bytes[o + 1]>>), o + 1)
        BY <1>1, <2>2, ByteItem
  <2>. QED BY <1>1, <2>1, <2>2, <2>3
<1>2. CASE ~(Len(s) = 1 /\ s[1] < STRING0)
  <2>. DEFINE e == Prefixed(STRING0, LONGSTRING, s)
  <2>1. encode_string(s) = e
        BY <1>2 DEF encode_string
  <2>2. STRING0 \in Nat /\ LONGSTRING \in Nat /\ MaxEncoding \in Nat
        BY Layout
  <2>3. e \in Seq(Nat) /\ Len(e) >= Len(s) + 1
        BY <1>0, <2>2, PrefixedType
  <2>4. Len(s) <= MaxEncoding
        BY <1>0, <2>1, <2>2, <2>3
  <2>5. PICK start \in Nat : Follows(s, STRING0, LONGSTRING, bytes, o, start)
        BY <1>0, <2>1, <2>2, <2>4, PrefixedOccurs
  <2>. HIDE DEF e
  <2>6. start + Len(s) <= Len(bytes) /\ Part(bytes, start, start + Len(s)) = s /\ o < Len(bytes)
    <3>1. Occurs(s, bytes, start) /\ start > o
          BY <2>5 DEF Follows
    <3>2. start + Len(s) <= Len(bytes)
          BY <3>1 DEF Occurs
    <3>. QED BY <1>0, <3>1, <3>2, OccursPart
  <2>7. StringTo(bytes, start, start + Len(s)) = Found(String(s), o + Len(e))
    <3>1. ~(start + Len(s) > Len(bytes))
          BY <1>0, <2>6
    <3>2. start + Len(s) = o + Len(e)
          BY <2>5 DEF Follows, e
    <3>. QED BY <2>6, <3>1, <3>2 DEF StringTo
  <2>8. decode_item(bytes, later, o) = StringTo(bytes, start, start + Len(s))
    <3>1. CASE Len(s) <= SHORT /\ start = o + 1 /\ bytes[o + 1] = STRING0 + Len(s)
      <4>1. Len(s) \in 0..SHORT
            BY <1>0, <3>1, Layout
      <4>. QED BY <2>6, <3>1, <4>1, ShortString
    <3>2. ASSUME NEW k \in 1..LENGTHS, start = o + 1 + k, bytes[o + 1] = LONGSTRING + k,
                 from_bytes(Part(bytes, o + 1, o + 1 + k)) = Len(s)
          PROVE  decode_item(bytes, later, o) = StringTo(bytes, start, start + Len(s))
      <4>1. ~(o + 1 + k > Len(bytes))
            BY <1>0, <2>6, <3>2
      <4>2. decode_item(bytes, later, o) =
              IF o + 1 + k > Len(bytes) THEN ValueError
              ELSE StringTo(bytes, o + 1 + k,
                            o + 1 + k + from_bytes(Part(bytes, o + 1, o + 1 + k)))
            BY <2>6, <3>2, LongString
      <4>. QED BY <3>2, <4>1, <4>2
    <3>. QED BY <2>5, <3>1, <3>2 DEF Follows
  <2>. QED BY <2>1, <2>7, <2>8
<1>. QED BY <1>1, <1>2

(* The first items of a list and their part of the payload.                  *)
Front(s, k) == SubSeq(s, 1, k)

LEMMA Fronts ==
    ASSUME NEW T, NEW s \in Seq(T)
    PROVE  /\ Front(s, 0) = <<>> /\ Front(s, Len(s)) = s
           /\ \A k \in 0..Len(s) : Front(s, k) \in Seq(T) /\ Len(Front(s, k)) = k
           /\ \A k \in 1..Len(s) : Front(s, k) = Append(Front(s, k - 1), s[k]) /\ s[k] \in T
<1>1. Front(s, 0) = <<>>
      BY SubSeqEmpty DEF Front
<1>2. Front(s, Len(s)) = s
      BY SubSeqFull DEF Front
<1>3. \A k \in 0..Len(s) : /\ Front(s, k) \in Seq(T) /\ Len(Front(s, k)) = k
                           /\ \A j \in 1..k : Front(s, k)[j] = s[j]
      BY DEF Front
<1>4. ASSUME NEW k \in 1..Len(s)
      PROVE  Front(s, k) = Append(Front(s, k - 1), s[k]) /\ s[k] \in T
  <2>1. /\ k \in 0..Len(s) /\ k - 1 \in 0..Len(s) /\ s[k] \in T /\ (k - 1) + 1 = k
        /\ \A j \in 1..k : j = k \/ j \in 1..(k - 1)
        OBVIOUS
  <2>2. DEFINE f == Front(s, k)
               g == Front(s, k - 1)
               a == Append(g, s[k])
  <2>3. /\ f \in Seq(T) /\ Len(f) = k /\ \A j \in 1..k : f[j] = s[j]
        /\ g \in Seq(T) /\ Len(g) = k - 1 /\ \A j \in 1..(k - 1) : g[j] = s[j]
        BY <1>3, <2>1
  <2>. HIDE DEF f, g
  <2>4. a \in Seq(T) /\ Len(a) = k /\ a[k] = s[k] /\ \A j \in 1..(k - 1) : a[j] = g[j]
        BY <2>1, <2>3
  <2>. HIDE DEF a
  <2>5. f = a
    <3>1. \A j \in 1..k : f[j] = a[j]
          BY <2>1, <2>3, <2>4
    <3>. QED BY <2>3, <2>4, <3>1, SeqEqual
  <2>. QED BY <2>1, <2>5 DEF f, a, g
<1>. QED BY <1>1, <1>2, <1>3, <1>4

LEMMA PayloadFronts ==
    ASSUME NEW T, NEW e \in [T -> Seq(Nat)], \A i \in T : Len(e[i]) >= 1, NEW s \in Seq(T)
    PROVE  /\ Payload(Front(s, 0), e) = <<>> /\ Payload(Front(s, Len(s)), e) = Payload(s, e)
           /\ \A k \in 0..Len(s) : /\ Payload(Front(s, k), e) \in Seq(Nat)
                                   /\ Len(Payload(Front(s, k), e)) >= k
           /\ \A k \in 1..Len(s) :
                 /\ Payload(Front(s, k), e) = Payload(Front(s, k - 1), e) \o e[s[k]]
                 /\ Len(Payload(Front(s, k), e)) = Len(Payload(Front(s, k - 1), e)) + Len(e[s[k]])
                 /\ e[s[k]] \in Seq(Nat) /\ Len(e[s[k]]) >= 1
<1>1. Payload(Front(s, 0), e) = <<>> /\ Payload(Front(s, Len(s)), e) = Payload(s, e)
      BY Fronts, Payloads
<1>2. \A k \in 0..Len(s) : Payload(Front(s, k), e) \in Seq(Nat)
      BY Fronts, Payloads
<1>3. ASSUME NEW k \in 1..Len(s)
      PROVE  /\ Payload(Front(s, k), e) = Payload(Front(s, k - 1), e) \o e[s[k]]
             /\ Len(Payload(Front(s, k), e)) = Len(Payload(Front(s, k - 1), e)) + Len(e[s[k]])
             /\ e[s[k]] \in Seq(Nat) /\ Len(e[s[k]]) >= 1
  <2>1. k - 1 \in 0..Len(s) /\ s[k] \in T
        OBVIOUS
  <2>2. Front(s, k) = Append(Front(s, k - 1), s[k]) /\ Front(s, k - 1) \in Seq(T)
        BY <2>1, Fronts
  <2>3. Payload(Front(s, k), e) = Payload(Front(s, k - 1), e) \o e[s[k]]
        BY <2>1, <2>2, Payloads
  <2>4. Payload(Front(s, k - 1), e) \in Seq(Nat) /\ e[s[k]] \in Seq(Nat) /\ Len(e[s[k]]) >= 1
        BY <1>2, <2>1
  <2>. QED BY <2>3, <2>4
<1>4. \A k \in 0..Len(s) : Len(Payload(Front(s, k), e)) >= k
  <2>. DEFINE P == {k \in Nat : k <= Len(s) => Len(Payload(Front(s, k), e)) >= k}
  <2>1. 0 \in P
        BY <1>1
  <2>2. ASSUME NEW k \in Nat, k \in P
        PROVE  k + 1 \in P
    <3>1. CASE k + 1 <= Len(s)
      <4>1. k + 1 \in 1..Len(s) /\ (k + 1) - 1 = k /\ k \in 0..Len(s)
            BY <3>1
      <4>2. /\ Len(Payload(Front(s, k + 1), e)) = Len(Payload(Front(s, k), e)) + Len(e[s[k + 1]])
            /\ Len(e[s[k + 1]]) >= 1 /\ Len(e[s[k + 1]]) \in Nat
        <5>1. /\ Len(Payload(Front(s, k + 1), e))
                    = Len(Payload(Front(s, (k + 1) - 1), e)) + Len(e[s[k + 1]])
              /\ e[s[k + 1]] \in Seq(Nat) /\ Len(e[s[k + 1]]) >= 1
              BY <1>3, <4>1
        <5>2. Len(e[s[k + 1]]) \in Nat
              BY <5>1
        <5>. QED BY <4>1, <5>1, <5>2
      <4>3. Len(Payload(Front(s, k), e)) \in Nat /\ Len(Payload(Front(s, k), e)) >= k
            BY <1>2, <2>2, <4>1
      <4>4. Len(Payload(Front(s, k + 1), e)) >= k + 1
            BY <4>2, <4>3
      <4>. QED BY <4>4
    <3>. QED BY <3>1
  <2>3. Nat \subseteq P
    <3>. HIDE DEF P
    <3>. QED BY <2>1, <2>2, Induction
  <2>. QED BY <2>3
<1>. QED BY <1>1, <1>2, <1>3, <1>4

(* Where a payload occurs, so does every item's encoding.                    *)
LEMMA PayloadOccurs ==
    ASSUME NEW T, NEW e \in [T -> Seq(Nat)], \A i \in T : Len(e[i]) >= 1, NEW s \in Seq(T),
           NEW bytes \in Seq(Nat), NEW start \in Nat, Occurs(Payload(s, e), bytes, start)
    PROVE  /\ \A k \in 0..Len(s) : Len(Payload(Front(s, k), e)) <= Len(Payload(s, e))
           /\ \A k \in 1..Len(s) :
                 Occurs(e[s[k]], bytes, start + Len(Payload(Front(s, k - 1), e)))
<1>. DEFINE q(k) == Payload(Front(s, k), e)
            Good(k) == Occurs(q(k), bytes, start) /\ Len(q(k)) <= Len(Payload(s, e))
            P == {n \in Nat : n <= Len(s) => Good(Len(s) - n)}
<1>0. Len(s) \in Nat
      OBVIOUS
<1>. HIDE DEF q
<1>q. /\ q(0) = <<>> /\ q(Len(s)) = Payload(s, e)
      /\ \A k \in 0..Len(s) : q(k) \in Seq(Nat)
      /\ \A k \in 1..Len(s) : /\ q(k) = q(k - 1) \o e[s[k]]
                              /\ Len(q(k)) = Len(q(k - 1)) + Len(e[s[k]])
                              /\ e[s[k]] \in Seq(Nat)
  <2>1. /\ Payload(Front(s, 0), e) = <<>> /\ Payload(Front(s, Len(s)), e) = Payload(s, e)
        /\ \A k \in 0..Len(s) : /\ Payload(Front(s, k), e) \in Seq(Nat)
                                /\ Len(Payload(Front(s, k), e)) >= k
        /\ \A k \in 1..Len(s) :
              /\ Payload(Front(s, k), e) = Payload(Front(s, k - 1), e) \o e[s[k]]
              /\ Len(Payload(Front(s, k), e)) = Len(Payload(Front(s, k - 1), e)) + Len(e[s[k]])
              /\ e[s[k]] \in Seq(Nat) /\ Len(e[s[k]]) >= 1
        BY PayloadFronts, Zenon
  <2>. QED BY <2>1, Zenon DEF q
<1>1. ASSUME NEW k \in 1..Len(s), Good(k)
      PROVE  Good(k - 1) /\ Occurs(e[s[k]], bytes, start + Len(q(k - 1)))
  <2>1. /\ q(k) = q(k - 1) \o e[s[k]] /\ Len(q(k)) = Len(q(k - 1)) + Len(e[s[k]])
        /\ e[s[k]] \in Seq(Nat)
        BY <1>q
  <2>2. k - 1 \in 0..Len(s)
        OBVIOUS
  <2>3. q(k - 1) \in Seq(Nat)
        BY <2>2, <1>q
  <2>4. Payload(s, e) \in Seq(Nat)
        BY Payloads
  <2>. DEFINE a == q(k - 1)
              b == e[s[k]]
  <2>5. /\ Occurs(a \o b, bytes, start) /\ a \in Seq(Nat) /\ b \in Seq(Nat)
        /\ Len(a) + Len(b) <= Len(Payload(s, e))
        BY <1>1, <2>1, <2>3
  <2>. HIDE DEF a, b
  <2>6. Occurs(a, bytes, start) /\ Occurs(b, bytes, start + Len(a)) /\ Len(a) <= Len(Payload(s, e))
        BY <2>4, <2>5, OccursJoin
  <2>. QED BY <2>6 DEF a, b
<1>2. 0 \in P
  <2>1. q(Len(s)) = Payload(s, e) /\ Payload(s, e) \in Seq(Nat) /\ Len(s) - 0 = Len(s)
        BY <1>q, Payloads, <1>0
  <2>2. Good(Len(s))
        BY <2>1
  <2>. HIDE DEF Good
  <2>. QED BY <2>1, <2>2
<1>. HIDE DEF Good
<1>3. ASSUME NEW n \in Nat, n \in P
      PROVE  n + 1 \in P
  <2>1. CASE n + 1 <= Len(s)
    <3>1. Len(s) - n \in 1..Len(s) /\ (Len(s) - n) - 1 = Len(s) - (n + 1) /\ n <= Len(s)
          BY <1>0, <2>1
    <3>2. Good(Len(s) - n)
          BY <1>3, <3>1
    <3>3. Good((Len(s) - n) - 1)
          BY <1>1, <3>1, <3>2
    <3>4. Good(Len(s) - (n + 1))
          BY <3>1, <3>3
    <3>. QED BY <3>4
  <2>. QED BY <2>1
<1>4. Nat \subseteq P
  <2>. HIDE DEF P
  <2>. QED BY <1>2, <1>3, Induction
<1>5. ASSUME NEW k \in 0..Len(s)
      PROVE  Good(k)
  <2>1. Len(s) - k \in Nat /\ Len(s) - k <= Len(s) /\ Len(s) - (Len(s) - k) = k
        BY <1>0
  <2>2. Good(Len(s) - (Len(s) - k))
        BY <1>4, <2>1
  <2>. QED BY <2>1, <2>2
<1>6. \A k \in 1..Len(s) : k \in 0..Len(s)
      BY <1>0
<1>7. \A k \in 1..Len(s) : Occurs(e[s[k]], bytes, start + Len(q(k - 1)))
      BY <1>1, <1>5, <1>6
<1>8. \A k \in 0..Len(s) : Len(q(k)) <= Len(Payload(s, e))
      BY <1>5 DEF Good
<1>. QED BY <1>7, <1>8 DEF q

(* A round that reads, and one that does not.                                *)
LEMMA RoundReads ==
    ASSUME NEW later, NEW end, NEW items, NEW p, ~(p >= end), NEW i, NEW q, later[p] = Found(i, q)
    PROVE  Round(later, end, Stopped(items, p)) = Stopped(Append(items, i), q)
<1>1. later[p].ok /\ later[p].item = i /\ later[p].end = q
      BY DEF Found
<1>2. Stopped(items, p).ok /\ Stopped(items, p).pos = p /\ Stopped(items, p).items = items
      BY DEF Stopped
<1>. QED BY <1>1, <1>2, Zenon DEF Round

LEMMA RoundRests ==
    ASSUME NEW later, NEW end, NEW items, NEW p, p >= end
    PROVE  Round(later, end, Stopped(items, p)) = Stopped(items, p)
<1>1. Stopped(items, p).pos = p
      BY DEF Stopped
<1>. QED BY <1>1, Zenon DEF Round

(* The loop reads a payload back, when every item's encoding is read back.   *)
LaterReads(later, T, e, bytes, start) ==
    \A i \in T, p \in Nat : p >= start /\ Len(e[i]) <= MaxEncoding /\ Occurs(e[i], bytes, p)
                             => later[p] = Found(i, p + Len(e[i]))

IsCode(e, T) == e \in [T -> Seq(Nat)] /\ \A i \in T : Len(e[i]) >= 1

LEMMA ItemsRead ==
    ASSUME NEW T, NEW e, IsCode(e, T), NEW s \in Seq(T),
           Len(Payload(s, e)) <= MaxEncoding,
           NEW bytes \in Seq(Nat), NEW start \in Nat, Occurs(Payload(s, e), bytes, start),
           NEW later, LaterReads(later, T, e, bytes, start)
    PROVE  ItemsFrom(later, start, start + Len(Payload(s, e)))
              = Stopped(s, start + Len(Payload(s, e)))
<1>. DEFINE q(k) == Payload(Front(s, k), e)
            m == Len(Payload(s, e))
            end == start + m
<1>. HIDE DEF q
<1>c. e \in [T -> Seq(Nat)] /\ \A i \in T : Len(e[i]) >= 1
      BY DEF IsCode
<1>q. /\ q(0) = <<>> /\ q(Len(s)) = Payload(s, e)
      /\ \A k \in 0..Len(s) : q(k) \in Seq(Nat) /\ Len(q(k)) >= k
      /\ \A k \in 1..Len(s) : Len(q(k)) = Len(q(k - 1)) + Len(e[s[k]])
  <2>1. /\ Payload(Front(s, 0), e) = <<>> /\ Payload(Front(s, Len(s)), e) = Payload(s, e)
        /\ \A k \in 0..Len(s) : /\ Payload(Front(s, k), e) \in Seq(Nat)
                                /\ Len(Payload(Front(s, k), e)) >= k
        /\ \A k \in 1..Len(s) :
              /\ Payload(Front(s, k), e) = Payload(Front(s, k - 1), e) \o e[s[k]]
              /\ Len(Payload(Front(s, k), e)) = Len(Payload(Front(s, k - 1), e)) + Len(e[s[k]])
              /\ e[s[k]] \in Seq(Nat) /\ Len(e[s[k]]) >= 1
        BY <1>c, PayloadFronts, Zenon
  <2>. QED BY <2>1, Zenon DEF q
<1>o. /\ \A k \in 0..Len(s) : Len(q(k)) <= m
      /\ \A k \in 1..Len(s) : Occurs(e[s[k]], bytes, start + Len(q(k - 1)))
  <2>1. /\ \A k \in 0..Len(s) : Len(Payload(Front(s, k), e)) <= Len(Payload(s, e))
        /\ \A k \in 1..Len(s) : Occurs(e[s[k]], bytes, start + Len(Payload(Front(s, k - 1), e)))
        BY <1>c, PayloadOccurs, Zenon
  <2>. QED BY <2>1, Zenon DEF q
<1>0. m \in Nat /\ Len(s) \in Nat /\ end \in Nat /\ start <= end /\ end - start = m
  <2>1. Payload(s, e) \in Seq(Nat)
        BY <1>c, Payloads
  <2>. QED BY <2>1
<1>1. Len(s) <= m /\ \A k \in 0..Len(s) : Len(q(k)) \in Nat
  <2>1. \A k \in 0..Len(s) : Len(q(k)) \in Nat
        BY <1>q
  <2>2. Len(s) \in 0..Len(s)
        BY <1>0
  <2>. QED BY <1>q, <2>1, <2>2
<1>e. \A k \in 1..Len(s) : s[k] \in T /\ Len(e[s[k]]) \in Nat /\ Len(e[s[k]]) >= 1
  <2>1. ASSUME NEW k \in 1..Len(s)
        PROVE  s[k] \in T /\ Len(e[s[k]]) \in Nat /\ Len(e[s[k]]) >= 1
    <3>1. s[k] \in T
          OBVIOUS
    <3>2. e[s[k]] \in Seq(Nat)
          BY <3>1, <1>c
    <3>. QED BY <3>1, <3>2, <1>c
  <2>. QED BY <2>1
<1>m. m <= MaxEncoding /\ MaxEncoding \in Nat
      BY Layout
<1>2. PICK after : RoundsOf(after, later, start, end)
  <2>. HIDE DEF end
  <2>. QED BY <1>0, Rounds
<1>3. /\ after[0] = Stopped(<<>>, start)
      /\ \A n \in 1..m : after[n] = Round(later, end, after[n - 1])
      /\ ItemsFrom(later, start, end) = after[m]
  <2>. HIDE DEF m, end
  <2>. QED BY <1>2, <1>0 DEF RoundsOf
<1>L. \A i \in T, p \in Nat : p >= start /\ Len(e[i]) <= MaxEncoding /\ Occurs(e[i], bytes, p)
                               => later[p] = Found(i, p + Len(e[i]))
      BY DEF LaterReads
<1>. HIDE DEF end, m
<1>. DEFINE Good(n) == IF n <= Len(s) THEN after[n] = Stopped(Front(s, n), start + Len(q(n)))
                       ELSE after[n] = Stopped(s, end)
            P == {n \in Nat : n <= m => Good(n)}
<1>4. 0 \in P
  <2>1. Front(s, 0) = <<>> /\ start + Len(q(0)) = start
    <3>1. Front(s, 0) = <<>>
          BY Fronts
    <3>2. Len(q(0)) = 0
          BY <1>q
    <3>3. start + 0 = start
          OBVIOUS
    <3>. QED BY <3>1, <3>2, <3>3, Zenon
  <2>. QED BY <1>0, <1>3, <2>1
<1>5. Front(s, Len(s)) = s /\ start + Len(q(Len(s))) = end
      BY <1>q, <1>0, Fronts DEF end, m
<1>6. ASSUME NEW n \in Nat, n \in P
      PROVE  n + 1 \in P
  <2>1. CASE n + 1 <= m /\ n + 1 <= Len(s)
    <3>1. n + 1 \in 1..Len(s) /\ n + 1 \in 1..m /\ n \in 0..Len(s) /\ (n + 1) - 1 = n /\ n <= Len(s)
          BY <1>0, <2>1
    <3>2. after[n] = Stopped(Front(s, n), start + Len(q(n)))
          BY <1>6, <1>0, <2>1, <3>1
    <3>. DEFINE p == start + Len(q(n))
                i == s[n + 1]
    <3>. HIDE DEF i
    <3>q. /\ i \in T /\ Len(e[i]) \in Nat /\ Len(e[i]) >= 1
          /\ Len(q(n + 1)) = Len(q((n + 1) - 1)) + Len(e[i])
          /\ Occurs(e[i], bytes, start + Len(q((n + 1) - 1)))
      <4>1. i \in T /\ Len(e[i]) \in Nat /\ Len(e[i]) >= 1
            BY <1>e, <3>1 DEF i
      <4>2. Len(q(n + 1)) = Len(q((n + 1) - 1)) + Len(e[i])
            BY <1>q, <3>1 DEF i
      <4>3. Occurs(e[i], bytes, start + Len(q((n + 1) - 1)))
            BY <1>o, <3>1 DEF i
      <4>. QED BY <4>1, <4>2, <4>3
    <3>3. /\ i \in T /\ Len(e[i]) \in Nat /\ Len(e[i]) >= 1 /\ Len(q(n)) \in Nat
          /\ Len(q(n + 1)) = Len(q(n)) + Len(e[i]) /\ Occurs(e[i], bytes, p)
          /\ Len(q(n + 1)) <= m
      <4>1. n + 1 \in 0..Len(s)
            BY <3>1, <1>0
      <4>2. Len(q(n + 1)) <= m /\ Len(q(n)) \in Nat
            BY <1>o, <1>1, <3>1, <4>1
      <4>. QED BY <3>q, <3>1, <4>2
    <3>4. p \in Nat /\ p >= start /\ p < end /\ Len(e[i]) <= MaxEncoding
          BY <1>0, <1>m, <3>3 DEF end
    <3>. HIDE DEF p
    <3>5. later[p] = Found(i, p + Len(e[i]))
          BY <1>L, <3>3, <3>4
    <3>6. Round(later, end, Stopped(Front(s, n), p)) = Stopped(Append(Front(s, n), i), p + Len(e[i]))
      <4>1. ~(p >= end)
            BY <1>0, <3>4
      <4>. QED BY <3>5, <4>1, RoundReads
    <3>7. after[n + 1] = Stopped(Append(Front(s, n), i), p + Len(e[i]))
          BY <1>3, <3>1, <3>2, <3>6 DEF p
    <3>8. Front(s, n + 1) = Append(Front(s, n), i) /\ start + Len(q(n + 1)) = p + Len(e[i])
      <4>1. Front(s, n + 1) = Append(Front(s, (n + 1) - 1), i)
            BY <3>1, Fronts DEF i
      <4>2. start + (Len(q(n)) + Len(e[i])) = (start + Len(q(n))) + Len(e[i])
        <5>1. \A x, y, z \in Nat : x + (y + z) = (x + y) + z
              OBVIOUS
        <5>. QED BY <3>3, <5>1
      <4>. QED BY <3>1, <3>3, <4>1, <4>2, Zenon DEF p
    <3>9. after[n + 1] = Stopped(Front(s, n + 1), start + Len(q(n + 1)))
          BY <3>7, <3>8
    <3>. QED BY <2>1, <3>9
  <2>2. CASE n + 1 <= m /\ ~(n + 1 <= Len(s))
    <3>1. n + 1 \in 1..m /\ (n + 1) - 1 = n /\ n <= m /\ n >= Len(s)
          BY <1>0, <2>2
    <3>2. after[n] = Stopped(s, end)
      <4>1. CASE n = Len(s)
            BY <1>6, <1>5, <3>1, <4>1
      <4>2. CASE n # Len(s)
        <5>1. ~(n <= Len(s))
              BY <1>0, <3>1, <4>2
        <5>. QED BY <1>6, <3>1, <5>1
      <4>. QED BY <4>1, <4>2
    <3>3. Round(later, end, Stopped(s, end)) = Stopped(s, end)
      <4>1. end >= end
            BY <1>0
      <4>. QED BY <4>1, RoundRests
    <3>4. after[n + 1] = Stopped(s, end)
          BY <1>3, <3>1, <3>2, <3>3
    <3>. QED BY <2>2, <3>4
  <2>. QED BY <2>1, <2>2
<1>7. Nat \subseteq P
  <2>. HIDE DEF P
  <2>. QED BY <1>4, <1>6, Induction
<1>8. Good(m)
      BY <1>0, <1>7
<1>9. after[m] = Stopped(s, end)
  <2>1. CASE m = Len(s)
        BY <1>8, <1>5, <1>0, <2>1
  <2>2. CASE m # Len(s)
    <3>1. ~(m <= Len(s))
          BY <1>0, <1>1, <2>2
    <3>. QED BY <1>8, <3>1
  <2>. QED BY <2>1, <2>2
<1>. QED BY <1>3, <1>9 DEF end, m

-----------------------------------------------------------------------------
(* Decoding inverts encoding *)
LEMMA ListReads ==
    ASSUME NEW T, NEW e, IsCode(e, T), NEW s \in Seq(T),
           Len(encode_list(s, e)) <= MaxEncoding,
           NEW bytes \in Seq(Nat), NEW o \in Nat, Occurs(encode_list(s, e), bytes, o),
           NEW later, LaterReads(later, T, e, bytes, o + 1)
    PROVE  decode_item(bytes, later, o) = Found(List(s), o + Len(encode_list(s, e)))
<1>. DEFINE payload == Payload(s, e)
            n == Len(payload)
            enc == Prefixed(LIST0, LONGLIST, payload)
<1>1. payload \in Seq(Nat) /\ LIST0 \in Nat /\ LONGLIST \in Nat /\ MaxEncoding \in Nat
  <2>1. payload \in Seq(Nat)
        BY Payloads DEF IsCode
  <2>. QED BY <2>1, Layout
<1>2. n \in Nat /\ Len(bytes) \in Nat /\ encode_list(s, e) = enc
      BY <1>1 DEF encode_list
<1>. HIDE DEF payload
<1>3. enc \in Seq(Nat) /\ Len(enc) >= n + 1
      BY <1>1, PrefixedType
<1>4. n <= MaxEncoding
      BY <1>1, <1>2, <1>3
<1>5. PICK start \in Nat : Follows(payload, LIST0, LONGLIST, bytes, o, start)
      BY <1>1, <1>2, <1>4, PrefixedOccurs
<1>6. start > o /\ start + n = o + Len(enc) /\ Occurs(payload, bytes, start)
      BY <1>5 DEF Follows
<1>7. start + n <= Len(bytes) /\ o < Len(bytes)
      BY <1>2, <1>6 DEF Occurs
<1>. DEFINE end == start + n
<1>8. ItemsFrom(later, start, end) = Stopped(s, end)
  <2>1. LaterReads(later, T, e, bytes, start)
    <3>1. \A p \in Nat : p >= start => p >= o + 1
          BY <1>6
    <3>. QED BY <3>1 DEF LaterReads
  <2>2. Len(Payload(s, e)) <= MaxEncoding /\ Occurs(Payload(s, e), bytes, start)
        BY <1>4, <1>6 DEF payload
  <2>3. ItemsFrom(later, start, start + Len(Payload(s, e))) = Stopped(s, start + Len(Payload(s, e)))
        BY <2>1, <2>2, ItemsRead
  <2>. QED BY <2>3 DEF payload
<1>9. decode_list(bytes, later, start, n) = Found(List(s), end)
  <2>1. ~(start + n > Len(bytes))
        BY <1>2, <1>7
  <2>2. ListExactly(Stopped(s, end), end) = Found(List(s), end)
        BY DEF ListExactly, Stopped
  <2>. QED BY <1>8, <2>1, <2>2, Zenon DEF decode_list
<1>10. decode_item(bytes, later, o) = decode_list(bytes, later, start, n)
  <2>1. CASE n <= SHORT /\ start = o + 1 /\ bytes[o + 1] = LIST0 + n
    <3>1. n \in 0..SHORT
          BY <1>2, <2>1, Layout
    <3>. HIDE DEF n
    <3>. QED BY <1>7, <2>1, <3>1, ShortList
  <2>2. ASSUME NEW k \in 1..LENGTHS, start = o + 1 + k, bytes[o + 1] = LONGLIST + k,
               from_bytes(Part(bytes, o + 1, o + 1 + k)) = n
        PROVE  decode_item(bytes, later, o) = decode_list(bytes, later, start, n)
    <3>. HIDE DEF n
    <3>1. ~(o + 1 + k > Len(bytes))
          BY <1>2, <1>7, <2>2
    <3>2. decode_item(bytes, later, o) =
              IF o + 1 + k > Len(bytes) THEN ValueError
              ELSE decode_list(bytes, later, o + 1 + k, from_bytes(Part(bytes, o + 1, o + 1 + k)))
          BY <1>7, <2>2, LongList
    <3>. QED BY <2>2, <3>1, <3>2
  <2>. QED BY <1>5, <2>1, <2>2 DEF Follows
<1>. QED BY <1>2, <1>6, <1>9, <1>10

(* Wherever an item's encoding is found, it is read as the item.             *)
THEOREM EncodedIsRead ==
    ASSUME NEW bytes \in Seq(Nat), NEW d \in 0..MaxDepth, NEW i \in Items[d], NEW o \in Nat,
           Len(Encodings[d][i]) <= MaxEncoding, Occurs(Encodings[d][i], bytes, o)
    PROVE  At(bytes, o) = Found(i, o + Len(Encodings[d][i]))
<1>. DEFINE Good(n) == \A x \in Items[n], p \in Nat :
                          Len(Encodings[n][x]) <= MaxEncoding /\ Occurs(Encodings[n][x], bytes, p)
                             => At(bytes, p) = Found(x, p + Len(Encodings[n][x]))
            P == {n \in Nat : n <= MaxDepth => Good(n)}
<1>1. ASSUME NEW n \in 0..MaxDepth, n # 0 => Good(n - 1)
      PROVE  Good(n)
  <2>. SUFFICES ASSUME NEW x \in Items[n], NEW p \in Nat,
                       Len(Encodings[n][x]) <= MaxEncoding, Occurs(Encodings[n][x], bytes, p)
                PROVE  At(bytes, p) = Found(x, p + Len(Encodings[n][x]))
       OBVIOUS
  <2>. DEFINE enc == Encodings[n][x]
              later == Later(bytes, p)
  <2>1. enc \in Seq(Nat) /\ Len(enc) >= 1 /\ Len(bytes) \in Nat
        BY EncodingsType
  <2>2. p \in 0..Len(bytes) /\ p < Len(bytes)
    <3>1. p + Len(enc) <= Len(bytes)
          BY DEF Occurs
    <3>. HIDE DEF enc
    <3>. QED BY <2>1, <3>1
  <2>3. At(bytes, p) = decode_item(bytes, later, p)
        BY <2>1, <2>2, Reading
  <2>4. CASE IsString(x)
    <3>1. x.bytes \in Seq(Byte) /\ enc = encode_string(x.bytes) /\ x = String(x.bytes)
      <4>1. x.bytes \in Seq(Byte) /\ x = String(x.bytes)
            BY <2>4, ItemKinds
      <4>2. enc = encode_string(x.bytes)
            BY <2>4, EncodingsAre
      <4>. QED BY <4>1, <4>2
    <3>2. Len(encode_string(x.bytes)) <= MaxEncoding /\ Occurs(encode_string(x.bytes), bytes, p)
          BY <3>1
    <3>. HIDE DEF enc, later
    <3>3. decode_item(bytes, later, p) = Found(String(x.bytes), p + Len(encode_string(x.bytes)))
          BY <3>1, <3>2, StringReads
    <3>. QED BY <2>3, <3>1, <3>3 DEF enc
  <2>5. CASE ~IsString(x)
    <3>. DEFINE T == Items[n - 1]
                e == Encodings[n - 1]
                s == x.items
    <3>1. n \in 1..MaxDepth /\ s \in Seq(T) /\ x = List(s)
          BY <2>5, ItemKinds
    <3>2. enc = encode_list(s, e)
          BY <2>5, EncodingsAre
    <3>3. n - 1 \in 0..MaxDepth /\ n # 0
          BY <3>1, Layout
    <3>4. IsCode(e, T)
          BY <3>3, EncodingsType DEF IsCode
    <3>5. LaterReads(later, T, e, bytes, p + 1)
      <4>. SUFFICES ASSUME NEW y \in T, NEW r \in Nat, r >= p + 1, Len(e[y]) <= MaxEncoding,
                           Occurs(e[y], bytes, r)
                    PROVE  later[r] = Found(y, r + Len(e[y]))
           BY DEF LaterReads
      <4>1. At(bytes, r) = Found(y, r + Len(e[y]))
            BY <1>1, <3>3
      <4>2. r + Len(e[y]) <= Len(bytes) /\ e[y] \in Seq(Nat) /\ Len(e[y]) >= 1
            BY <3>4 DEF Occurs, IsCode
      <4>3. Len(e[y]) \in Nat
            BY <4>2
      <4>4. r \in (p + 1)..Len(bytes)
        <5>. HIDE DEF e
        <5>. QED BY <2>1, <4>2, <4>3
      <4>. QED BY <4>1, <4>4 DEF Later
    <3>6. Len(encode_list(s, e)) <= MaxEncoding /\ Occurs(encode_list(s, e), bytes, p)
          BY <3>2
    <3>. HIDE DEF T, e, s, later, enc
    <3>7. decode_item(bytes, later, p) = Found(List(s), p + Len(encode_list(s, e)))
          BY <3>1, <3>4, <3>5, <3>6, ListReads
    <3>. QED BY <2>3, <3>1, <3>2, <3>7 DEF enc
  <2>. QED BY <2>4, <2>5
<1>. HIDE DEF Good
<1>2. 0 \in P
      BY <1>1, Layout
<1>3. ASSUME NEW n \in Nat, n \in P
      PROVE  n + 1 \in P
  <2>1. CASE n + 1 <= MaxDepth
    <3>1. n + 1 \in 0..MaxDepth /\ (n + 1) - 1 = n /\ n <= MaxDepth
          BY <2>1, Layout
    <3>2. Good(n)
          BY <1>3, <3>1
    <3>3. Good(n + 1)
          BY <1>1, <3>1, <3>2
    <3>. QED BY <3>3
  <2>. QED BY <2>1
<1>4. Nat \subseteq P
  <2>. HIDE DEF P
  <2>. QED BY <1>2, <1>3, Induction
<1>5. d \in Nat /\ d <= MaxDepth
      BY Layout
<1>6. Good(d)
      BY <1>4, <1>5
<1>. QED BY <1>6 DEF Good

(* rlp_decode undoes rlp_encode, for every item whose encoding is not too    *)
(* long for its length to be written (rlp_encode and rlp_decode of           *)
(* encoding/rlp.py).                                                         *)
THEOREM DecodeInvertsEncode ==
    ASSUME NEW i \in Items[MaxDepth], Len(rlp_encode(i)) <= MaxEncoding
    PROVE  rlp_decode(rlp_encode(i)) = Found(i, Len(rlp_encode(i)))
<1>. DEFINE enc == rlp_encode(i)
<1>1. MaxDepth \in 0..MaxDepth /\ enc = Encodings[MaxDepth][i]
      BY Layout DEF rlp_encode
<1>2. enc \in Seq(Nat) /\ Len(enc) \in Nat
  <2>1. enc \in Seq(Nat)
        BY <1>1, EncodingsType
  <2>. HIDE DEF enc
  <2>. QED BY <2>1
<1>. HIDE DEF enc
<1>3. Occurs(enc, enc, 0)
  <2>1. \A k \in 1..Len(enc) : 0 + k = k
        BY <1>2
  <2>. QED BY <1>2, <2>1 DEF Occurs
<1>4. Len(Encodings[MaxDepth][i]) <= MaxEncoding /\ Occurs(Encodings[MaxDepth][i], enc, 0)
      BY <1>1, <1>3 DEF enc
<1>5. At(enc, 0) = Found(i, 0 + Len(Encodings[MaxDepth][i]))
      BY <1>1, <1>2, <1>4, EncodedIsRead
<1>6. Len(enc) - 0 = Len(enc) /\ 0 + Len(enc) = Len(enc)
      BY <1>2
<1>7. Decodings(enc)[Len(enc)] = Found(i, Len(enc))
      BY <1>1, <1>5, <1>6 DEF At
<1>8. rlp_decode(enc) = Found(i, Len(enc))
  <2>1. Found(i, Len(enc)).ok /\ Found(i, Len(enc)).end = Len(enc)
        BY DEF Found
  <2>. QED BY <1>7, <2>1, Zenon DEF rlp_decode
<1>. QED BY <1>8 DEF enc

(* Different items have different encodings, so what is hashed after it is   *)
(* encoded (transactions, blocks, contract addresses, accounts) is told      *)
(* apart before it is hashed (rlp_encode of encoding/rlp.py).                *)
THEOREM EncodeIsInjective ==
    ASSUME NEW i \in Items[MaxDepth], NEW j \in Items[MaxDepth],
           Len(rlp_encode(i)) <= MaxEncoding, rlp_encode(i) = rlp_encode(j)
    PROVE  i = j
<1>1. rlp_decode(rlp_encode(i)) = Found(i, Len(rlp_encode(i)))
      BY DecodeInvertsEncode
<1>2. Len(rlp_encode(j)) <= MaxEncoding
      OBVIOUS
<1>3. rlp_decode(rlp_encode(j)) = Found(j, Len(rlp_encode(j)))
      BY <1>2, DecodeInvertsEncode
<1>4. Found(i, Len(rlp_encode(i))).item = i /\ Found(j, Len(rlp_encode(j))).item = j
      BY DEF Found
<1>. QED BY <1>1, <1>3, <1>4

-----------------------------------------------------------------------------
(* What is decoded                                                           *)
(* What the loop of _decode_list has read, and how far, after every round.   *)
Trace(its, pos, later, start, end, T) ==
    /\ its[0] = <<>> /\ pos[0] = start
    /\ ItemsFrom(later, start, end) = Stopped(its[end - start], pos[end - start])
    /\ \A n \in 0..(end - start) : its[n] \in Seq(T) /\ pos[n] \in Nat /\ pos[n] >= start
    /\ \A n \in 1..(end - start) :
          \/ pos[n - 1] >= end /\ pos[n] = pos[n - 1] /\ its[n] = its[n - 1]
          \/ /\ pos[n - 1] < end /\ pos[n] > pos[n - 1]
             /\ \E x \in T : later[pos[n - 1]] = Found(x, pos[n]) /\ its[n] = Append(its[n - 1], x)

(* Items are found further on in the data.                                   *)
FindsAhead(later, start, end, T) ==
    \A p \in Nat : p >= start /\ p < end /\ later[p].ok
                     => \E x \in T, q \in Nat : q > p /\ later[p] = Found(x, q)

LEMMA Traces ==
    ASSUME NEW later, NEW start \in Nat, NEW end \in Nat, start <= end, NEW T,
           FindsAhead(later, start, end, T), ItemsFrom(later, start, end).ok
    PROVE  \E its, pos : Trace(its, pos, later, start, end, T)
<1>. DEFINE m == end - start
<1>0. m \in Nat
      OBVIOUS
<1>1. PICK after : RoundsOf(after, later, start, end)
      BY Rounds
<1>2. /\ after[0] = Stopped(<<>>, start)
      /\ \A n \in 1..m : after[n] = Round(later, end, after[n - 1])
      /\ ItemsFrom(later, start, end) = after[m] /\ after[m].ok
      BY <1>1 DEF RoundsOf
<1>. HIDE DEF m
<1>3. \A n \in 0..m : after[n].ok
  <2>. DEFINE P == {k \in Nat : k <= m => after[m - k].ok}
  <2>1. 0 \in P
        BY <1>0, <1>2
  <2>2. ASSUME NEW k \in Nat, k \in P
        PROVE  k + 1 \in P
    <3>1. CASE k + 1 <= m
      <4>1. m - k \in 1..m /\ (m - k) - 1 = m - (k + 1) /\ k <= m
            BY <1>0, <3>1
      <4>2. after[m - k] = Round(later, end, after[m - (k + 1)]) /\ after[m - k].ok
            BY <1>2, <2>2, <4>1
      <4>3. after[m - (k + 1)].ok
            BY <4>2, Zenon DEF Round
      <4>. QED BY <4>3
    <3>. QED BY <3>1
  <2>3. Nat \subseteq P
    <3>. HIDE DEF P
    <3>. QED BY <2>1, <2>2, Induction
  <2>4. ASSUME NEW n \in 0..m
        PROVE  after[n].ok
    <3>1. m - n \in Nat /\ m - n <= m /\ m - (m - n) = n
          BY <1>0
    <3>2. after[m - (m - n)].ok
          BY <2>3, <3>1
    <3>. QED BY <3>1, <3>2
  <2>. QED BY <2>4
<1>. DEFINE its == [n \in 0..m |-> after[n].items]
            pos == [n \in 0..m |-> after[n].pos]
            Good(n) == /\ after[n] = Stopped(after[n].items, after[n].pos)
                       /\ after[n].items \in Seq(T) /\ after[n].pos \in Nat
                       /\ after[n].pos >= start
            Step(n) ==
               \/ after[n - 1].pos >= end /\ after[n] = after[n - 1]
               \/ /\ after[n - 1].pos < end /\ after[n].pos > after[n - 1].pos
                  /\ \E x \in T : /\ later[after[n - 1].pos] = Found(x, after[n].pos)
                                  /\ after[n].items = Append(after[n - 1].items, x)
<1>4. ASSUME NEW n \in 1..m, Good(n - 1)
      PROVE  Good(n) /\ Step(n)
  <2>. DEFINE i == after[n - 1].items
              p == after[n - 1].pos
  <2>1. n \in 0..m /\ n - 1 \in 0..m
        BY <1>0
  <2>2. after[n].ok /\ after[n] = Round(later, end, after[n - 1]) /\ after[n - 1] = Stopped(i, p)
        BY <1>2, <1>3, <1>4, <2>1
  <2>. HIDE DEF i, p
  <2>i. i \in Seq(T) /\ p \in Nat /\ p >= start
        BY <1>4 DEF i, p
  <2>3. CASE p >= end
    <3>1. after[n] = Stopped(i, p)
          BY <2>2, <2>3, RoundRests
    <3>2. after[n] = after[n - 1]
          BY <2>2, <3>1
    <3>. QED BY <1>4, <2>3, <3>2 DEF p
  <2>4. CASE ~(p >= end)
    <3>1. later[p].ok
      <4>1. Stopped(i, p).ok /\ Stopped(i, p).pos = p
            BY DEF Stopped
      <4>2. ~ValueError.ok
            BY DEF ValueError
      <4>. QED BY <2>2, <2>4, <4>1, <4>2, Zenon DEF Round
    <3>2. PICK x \in T, q \in Nat : q > p /\ later[p] = Found(x, q)
          BY <2>i, <2>4, <3>1 DEF FindsAhead
    <3>3. after[n] = Stopped(Append(i, x), q)
          BY <2>2, <2>4, <3>2, RoundReads
    <3>4. after[n].items = Append(i, x) /\ after[n].pos = q
          BY <3>3 DEF Stopped
    <3>5. Append(i, x) \in Seq(T)
          BY <2>i
    <3>6. Good(n)
      <4>1. q >= start
            BY <2>i, <3>2
      <4>. QED BY <3>2, <3>3, <3>4, <3>5, <4>1
    <3>7. p < end
          BY <2>i, <2>4
    <3>8. Step(n)
          BY <3>2, <3>4, <3>7 DEF p, i
    <3>. QED BY <3>6, <3>8
  <2>. QED BY <2>3, <2>4
<1>5. Good(0)
  <2>1. Stopped(<<>>, start).items = <<>> /\ Stopped(<<>>, start).pos = start
        BY DEF Stopped
  <2>2. <<>> \in Seq(T) /\ start >= start
        OBVIOUS
  <2>3. after[0].items = <<>> /\ after[0].pos = start
        BY <1>2, <2>1
  <2>4. after[0] = Stopped(after[0].items, after[0].pos)
        BY <1>2, <2>3
  <2>. QED BY <2>2, <2>3, <2>4, Zenon
<1>6. \A n \in 0..m : Good(n)
  <2>. HIDE DEF Good, Step
  <2>. DEFINE P == {n \in Nat : n <= m => Good(n)}
  <2>1. 0 \in P
        BY <1>5
  <2>2. ASSUME NEW n \in Nat, n \in P
        PROVE  n + 1 \in P
    <3>1. CASE n + 1 <= m
      <4>1. n + 1 \in 1..m /\ (n + 1) - 1 = n /\ n <= m
            BY <1>0, <3>1
      <4>2. Good(n + 1)
            BY <1>4, <2>2, <4>1
      <4>. QED BY <4>2
    <3>. QED BY <3>1
  <2>3. Nat \subseteq P
    <3>. HIDE DEF P
    <3>. QED BY <2>1, <2>2, Induction
  <2>4. \A n \in 0..m : n \in Nat /\ n <= m
        BY <1>0
  <2>. QED BY <2>3, <2>4
<1>7. \A n \in 1..m : n \in 0..m /\ n - 1 \in 0..m
      BY <1>0
<1>8. \A n \in 1..m : Step(n)
  <2>. HIDE DEF Good, Step
  <2>. QED BY <1>4, <1>6, <1>7
<1>9. 0 \in 0..m /\ m \in 0..m
      BY <1>0
<1>10. its[0] = <<>> /\ pos[0] = start
       BY <1>2, <1>9 DEF Stopped
<1>11. ItemsFrom(later, start, end) = Stopped(its[m], pos[m])
       BY <1>2, <1>6, <1>9
<1>12. \A n \in 0..m : its[n] \in Seq(T) /\ pos[n] \in Nat /\ pos[n] >= start
       BY <1>6
<1>13. ASSUME NEW n \in 1..m
       PROVE  \/ pos[n - 1] >= end /\ pos[n] = pos[n - 1] /\ its[n] = its[n - 1]
              \/ /\ pos[n - 1] < end /\ pos[n] > pos[n - 1]
                 /\ \E x \in T : later[pos[n - 1]] = Found(x, pos[n]) /\ its[n] = Append(its[n - 1], x)
  <2>1. /\ its[n] = after[n].items /\ pos[n] = after[n].pos
        /\ its[n - 1] = after[n - 1].items /\ pos[n - 1] = after[n - 1].pos
        BY <1>7
  <2>2. Step(n)
        BY <1>8
  <2>. HIDE DEF its, pos
  <2>. QED BY <2>1, <2>2
<1>. HIDE DEF its, pos
<1>14. Trace(its, pos, later, start, end, T)
       BY <1>10, <1>11, <1>12, <1>13 DEF Trace, m
<1>. QED BY <1>14

(* The same items in the same places are read again.                         *)
LEMMA TraceRuns ==
    ASSUME NEW later, NEW start \in Nat, NEW end \in Nat, start <= end, NEW T, NEW its, NEW pos,
           Trace(its, pos, later, start, end, T), NEW other,
           \A p \in Nat : p >= start /\ p < end /\ later[p].ok => other[p] = later[p]
    PROVE  ItemsFrom(other, start, end) = ItemsFrom(later, start, end)
<1>. DEFINE m == end - start
<1>0. m \in Nat
      OBVIOUS
<1>1. PICK after : RoundsOf(after, other, start, end)
      BY Rounds
<1>2. /\ after[0] = Stopped(<<>>, start)
      /\ \A n \in 1..m : after[n] = Round(other, end, after[n - 1])
      /\ ItemsFrom(other, start, end) = after[m]
      BY <1>1 DEF RoundsOf
<1>3. /\ its[0] = <<>> /\ pos[0] = start
      /\ ItemsFrom(later, start, end) = Stopped(its[m], pos[m])
      /\ \A n \in 0..m : its[n] \in Seq(T) /\ pos[n] \in Nat /\ pos[n] >= start
      /\ \A n \in 1..m :
          \/ pos[n - 1] >= end /\ pos[n] = pos[n - 1] /\ its[n] = its[n - 1]
          \/ /\ pos[n - 1] < end /\ pos[n] > pos[n - 1]
             /\ \E x \in T : later[pos[n - 1]] = Found(x, pos[n]) /\ its[n] = Append(its[n - 1], x)
      BY DEF Trace
<1>. HIDE DEF m
<1>. DEFINE P == {n \in Nat : n <= m => after[n] = Stopped(its[n], pos[n])}
<1>4. 0 \in P
      BY <1>2, <1>3
<1>5. ASSUME NEW n \in Nat, n \in P
      PROVE  n + 1 \in P
  <2>1. CASE n + 1 <= m
    <3>1. n + 1 \in 1..m /\ n \in 0..m /\ (n + 1) - 1 = n /\ n <= m
          BY <1>0, <2>1
    <3>2. after[n + 1] = Round(other, end, Stopped(its[n], pos[n]))
          BY <1>2, <1>5, <3>1
    <3>3. CASE pos[n] >= end /\ pos[n + 1] = pos[n] /\ its[n + 1] = its[n]
      <4>1. after[n + 1] = Stopped(its[n + 1], pos[n + 1])
            BY <3>2, <3>3, RoundRests
      <4>. QED BY <4>1
    <3>4. ASSUME pos[n] < end, NEW x \in T, later[pos[n]] = Found(x, pos[n + 1]),
                 its[n + 1] = Append(its[n], x)
          PROVE  n + 1 \in P
      <4>1. later[pos[n]].ok
            BY <3>4 DEF Found
      <4>2. pos[n] \in Nat /\ pos[n] >= start /\ ~(pos[n] >= end)
            BY <1>3, <3>1, <3>4
      <4>3. other[pos[n]] = Found(x, pos[n + 1])
            BY <3>4, <4>1, <4>2
      <4>4. after[n + 1] = Stopped(its[n + 1], pos[n + 1])
            BY <3>2, <3>4, <4>2, <4>3, RoundReads
      <4>. QED BY <4>4
    <3>5. \/ pos[n] >= end /\ pos[n + 1] = pos[n] /\ its[n + 1] = its[n]
          \/ /\ pos[n] < end
             /\ \E x \in T : later[pos[n]] = Found(x, pos[n + 1]) /\ its[n + 1] = Append(its[n], x)
          BY <1>3, <3>1
    <3>. HIDE DEF P
    <3>. QED BY <3>3, <3>4, <3>5
  <2>. QED BY <2>1
<1>6. Nat \subseteq P
  <2>. HIDE DEF P
  <2>. QED BY <1>4, <1>5, Induction
<1>7. after[m] = Stopped(its[m], pos[m])
      BY <1>0, <1>6
<1>. QED BY <1>2, <1>3, <1>7

(* Where a payload starts and how long it is, by the prefix.                 *)
Header(bytes, o, short, long, start, n) ==
    /\ start <= Len(bytes) /\ start > o
    /\ \/ n <= SHORT /\ start = o + 1 /\ bytes[o + 1] = short + n
       \/ \E k \in 1..LENGTHS : /\ start = o + 1 + k /\ bytes[o + 1] = long + k
                                /\ n = from_bytes(Part(bytes, o + 1, o + 1 + k))

LEMMA HeaderDecides ==
    ASSUME NEW bytes \in Seq(Nat), NEW later, NEW o \in Nat, o < Len(bytes),
           NEW start \in Nat, NEW n \in Nat
    PROVE  /\ Header(bytes, o, STRING0, LONGSTRING, start, n)
                 => decode_item(bytes, later, o) = StringTo(bytes, start, start + n)
           /\ Header(bytes, o, LIST0, LONGLIST, start, n)
                 => decode_item(bytes, later, o) = decode_list(bytes, later, start, n)
<1>0. Len(bytes) \in Nat /\ SHORT \in Nat
      BY Layout
<1>1. ASSUME Header(bytes, o, STRING0, LONGSTRING, start, n)
      PROVE  decode_item(bytes, later, o) = StringTo(bytes, start, start + n)
  <2>1. CASE n <= SHORT /\ start = o + 1 /\ bytes[o + 1] = STRING0 + n
    <3>1. n \in 0..SHORT
          BY <1>0, <2>1
    <3>. QED BY <2>1, <3>1, ShortString
  <2>2. ASSUME NEW k \in 1..LENGTHS, start = o + 1 + k, bytes[o + 1] = LONGSTRING + k,
               n = from_bytes(Part(bytes, o + 1, o + 1 + k))
        PROVE  decode_item(bytes, later, o) = StringTo(bytes, start, start + n)
    <3>1. ~(o + 1 + k > Len(bytes))
          BY <1>0, <1>1, <2>2 DEF Header
    <3>2. decode_item(bytes, later, o) =
              IF o + 1 + k > Len(bytes) THEN ValueError
              ELSE StringTo(bytes, o + 1 + k,
                            o + 1 + k + from_bytes(Part(bytes, o + 1, o + 1 + k)))
          BY <2>2, LongString
    <3>. QED BY <2>2, <3>1, <3>2
  <2>. QED BY <1>1, <2>1, <2>2 DEF Header
<1>2. ASSUME Header(bytes, o, LIST0, LONGLIST, start, n)
      PROVE  decode_item(bytes, later, o) = decode_list(bytes, later, start, n)
  <2>1. CASE n <= SHORT /\ start = o + 1 /\ bytes[o + 1] = LIST0 + n
    <3>1. n \in 0..SHORT
          BY <1>0, <2>1
    <3>. QED BY <2>1, <3>1, ShortList
  <2>2. ASSUME NEW k \in 1..LENGTHS, start = o + 1 + k, bytes[o + 1] = LONGLIST + k,
               n = from_bytes(Part(bytes, o + 1, o + 1 + k))
        PROVE  decode_item(bytes, later, o) = decode_list(bytes, later, start, n)
    <3>1. ~(o + 1 + k > Len(bytes))
          BY <1>0, <1>2, <2>2 DEF Header
    <3>2. decode_item(bytes, later, o) =
              IF o + 1 + k > Len(bytes) THEN ValueError
              ELSE decode_list(bytes, later, o + 1 + k, from_bytes(Part(bytes, o + 1, o + 1 + k)))
          BY <2>2, LongList
    <3>. QED BY <2>2, <3>1, <3>2
  <2>. QED BY <1>2, <2>1, <2>2 DEF Header
<1>. QED BY <1>1, <1>2

(* What is found at an offset is a byte, a string or a list.                 *)
IsByte(bytes, o, r) == bytes[o + 1] < STRING0 /\ r = Found(String(<<bytes[o + 1]>>), o + 1)

IsStringPart(bytes, o, start, n, r) ==
    /\ Header(bytes, o, STRING0, LONGSTRING, start, n) /\ start + n <= Len(bytes)
    /\ r = Found(String(Part(bytes, start, start + n)), start + n)

IsListPart(bytes, later, o, start, n, r) ==
    /\ Header(bytes, o, LIST0, LONGLIST, start, n) /\ start + n <= Len(bytes)
    /\ ItemsFrom(later, start, start + n).ok /\ ItemsFrom(later, start, start + n).pos = start + n
    /\ r = Found(List(ItemsFrom(later, start, start + n).items), start + n)

LEMMA ItemIs ==
    ASSUME NEW bytes \in Seq(Byte), NEW later, NEW o \in Nat, decode_item(bytes, later, o).ok
    PROVE  /\ o < Len(bytes)
           /\ \/ IsByte(bytes, o, decode_item(bytes, later, o))
              \/ \E start, n \in Nat : IsStringPart(bytes, o, start, n, decode_item(bytes, later, o))
              \/ \E start, n \in Nat :
                    IsListPart(bytes, later, o, start, n, decode_item(bytes, later, o))
<1>. DEFINE r == decode_item(bytes, later, o)
<1>0. bytes \in Seq(Nat) /\ Len(bytes) \in Nat /\ ~ValueError.ok
      BY BytesAreNumbers DEF ValueError
<1>1. o < Len(bytes)
  <2>1. SUFFICES ASSUME o >= Len(bytes) PROVE FALSE
        BY <1>0
  <2>2. r = ValueError
        BY <2>1 DEF decode_item
  <2>. QED BY <1>0, <2>2
<1>. HIDE DEF r
<1>r. r.ok
      BY DEF r
<1>2. ASSUME NEW start \in Nat, NEW n \in Nat, Header(bytes, o, STRING0, LONGSTRING, start, n)
      PROVE  IsStringPart(bytes, o, start, n, r)
  <2>1. r = StringTo(bytes, start, start + n)
        BY <1>0, <1>1, <1>2, HeaderDecides DEF r
  <2>2. ~(start + n > Len(bytes))
        BY <1>0, <1>r, <2>1 DEF StringTo
  <2>3. r = Found(String(Part(bytes, start, start + n)), start + n)
        BY <2>1, <2>2 DEF StringTo
  <2>. QED BY <1>0, <1>2, <2>2, <2>3 DEF IsStringPart
<1>3. ASSUME NEW start \in Nat, NEW n \in Nat, Header(bytes, o, LIST0, LONGLIST, start, n)
      PROVE  IsListPart(bytes, later, o, start, n, r)
  <2>. DEFINE read == ItemsFrom(later, start, start + n)
  <2>1. r = decode_list(bytes, later, start, n)
        BY <1>0, <1>1, <1>3, HeaderDecides DEF r
  <2>2. ~(start + n > Len(bytes))
        BY <1>0, <1>r, <2>1 DEF decode_list
  <2>3. r = ListExactly(read, start + n)
        BY <2>1, <2>2 DEF decode_list
  <2>. HIDE DEF read
  <2>4. read.ok /\ read.pos = start + n
        BY <1>0, <1>r, <2>3, Zenon DEF ListExactly
  <2>5. r = Found(List(read.items), start + n)
        BY <2>3, <2>4 DEF ListExactly
  <2>. QED BY <1>0, <1>3, <2>2, <2>4, <2>5 DEF IsListPart, read
<1>4. bytes[o + 1] \in Byte
  <2>1. o + 1 \in 1..Len(bytes)
        BY <1>0, <1>1
  <2>. QED BY <2>1
<1>5. CASE bytes[o + 1] < STRING0
  <2>1. r = Found(String(<<bytes[o + 1]>>), o + 1)
        BY <1>0, <1>1, <1>5, ByteItem DEF r
  <2>. QED BY <1>1, <1>5, <2>1 DEF IsByte, r
<1>6. ASSUME NEW n \in 0..SHORT, bytes[o + 1] = STRING0 + n
      PROVE  \E start, l \in Nat : IsStringPart(bytes, o, start, l, r)
  <2>1. o + 1 \in Nat /\ o + 1 <= Len(bytes) /\ o + 1 > o /\ n \in Nat /\ n <= SHORT
        BY <1>0, <1>1, Layout
  <2>2. Header(bytes, o, STRING0, LONGSTRING, o + 1, n)
        BY <1>6, <2>1 DEF Header
  <2>. QED BY <1>2, <2>1, <2>2
<1>7. ASSUME NEW n \in 0..SHORT, bytes[o + 1] = LIST0 + n
      PROVE  \E start, l \in Nat : IsListPart(bytes, later, o, start, l, r)
  <2>1. o + 1 \in Nat /\ o + 1 <= Len(bytes) /\ o + 1 > o /\ n \in Nat /\ n <= SHORT
        BY <1>0, <1>1, Layout
  <2>2. Header(bytes, o, LIST0, LONGLIST, o + 1, n)
        BY <1>7, <2>1 DEF Header
  <2>. QED BY <1>3, <2>1, <2>2
<1>8. ASSUME NEW k \in 1..LENGTHS, o + 1 + k <= Len(bytes)
      PROVE  from_bytes(Part(bytes, o + 1, o + 1 + k)) \in Nat
  <2>1. o + 1 \in Nat /\ k \in Nat /\ (o + 1) + k <= Len(bytes)
        BY <1>8, Layout
  <2>2. Part(bytes, o + 1, o + 1 + k) \in Seq(Byte)
        BY <2>1, Parts
  <2>. QED BY <2>2, FromBytes
<1>9. ASSUME NEW k \in 1..LENGTHS, bytes[o + 1] = LONGSTRING + k
      PROVE  \E start, l \in Nat : IsStringPart(bytes, o, start, l, r)
  <2>1. decode_item(bytes, later, o) =
              IF o + 1 + k > Len(bytes) THEN ValueError
              ELSE StringTo(bytes, o + 1 + k,
                            o + 1 + k + from_bytes(Part(bytes, o + 1, o + 1 + k)))
        BY <1>0, <1>1, <1>9, LongString
  <2>2. ~(o + 1 + k > Len(bytes))
        BY <1>0, <1>r, <2>1 DEF r
  <2>. DEFINE n == from_bytes(Part(bytes, o + 1, o + 1 + k))
  <2>3. o + 1 + k \in Nat /\ o + 1 + k <= Len(bytes) /\ o + 1 + k > o
        BY <1>0, <2>2, Layout
  <2>4. n \in Nat
        BY <1>8, <2>3
  <2>5. Header(bytes, o, STRING0, LONGSTRING, o + 1 + k, n)
        BY <1>9, <2>3 DEF Header
  <2>. HIDE DEF n
  <2>. QED BY <1>2, <2>3, <2>4, <2>5
<1>10. ASSUME NEW k \in 1..LENGTHS, bytes[o + 1] = LONGLIST + k
       PROVE  \E start, l \in Nat : IsListPart(bytes, later, o, start, l, r)
  <2>1. decode_item(bytes, later, o) =
              IF o + 1 + k > Len(bytes) THEN ValueError
              ELSE decode_list(bytes, later, o + 1 + k, from_bytes(Part(bytes, o + 1, o + 1 + k)))
        BY <1>0, <1>1, <1>10, LongList
  <2>2. ~(o + 1 + k > Len(bytes))
        BY <1>0, <1>r, <2>1 DEF r
  <2>. DEFINE n == from_bytes(Part(bytes, o + 1, o + 1 + k))
  <2>3. o + 1 + k \in Nat /\ o + 1 + k <= Len(bytes) /\ o + 1 + k > o
        BY <1>0, <2>2, Layout
  <2>4. n \in Nat
        BY <1>8, <2>3
  <2>5. Header(bytes, o, LIST0, LONGLIST, o + 1 + k, n)
        BY <1>10, <2>3 DEF Header
  <2>. HIDE DEF n
  <2>. QED BY <1>3, <2>3, <2>4, <2>5
<1>. QED BY <1>1, <1>4, <1>5, <1>6, <1>7, <1>9, <1>10, KindsOfPrefix DEF r

(* What is found ends further on.                                            *)
LEMMA ReadsAhead ==
    ASSUME NEW bytes \in Seq(Byte), NEW o \in 0..Len(bytes), At(bytes, o).ok
    PROVE  /\ o < Len(bytes) /\ At(bytes, o) = decode_item(bytes, Later(bytes, o), o)
           /\ \E x, q : At(bytes, o) = Found(x, q) /\ q \in (o + 1)..Len(bytes)
<1>. DEFINE r == decode_item(bytes, Later(bytes, o), o)
            later == Later(bytes, o)
<1>0. Len(bytes) \in Nat /\ o \in Nat
      OBVIOUS
<1>1. At(bytes, o) = r
      BY <1>0, Reading
<1>. HIDE DEF later
<1>2. /\ o < Len(bytes)
      /\ \/ IsByte(bytes, o, r)
         \/ \E start, n \in Nat : IsStringPart(bytes, o, start, n, r)
         \/ \E start, n \in Nat : IsListPart(bytes, later, o, start, n, r)
      BY <1>0, <1>1, ItemIs DEF later
<1>. HIDE DEF r
<1>3. ASSUME NEW start \in Nat, NEW n \in Nat, start > o, start + n <= Len(bytes)
      PROVE  start + n \in (o + 1)..Len(bytes)
      BY <1>0, <1>3
<1>4. CASE IsByte(bytes, o, r)
  <2>1. o + 1 \in (o + 1)..Len(bytes)
        BY <1>0, <1>2
  <2>. QED BY <1>1, <1>2, <1>4, <2>1 DEF IsByte, r
<1>5. ASSUME NEW start \in Nat, NEW n \in Nat, IsStringPart(bytes, o, start, n, r)
      PROVE  \E x, q : r = Found(x, q) /\ q \in (o + 1)..Len(bytes)
      BY <1>3, <1>5 DEF IsStringPart, Header
<1>6. ASSUME NEW start \in Nat, NEW n \in Nat, IsListPart(bytes, later, o, start, n, r)
      PROVE  \E x, q : r = Found(x, q) /\ q \in (o + 1)..Len(bytes)
      BY <1>3, <1>6 DEF IsListPart, Header
<1>. QED BY <1>1, <1>2, <1>4, <1>5, <1>6 DEF r

LEMMA LaterFinds ==
    ASSUME NEW bytes \in Seq(Byte), NEW o \in 0..Len(bytes), NEW start \in Nat, start > o,
           NEW end \in Nat, end <= Len(bytes), NEW T,
           \A p \in 0..Len(bytes) : p > o /\ At(bytes, p).ok => At(bytes, p).item \in T
    PROVE  FindsAhead(Later(bytes, o), start, end, T)
<1>. SUFFICES ASSUME NEW p \in Nat, p >= start, p < end, Later(bytes, o)[p].ok
              PROVE  \E x \in T, q \in Nat : q > p /\ Later(bytes, o)[p] = Found(x, q)
     BY DEF FindsAhead
<1>1. p \in (o + 1)..Len(bytes) /\ p \in 0..Len(bytes) /\ p > o
      OBVIOUS
<1>2. Later(bytes, o)[p] = At(bytes, p)
      BY <1>1 DEF Later
<1>3. PICK x, q : At(bytes, p) = Found(x, q) /\ q \in (p + 1)..Len(bytes)
      BY <1>1, <1>2, ReadsAhead
<1>4. q \in Nat /\ q > p
      BY <1>1, <1>3
<1>5. x \in T
  <2>1. Found(x, q).item = x
        BY DEF Found
  <2>. QED BY <1>1, <1>2, <1>3, <2>1
<1>. QED BY <1>2, <1>3, <1>4, <1>5

-----------------------------------------------------------------------------
(* No encoding begins another *)
Starts(bytes, more) ==
    Len(bytes) <= Len(more) /\ \A k \in 1..Len(bytes) : more[k] = bytes[k]

LEMMA SameParts ==
    ASSUME NEW bytes \in Seq(Byte), NEW more \in Seq(Byte), Starts(bytes, more),
           NEW o \in Nat, NEW n \in Nat, o + n <= Len(bytes)
    PROVE  Part(more, o, o + n) = Part(bytes, o, o + n)
<1>1. Len(bytes) \in Nat /\ Len(more) \in Nat /\ o + n <= Len(more)
      BY DEF Starts
<1>. DEFINE p == Part(bytes, o, o + n)
            q == Part(more, o, o + n)
<1>2. /\ p \in Seq(Byte) /\ Len(p) = n /\ \A k \in 1..n : p[k] = bytes[o + k]
      /\ q \in Seq(Byte) /\ Len(q) = n /\ \A k \in 1..n : q[k] = more[o + k]
  <2>1. p \in Seq(Byte) /\ Len(p) = n /\ \A k \in 1..n : p[k] = bytes[o + k]
        BY Parts
  <2>2. q \in Seq(Byte) /\ Len(q) = n /\ \A k \in 1..n : q[k] = more[o + k]
        BY <1>1, Parts
  <2>. HIDE DEF p, q
  <2>. QED BY <2>1, <2>2
<1>. HIDE DEF p, q
<1>3. \A k \in 1..n : o + k \in 1..Len(bytes)
      BY <1>1
<1>4. \A k \in 1..n : p[k] = q[k]
      BY <1>2, <1>3 DEF Starts
<1>5. q = p
      BY <1>2, <1>4, SeqEqual
<1>. QED BY <1>5 DEF p, q

LEMMA SameHeader ==
    ASSUME NEW bytes \in Seq(Byte), NEW more \in Seq(Byte), Starts(bytes, more),
           NEW o \in Nat, o < Len(bytes), NEW short, NEW long, NEW start \in Nat, NEW n \in Nat,
           Header(bytes, o, short, long, start, n)
    PROVE  Header(more, o, short, long, start, n)
<1>1. start <= Len(bytes) /\ start > o /\ Len(bytes) \in Nat /\ Len(more) \in Nat
      BY DEF Header
<1>2. start <= Len(more) /\ more[o + 1] = bytes[o + 1]
  <2>1. o + 1 \in 1..Len(bytes)
        BY <1>1
  <2>. QED BY <1>1, <2>1 DEF Starts
<1>3. CASE n <= SHORT /\ start = o + 1 /\ bytes[o + 1] = short + n
      BY <1>1, <1>2, <1>3 DEF Header
<1>4. ASSUME NEW k \in 1..LENGTHS, start = o + 1 + k, bytes[o + 1] = long + k,
             n = from_bytes(Part(bytes, o + 1, o + 1 + k))
      PROVE  Header(more, o, short, long, start, n)
  <2>1. o + 1 \in Nat /\ k \in Nat /\ (o + 1) + k <= Len(bytes)
        BY <1>1, <1>4, Layout
  <2>2. Part(more, o + 1, o + 1 + k) = Part(bytes, o + 1, o + 1 + k)
        BY <2>1, SameParts
  <2>. QED BY <1>1, <1>2, <1>4, <2>2 DEF Header
<1>. QED BY <1>3, <1>4 DEF Header

(* Bytes that come after it change nothing in what is found.                 *)
LEMMA SameAhead ==
    ASSUME NEW bytes \in Seq(Byte), NEW more \in Seq(Byte), Starts(bytes, more),
           NEW o \in 0..Len(bytes), At(bytes, o).ok
    PROVE  At(more, o) = At(bytes, o)
<1>. DEFINE P == {left \in Nat : \A p \in 0..Len(bytes) : Len(bytes) - p = left /\ At(bytes, p).ok
                                                           => At(more, p) = At(bytes, p)}
<1>0. Len(bytes) \in Nat /\ Len(more) \in Nat /\ Len(bytes) <= Len(more)
      BY DEF Starts
<1>1. ASSUME NEW left \in Nat, \A l \in Nat : l < left => l \in P
      PROVE  left \in P
  <2>. SUFFICES ASSUME NEW p \in 0..Len(bytes), Len(bytes) - p = left, At(bytes, p).ok
                PROVE  At(more, p) = At(bytes, p)
       OBVIOUS
  <2>1. \A q \in 0..Len(bytes) : q > p /\ At(bytes, q).ok => At(more, q) = At(bytes, q)
    <3>1. \A q \in 0..Len(bytes) : q > p => Len(bytes) - q \in Nat /\ Len(bytes) - q < left
          BY <1>0
    <3>2. \A q \in 0..Len(bytes) : q > p => Len(bytes) - q \in P
      <4>. HIDE DEF P
      <4>. QED BY <1>1, <3>1
    <3>. QED BY <3>2
  <2>. DEFINE later == Later(bytes, p)
              other == Later(more, p)
              r == At(bytes, p)
  <2>2. p \in Nat /\ p < Len(bytes) /\ r = decode_item(bytes, later, p)
        BY <1>0, ReadsAhead
  <2>3. p < Len(more) /\ At(more, p) = decode_item(more, other, p)
    <3>1. p < Len(more) /\ p \in 0..Len(more)
          BY <1>0, <2>2
    <3>. QED BY <1>0, <3>1, Reading
  <2>. HIDE DEF later, other, r
  <2>4. /\ bytes \in Seq(Nat) /\ more \in Seq(Nat)
        /\ \/ IsByte(bytes, p, r)
           \/ \E start, n \in Nat : IsStringPart(bytes, p, start, n, r)
           \/ \E start, n \in Nat : IsListPart(bytes, later, p, start, n, r)
    <3>1. bytes \in Seq(Nat) /\ more \in Seq(Nat)
          BY BytesAreNumbers
    <3>2. decode_item(bytes, later, p).ok
          BY <2>2 DEF r
    <3>. QED BY <2>2, <3>1, <3>2, ItemIs
  <2>5. CASE IsByte(bytes, p, r)
    <3>1. p + 1 \in 1..Len(bytes)
          BY <1>0, <2>2
    <3>2. more[p + 1] = bytes[p + 1] /\ more[p + 1] < STRING0
          BY <2>5, <3>1 DEF Starts, IsByte
    <3>3. decode_item(more, other, p) = Found(String(<<more[p + 1]>>), p + 1)
          BY <2>2, <2>3, <2>4, <3>2, ByteItem
    <3>. QED BY <2>3, <2>5, <3>2, <3>3 DEF IsByte, r
  <2>6. ASSUME NEW start \in Nat, NEW n \in Nat, IsStringPart(bytes, p, start, n, r)
        PROVE  At(more, p) = r
    <3>1. /\ Header(bytes, p, STRING0, LONGSTRING, start, n) /\ start + n <= Len(bytes)
          /\ r = Found(String(Part(bytes, start, start + n)), start + n)
          BY <2>6 DEF IsStringPart
    <3>2. Header(more, p, STRING0, LONGSTRING, start, n)
          BY <2>2, <3>1, SameHeader
    <3>3. decode_item(more, other, p) = StringTo(more, start, start + n)
          BY <2>2, <2>3, <2>4, <3>2, HeaderDecides
    <3>4. Part(more, start, start + n) = Part(bytes, start, start + n)
          BY <3>1, SameParts
    <3>5. ~(start + n > Len(more))
          BY <1>0, <3>1
    <3>. QED BY <2>3, <3>1, <3>3, <3>4, <3>5 DEF StringTo
  <2>7. ASSUME NEW start \in Nat, NEW n \in Nat, IsListPart(bytes, later, p, start, n, r)
        PROVE  At(more, p) = r
    <3>. DEFINE end == start + n
                T == {At(bytes, q).item : q \in 0..Len(bytes)}
                read == ItemsFrom(later, start, end)
    <3>1. /\ Header(bytes, p, LIST0, LONGLIST, start, n) /\ end <= Len(bytes)
          /\ read.ok /\ read.pos = end /\ r = Found(List(read.items), end)
          BY <2>7 DEF IsListPart
    <3>2. decode_item(more, other, p) = decode_list(more, other, start, n)
      <4>1. Header(more, p, LIST0, LONGLIST, start, n)
            BY <2>2, <3>1, SameHeader
      <4>. QED BY <2>2, <2>3, <2>4, <4>1, HeaderDecides
    <3>3. end \in Nat /\ start <= end /\ start > p
          BY <3>1 DEF Header
    <3>4. FindsAhead(later, start, end, T)
      <4>. HIDE DEF end
      <4>1. \A q \in 0..Len(bytes) : q > p /\ At(bytes, q).ok => At(bytes, q).item \in T
            OBVIOUS
      <4>. HIDE DEF T
      <4>. QED BY <3>1, <3>3, <4>1, LaterFinds DEF later
    <3>. HIDE DEF T, end
    <3>5. PICK its, pos : Trace(its, pos, later, start, end, T)
          BY <3>1, <3>3, <3>4, Traces
    <3>6. ASSUME NEW q \in Nat, q >= start, q < end, later[q].ok
          PROVE  other[q] = later[q]
      <4>1. q \in (p + 1)..Len(bytes) /\ q \in (p + 1)..Len(more) /\ q \in 0..Len(bytes) /\ q > p
            BY <1>0, <2>2, <3>1, <3>3, <3>6
      <4>2. later[q] = At(bytes, q) /\ other[q] = At(more, q)
            BY <4>1 DEF later, other, Later
      <4>. QED BY <2>1, <3>6, <4>1, <4>2
    <3>7. ItemsFrom(other, start, end) = read
          BY <3>3, <3>5, <3>6, TraceRuns
    <3>8. decode_list(more, other, start, n) = ListExactly(read, end)
      <4>1. ~(start + n > Len(more))
            BY <1>0, <3>1 DEF end
      <4>. HIDE DEF read
      <4>. QED BY <3>7, <4>1 DEF decode_list, end
    <3>. HIDE DEF read
    <3>9. ListExactly(read, end) = r
          BY <3>1 DEF ListExactly
    <3>. QED BY <2>3, <3>2, <3>8, <3>9
  <2>. QED BY <2>4, <2>5, <2>6, <2>7 DEF r
<1>2. Nat \subseteq P
  <2>. HIDE DEF P
  <2>. QED BY <1>1, StrongInduction
<1>3. Len(bytes) - o \in P
  <2>1. Len(bytes) - o \in Nat
        BY <1>0
  <2>. HIDE DEF P
  <2>. QED BY <1>2, <2>1
<1>. QED BY <1>3

LEMMA Decoded ==
    ASSUME NEW bytes \in Seq(Byte), rlp_decode(bytes).ok
    PROVE  /\ 0 \in 0..Len(bytes) /\ At(bytes, 0).ok /\ At(bytes, 0).end = Len(bytes)
           /\ rlp_decode(bytes) = At(bytes, 0)
<1>1. Len(bytes) \in Nat /\ Len(bytes) - 0 = Len(bytes) /\ ~ValueError.ok
      BY DEF ValueError
<1>2. At(bytes, 0) = Decodings(bytes)[Len(bytes)]
      BY <1>1 DEF At
<1>3. 0 \in 0..Len(bytes)
      BY <1>1
<1>. QED BY <1>1, <1>2, <1>3, Zenon DEF rlp_decode

(* A string that decodes is not the beginning of another that does, so       *)
(* encodings can be told apart when they are joined, as                      *)
(* state_root_placeholder of state/world_state.py joins them (rlp_decode of  *)
(* encoding/rlp.py).                                                         *)
THEOREM DecodeIsPrefixFree ==
    ASSUME NEW bytes \in Seq(Byte), NEW more \in Seq(Byte), Starts(bytes, more),
           rlp_decode(bytes).ok, rlp_decode(more).ok
    PROVE  bytes = more
<1>1. At(more, 0) = At(bytes, 0)
      BY Decoded, SameAhead
<1>2. Len(bytes) = Len(more)
      BY <1>1, Decoded
<1>3. \A k \in 1..Len(bytes) : bytes[k] = more[k]
      BY DEF Starts
<1>. QED BY <1>2, <1>3, SeqEqual

-----------------------------------------------------------------------------
(* The encoder's is the shortest form *)
LEMMA OccursConcat ==
    ASSUME NEW bytes \in Seq(Nat), NEW s \in Seq(Nat), NEW t \in Seq(Nat), NEW o \in Nat,
           Occurs(s, bytes, o), Occurs(t, bytes, o + Len(s))
    PROVE  Occurs(s \o t, bytes, o)
<1>. DEFINE j == s \o t
<1>1. /\ Len(j) = Len(s) + Len(t) /\ Len(s) \in Nat /\ Len(t) \in Nat
      /\ \A k \in 1..Len(s) : j[k] = s[k]
      /\ \A k \in 1..Len(t) : j[Len(s) + k] = t[k]
      OBVIOUS
<1>2. /\ (o + Len(s)) + Len(t) <= Len(bytes)
      /\ \A k \in 1..Len(s) : bytes[o + k] = s[k]
      /\ \A k \in 1..Len(t) : bytes[(o + Len(s)) + k] = t[k]
      BY DEF Occurs
<1>. HIDE DEF j
<1>3. o + Len(j) <= Len(bytes)
      BY <1>1, <1>2
<1>4. ASSUME NEW k \in 1..Len(j)
      PROVE  bytes[o + k] = j[k]
  <2>1. CASE k <= Len(s)
    <3>1. k \in 1..Len(s)
          BY <1>1, <2>1
    <3>. QED BY <1>1, <1>2, <3>1
  <2>2. CASE k > Len(s)
    <3>. DEFINE l == k - Len(s)
    <3>1. l \in 1..Len(t) /\ Len(s) + l = k /\ (o + Len(s)) + l = o + k
          BY <1>1, <2>2
    <3>. HIDE DEF l
    <3>. QED BY <1>1, <1>2, <3>1
  <2>. QED BY <1>1, <2>1, <2>2
<1>5. Occurs(j, bytes, o)
      BY <1>3, <1>4 DEF Occurs
<1>. QED BY <1>5 DEF j

LEMMA PartOccurs ==
    ASSUME NEW bytes \in Seq(Byte), NEW o \in Nat, NEW n \in Nat, o + n <= Len(bytes)
    PROVE  /\ Occurs(Part(bytes, o, o + n), bytes, o) /\ Len(Part(bytes, o, o + n)) = n
           /\ Part(bytes, o, o + n) \in Seq(Byte)
<1>. DEFINE p == Part(bytes, o, o + n)
<1>1. p \in Seq(Byte) /\ Len(p) = n /\ \A k \in 1..n : p[k] = bytes[o + k]
      BY Parts
<1>. HIDE DEF p
<1>2. Occurs(p, bytes, o)
      BY <1>1 DEF Occurs
<1>. QED BY <1>1, <1>2 DEF p

(* An encoding is no longer than what was read, and is what was read if it   *)
(* is as long.                                                               *)
Fits(s, bytes, p, q) == Len(s) <= q - p /\ (Len(s) = q - p => Occurs(s, bytes, p))

LEMMA AddsUp ==
    /\ \A a, k, l, n \in Nat :
          a <= k /\ l <= n => (1 + a + l <= 1 + k + n /\ (1 + a + l = 1 + k + n => a = k /\ l = n))
    /\ \A l, n \in Nat : 1 + l = 1 + n => l = n
OBVIOUS

LEMMA BothFit ==
    ASSUME NEW a \in Nat, NEW b \in Nat, NEW p \in Nat, NEW q \in Nat, NEW s \in Nat,
           a <= p - s, b <= q - p, a + b = q - s
    PROVE  a = p - s /\ b = q - p /\ s + a = p
OBVIOUS

LEMMA HeaderFits ==
    ASSUME NEW bytes \in Seq(Byte), NEW o \in Nat, o < Len(bytes), NEW short \in Nat,
           NEW long \in Nat, NEW start \in Nat, NEW n \in Nat,
           Header(bytes, o, short, long, start, n), start + n <= Len(bytes),
           NEW payload \in Seq(Nat), Fits(payload, bytes, start, start + n)
    PROVE  Fits(Prefixed(short, long, payload), bytes, o, start + n)
<1>. DEFINE l == Len(payload)
            enc == Prefixed(short, long, payload)
<1>0. l \in Nat /\ Len(bytes) \in Nat /\ bytes \in Seq(Nat) /\ SHORT \in Nat
      BY BytesAreNumbers, Layout
<1>1. l <= n /\ (l = n => Occurs(payload, bytes, start))
  <2>1. (start + n) - start = n
        OBVIOUS
  <2>. QED BY <2>1 DEF Fits
<1>2. ASSUME l <= SHORT
      PROVE  enc = <<short + l>> \o payload /\ Len(enc) = 1 + l
  <2>1. enc = <<short + l>> \o payload
        BY <1>2 DEF Prefixed
  <2>2. Len(<<short + l>> \o payload) = 1 + l
        OBVIOUS
  <2>. QED BY <2>1, <2>2
<1>3. ASSUME NEW c \in Nat, bytes[o + 1] = c
      PROVE  Occurs(<<c>>, bytes, o) /\ <<c>> \in Seq(Nat) /\ Len(<<c>>) = 1
  <2>. DEFINE h == <<c>>
  <2>1. h \in Seq(Nat) /\ Len(h) = 1 /\ h[1] = c
        OBVIOUS
  <2>. HIDE DEF h
  <2>2. o + 1 <= Len(bytes) /\ \A k \in 1..1 : k = 1
        BY <1>0
  <2>3. Occurs(h, bytes, o)
        BY <1>3, <2>1, <2>2 DEF Occurs
  <2>. QED BY <2>1, <2>3 DEF h
<1>4. CASE n <= SHORT /\ start = o + 1 /\ bytes[o + 1] = short + n
  <2>1. l <= SHORT /\ (start + n) - o = 1 + n
        BY <1>0, <1>1, <1>4
  <2>2. enc = <<short + l>> \o payload /\ Len(enc) = 1 + l
        BY <1>2, <2>1
  <2>3. ASSUME Len(enc) = (start + n) - o
        PROVE  Occurs(enc, bytes, o)
    <3>1. l = n
      <4>1. 1 + l = 1 + n
            BY <2>1, <2>2, <2>3
      <4>. QED BY <1>0, <4>1, AddsUp
    <3>. DEFINE c == short + l
                h == <<c>>
    <3>2. c \in Nat /\ bytes[o + 1] = c /\ Occurs(payload, bytes, o + 1)
          BY <1>0, <1>1, <1>4, <3>1
    <3>. HIDE DEF c
    <3>3. Occurs(h, bytes, o) /\ h \in Seq(Nat) /\ Len(h) = 1
          BY <1>3, <3>2
    <3>. HIDE DEF h
    <3>4. Occurs(h \o payload, bytes, o)
          BY <1>0, <3>2, <3>3, OccursConcat
    <3>. QED BY <2>2, <3>4 DEF h, c
  <2>4. Len(enc) <= (start + n) - o
        BY <1>0, <1>1, <2>1, <2>2
  <2>. QED BY <2>3, <2>4 DEF Fits
<1>5. ASSUME NEW k \in 1..LENGTHS, start = o + 1 + k, bytes[o + 1] = long + k,
             n = from_bytes(Part(bytes, o + 1, o + 1 + k))
      PROVE  Fits(enc, bytes, o, start + n)
  <2>. DEFINE part == Part(bytes, o + 1, o + 1 + k)
  <2>1. k \in Nat /\ k >= 1 /\ o + 1 \in Nat /\ (o + 1) + k <= Len(bytes)
        BY <1>0, <1>5, Layout
  <2>2. part \in Seq(Byte) /\ Len(part) = k /\ Occurs(part, bytes, o + 1)
        BY <2>1, PartOccurs
  <2>3. (start + n) - o = 1 + k + n
        BY <1>0, <1>5, <2>1
  <2>. HIDE DEF part
  <2>4. CASE l <= SHORT
    <3>1. Len(enc) = 1 + l
          BY <1>2, <2>4
    <3>2. Len(enc) < (start + n) - o
          BY <1>0, <1>1, <2>1, <2>3, <3>1
    <3>3. Len(enc) <= (start + n) - o /\ Len(enc) # (start + n) - o
      <4>1. Len(enc) \in Nat
            BY <1>0, <3>1
      <4>. QED BY <1>0, <2>1, <2>3, <3>2, <4>1, SMTT(30)
    <3>. QED BY <3>3 DEF Fits
  <2>5. CASE l > SHORT
    <3>. DEFINE ds == Digits[l]
                h == <<long + Len(ds)>>
    <3>1. l # 0
          BY <1>0, <2>5
    <3>2. encode_length(l) = ds /\ ds \in Seq(Byte) /\ Len(ds) \in Nat
      <4>. HIDE DEF l
      <4>. QED BY <1>0, <3>1, LengthDigits
    <3>3. enc = h \o ds \o payload
      <4>1. ~(l <= SHORT)
            BY <1>0, <2>5
      <4>. HIDE DEF ds
      <4>. QED BY <3>2, <4>1 DEF Prefixed
    <3>4. ds \in Seq(Nat)
          BY <3>2, BytesAreNumbers
    <3>5. Len(ds) <= Len(Digits[n]) /\ Len(Digits[n]) <= k /\ Len(Digits[n]) \in Nat
          /\ (Len(Digits[n]) = k => Digits[n] = part)
      <4>1. Len(ds) <= Len(Digits[n])
        <5>. HIDE DEF l
        <5>. QED BY <1>0, <1>1, DigitsMonotone
      <4>2. n = from_bytes(part)
            BY <1>5 DEF part
      <4>3. Len(Digits[n]) <= k /\ (Len(Digits[n]) = k => Digits[n] = part)
            BY <2>2, <4>2, FewestDigits
      <4>4. Digits[n] \in Seq(Byte)
            BY DigitsAre
      <4>5. Len(Digits[n]) \in Nat
            BY <4>4
      <4>. QED BY <4>1, <4>3, <4>5
    <3>. HIDE DEF ds
    <3>6. h \in Seq(Nat) /\ Len(h) = 1 /\ h \o ds \in Seq(Nat) /\ Len(h \o ds) = 1 + Len(ds)
          /\ Len(enc) = 1 + Len(ds) + l
      <4>1. h \in Seq(Nat) /\ Len(h) = 1
            BY <3>2
      <4>. HIDE DEF h
      <4>. DEFINE hd == h \o ds
      <4>2. hd \in Seq(Nat) /\ Len(hd) = 1 + Len(ds)
        <5>1. hd \in Seq(Nat) /\ Len(hd) = Len(h) + Len(ds)
              BY <3>4, <4>1, ConcatProperties, Zenon
        <5>. QED BY <4>1, <5>1, Zenon
      <4>. HIDE DEF hd
      <4>3. Len(hd \o payload) = Len(hd) + l
            BY <4>2, ConcatProperties, Zenon
      <4>4. Len(enc) = 1 + Len(ds) + l
            BY <3>3, <4>2, <4>3, Zenon DEF hd
      <4>. QED BY <4>1, <4>2, <4>4 DEF hd
    <3>a. /\ 1 + Len(ds) + l <= 1 + k + n
          /\ 1 + Len(ds) + l = 1 + k + n => Len(ds) = k /\ l = n
      <4>1. Len(ds) <= k /\ l <= n
            BY <1>1, <2>1, <3>2, <3>5
      <4>. HIDE DEF l
      <4>. QED BY <1>0, <2>1, <3>2, <4>1, AddsUp, SMTT(30)
    <3>7. Len(enc) <= (start + n) - o
          BY <2>3, <3>6, <3>a, Zenon
    <3>8. ASSUME Len(enc) = (start + n) - o
          PROVE  Occurs(enc, bytes, o)
      <4>1. l = n /\ Len(ds) = k
            BY <2>3, <3>6, <3>8, <3>a, Zenon
      <4>2. ds = part /\ Occurs(payload, bytes, o + 1 + k)
        <5>1. ds = Digits[n]
              BY <4>1 DEF ds
        <5>2. Digits[n] = part
              BY <3>5, <4>1, <5>1
        <5>. QED BY <1>1, <1>5, <4>1, <5>1, <5>2
      <4>3. Occurs(h, bytes, o)
        <5>1. long + Len(ds) \in Nat /\ bytes[o + 1] = long + Len(ds)
              BY <1>5, <2>1, <4>1
        <5>. QED BY <1>3, <5>1
      <4>. HIDE DEF h
      <4>4. Occurs(h \o ds, bytes, o)
            BY <1>0, <2>2, <3>4, <3>6, <4>2, <4>3, OccursConcat
      <4>5. Occurs((h \o ds) \o payload, bytes, o)
        <5>1. o + Len(h \o ds) = o + 1 + k
              BY <2>1, <3>6, <4>1
        <5>. DEFINE hd == h \o ds
        <5>2. hd \in Seq(Nat) /\ Occurs(hd, bytes, o) /\ Occurs(payload, bytes, o + Len(hd))
              BY <3>6, <4>2, <4>4, <5>1
        <5>. HIDE DEF hd
        <5>3. Occurs(hd \o payload, bytes, o)
              BY <1>0, <5>2, OccursConcat
        <5>. QED BY <5>3 DEF hd
      <4>. QED BY <3>3, <4>5
    <3>. QED BY <3>7, <3>8 DEF Fits
  <2>. QED BY <1>0, <2>4, <2>5
<1>. QED BY <1>4, <1>5 DEF Header

(* If all that was read is in U, so is what each round read.                 *)
LEMMA TraceNarrows ==
    ASSUME NEW later, NEW start \in Nat, NEW end \in Nat, start <= end, NEW T, NEW its, NEW pos,
           Trace(its, pos, later, start, end, T), NEW U, its[end - start] \in Seq(U)
    PROVE  Trace(its, pos, later, start, end, U)
<1>. DEFINE m == end - start
<1>0. m \in Nat
      OBVIOUS
<1>1. /\ its[0] = <<>> /\ pos[0] = start
      /\ ItemsFrom(later, start, end) = Stopped(its[m], pos[m])
      /\ \A n \in 0..m : its[n] \in Seq(T) /\ pos[n] \in Nat /\ pos[n] >= start
      /\ \A n \in 1..m :
          \/ pos[n - 1] >= end /\ pos[n] = pos[n - 1] /\ its[n] = its[n - 1]
          \/ /\ pos[n - 1] < end /\ pos[n] > pos[n - 1]
             /\ \E x \in T : later[pos[n - 1]] = Found(x, pos[n]) /\ its[n] = Append(its[n - 1], x)
      BY DEF Trace
<1>2. ASSUME NEW s \in Seq(T), NEW x \in T, Append(s, x) \in Seq(U)
      PROVE  s \in Seq(U) /\ x \in U
  <2>. DEFINE a == Append(s, x)
  <2>1. /\ Len(a) = Len(s) + 1 /\ Len(s) \in Nat /\ a[Len(s) + 1] = x
        /\ \A k \in 1..Len(s) : a[k] = s[k]
        OBVIOUS
  <2>2. \A k \in 1..Len(a) : a[k] \in U
        BY <1>2
  <2>. HIDE DEF a
  <2>3. x \in U /\ \A k \in 1..Len(s) : s[k] \in U
        BY <2>1, <2>2
  <2>. QED BY <2>3
<1>. HIDE DEF m
<1>3. ASSUME NEW n \in 1..m, its[n] \in Seq(U)
      PROVE  /\ its[n - 1] \in Seq(U)
             /\ \/ pos[n - 1] >= end /\ pos[n] = pos[n - 1] /\ its[n] = its[n - 1]
                \/ /\ pos[n - 1] < end /\ pos[n] > pos[n - 1]
                   /\ \E x \in U : later[pos[n - 1]] = Found(x, pos[n])
                                   /\ its[n] = Append(its[n - 1], x)
  <2>1. n - 1 \in 0..m
        BY <1>0
  <2>2. its[n - 1] \in Seq(T)
        BY <1>1, <2>1
  <2>3. CASE pos[n - 1] >= end /\ pos[n] = pos[n - 1] /\ its[n] = its[n - 1]
        BY <1>3, <2>3
  <2>4. ASSUME pos[n - 1] < end, pos[n] > pos[n - 1], NEW x \in T,
               later[pos[n - 1]] = Found(x, pos[n]), its[n] = Append(its[n - 1], x)
        PROVE  /\ its[n - 1] \in Seq(U)
               /\ pos[n - 1] < end /\ pos[n] > pos[n - 1]
               /\ \E y \in U : later[pos[n - 1]] = Found(y, pos[n])
                               /\ its[n] = Append(its[n - 1], y)
    <3>1. Append(its[n - 1], x) \in Seq(U)
          BY <1>3, <2>4
    <3>2. its[n - 1] \in Seq(U) /\ x \in U
          BY <1>2, <2>2, <3>1
    <3>. QED BY <2>4, <3>2
  <2>5. \/ pos[n - 1] >= end /\ pos[n] = pos[n - 1] /\ its[n] = its[n - 1]
        \/ /\ pos[n - 1] < end /\ pos[n] > pos[n - 1]
           /\ \E x \in T : later[pos[n - 1]] = Found(x, pos[n]) /\ its[n] = Append(its[n - 1], x)
        BY <1>1
  <2>. QED BY <2>3, <2>4, <2>5
<1>. DEFINE P == {k \in Nat : k <= m => its[m - k] \in Seq(U)}
<1>4. 0 \in P
      BY <1>0 DEF m
<1>5. ASSUME NEW k \in Nat, k \in P
      PROVE  k + 1 \in P
  <2>1. CASE k + 1 <= m
    <3>1. m - k \in 1..m /\ (m - k) - 1 = m - (k + 1) /\ k <= m
          BY <1>0, <2>1
    <3>2. its[m - k] \in Seq(U)
          BY <1>5, <3>1
    <3>3. its[(m - k) - 1] \in Seq(U)
          BY <1>3, <3>1, <3>2
    <3>4. its[m - (k + 1)] \in Seq(U)
          BY <3>1, <3>3
    <3>. QED BY <3>4
  <2>. QED BY <2>1
<1>6. Nat \subseteq P
  <2>. HIDE DEF P
  <2>. QED BY <1>4, <1>5, Induction
<1>7. ASSUME NEW n \in 0..m
      PROVE  its[n] \in Seq(U)
  <2>1. m - n \in Nat /\ m - n <= m /\ m - (m - n) = n
        BY <1>0
  <2>2. its[m - (m - n)] \in Seq(U)
        BY <1>6, <2>1
  <2>. QED BY <2>1, <2>2
<1>8. \A n \in 1..m : n \in 0..m
      BY <1>0
<1>9. \A n \in 0..m : its[n] \in Seq(U) /\ pos[n] \in Nat /\ pos[n] >= start
      BY <1>1, <1>7
<1>10. \A n \in 1..m :
          \/ pos[n - 1] >= end /\ pos[n] = pos[n - 1] /\ its[n] = its[n - 1]
          \/ /\ pos[n - 1] < end /\ pos[n] > pos[n - 1]
             /\ \E x \in U : later[pos[n - 1]] = Found(x, pos[n]) /\ its[n] = Append(its[n - 1], x)
  <2>. SUFFICES ASSUME NEW n \in 1..m
                PROVE  \/ pos[n - 1] >= end /\ pos[n] = pos[n - 1] /\ its[n] = its[n - 1]
                       \/ /\ pos[n - 1] < end /\ pos[n] > pos[n - 1]
                          /\ \E x \in U : later[pos[n - 1]] = Found(x, pos[n])
                                          /\ its[n] = Append(its[n - 1], x)
       OBVIOUS
  <2>1. its[n] \in Seq(U)
        BY <1>7, <1>8
  <2>. QED BY <1>3, <2>1
<1>. QED BY <1>1, <1>9, <1>10 DEF Trace, m

(* What a list's payload is encoded to, if every item fits where it was.     *)
FitAhead(later, U, e, bytes, start, end) ==
    \A p, q \in Nat, x \in U : p >= start /\ p < end /\ q > p /\ later[p] = Found(x, q)
                                 => Fits(e[x], bytes, p, q)

LEMMA PayloadFits ==
    ASSUME NEW later, NEW start \in Nat, NEW end \in Nat, start <= end, NEW U, NEW its, NEW pos,
           Trace(its, pos, later, start, end, U), NEW e, IsCode(e, U), NEW bytes \in Seq(Nat),
           FitAhead(later, U, e, bytes, start, end), pos[end - start] = end, start <= Len(bytes)
    PROVE  /\ Payload(its[end - start], e) \in Seq(Nat)
           /\ Fits(Payload(its[end - start], e), bytes, start, end)
<1>. DEFINE m == end - start
            y(n) == Payload(its[n], e)
            Good(n) == /\ y(n) \in Seq(Nat) /\ Len(y(n)) <= pos[n] - start
                       /\ Len(y(n)) = pos[n] - start => Occurs(y(n), bytes, start)
<1>0. m \in Nat
      OBVIOUS
<1>1. /\ its[0] = <<>> /\ pos[0] = start
      /\ \A n \in 0..m : its[n] \in Seq(U) /\ pos[n] \in Nat /\ pos[n] >= start
      /\ \A n \in 1..m :
          \/ pos[n - 1] >= end /\ pos[n] = pos[n - 1] /\ its[n] = its[n - 1]
          \/ /\ pos[n - 1] < end /\ pos[n] > pos[n - 1]
             /\ \E x \in U : later[pos[n - 1]] = Found(x, pos[n]) /\ its[n] = Append(its[n - 1], x)
      BY DEF Trace
<1>c. e \in [U -> Seq(Nat)]
      BY DEF IsCode
<1>p. /\ Payload(<<>>, e) = <<>>
      /\ \A s \in Seq(U) : Payload(s, e) \in Seq(Nat)
      /\ \A s \in Seq(U), x \in U : Payload(Append(s, x), e) = Payload(s, e) \o e[x]
      BY <1>c, Payloads
<1>. HIDE DEF m
<1>2. Good(0)
  <2>1. y(0) = <<>>
        BY <1>1, <1>p
  <2>2. <<>> \in Seq(Nat) /\ Len(<<>>) = 0 /\ start - start = 0
        OBVIOUS
  <2>3. Occurs(<<>>, bytes, start)
    <3>1. start + 0 <= Len(bytes) /\ \A k \in 1..0 : FALSE
          OBVIOUS
    <3>. QED BY <2>2, <3>1 DEF Occurs
  <2>4. Len(y(0)) = 0 /\ y(0) \in Seq(Nat) /\ pos[0] - start = 0 /\ Occurs(y(0), bytes, start)
        BY <1>1, <2>1, <2>2, <2>3
  <2>. HIDE DEF y
  <2>. QED BY <2>4
<1>3. ASSUME NEW n \in 1..m, Good(n - 1)
      PROVE  Good(n)
  <2>0. n \in 0..m /\ n - 1 \in 0..m
        BY <1>0
  <2>1. CASE pos[n - 1] >= end /\ pos[n] = pos[n - 1] /\ its[n] = its[n - 1]
        BY <1>3, <2>1
  <2>2. ASSUME pos[n - 1] < end, pos[n] > pos[n - 1], NEW x \in U,
               later[pos[n - 1]] = Found(x, pos[n]), its[n] = Append(its[n - 1], x)
        PROVE  Good(n)
    <3>. DEFINE a == y(n - 1)
                b == e[x]
                p == pos[n - 1]
                q == pos[n]
    <3>1. y(n) = a \o b /\ a \in Seq(Nat) /\ b \in Seq(Nat)
          BY <1>1, <1>c, <1>p, <2>0, <2>2
    <3>2. /\ Len(a) <= p - start
          /\ Len(a) = p - start => Occurs(a, bytes, start)
          BY <1>3
    <3>3. p \in Nat /\ q \in Nat /\ p >= start /\ q >= start /\ p < end /\ q > p
          BY <1>1, <2>0, <2>2
    <3>4. Len(b) <= q - p /\ (Len(b) = q - p => Occurs(b, bytes, p))
      <4>1. Fits(b, bytes, p, q)
            BY <2>2, <3>3 DEF FitAhead
      <4>. HIDE DEF b, p, q
      <4>. QED BY <4>1 DEF Fits
    <3>. HIDE DEF a, b, p, q
    <3>5. Len(a) \in Nat /\ Len(b) \in Nat /\ Len(a \o b) = Len(a) + Len(b) /\ a \o b \in Seq(Nat)
          BY <3>1
    <3>6. Len(a \o b) <= q - start
          BY <3>2, <3>3, <3>4, <3>5
    <3>7. ASSUME Len(a \o b) = q - start
          PROVE  Occurs(a \o b, bytes, start)
      <4>1. Len(a) = p - start /\ Len(b) = q - p /\ start + Len(a) = p
        <5>1. Len(a) + Len(b) = q - start
              BY <3>5, <3>7
        <5>2. Len(a) <= p - start /\ Len(b) <= q - p
              BY <3>2, <3>4
        <5>3. Len(a) \in Nat /\ Len(b) \in Nat /\ p \in Nat /\ q \in Nat
              BY <3>3, <3>5
        <5>. DEFINE la == Len(a)
                    lb == Len(b)
        <5>4. la + lb = q - start /\ la <= p - start /\ lb <= q - p /\ la \in Nat /\ lb \in Nat
              BY <5>1, <5>2, <5>3
        <5>. HIDE DEF la, lb
        <5>5. la = p - start /\ lb = q - p /\ start + la = p
              BY <5>3, <5>4, BothFit
        <5>. QED BY <5>5 DEF la, lb
      <4>. QED BY <3>1, <3>2, <3>4, <4>1, OccursConcat
    <3>. QED BY <3>1, <3>5, <3>6, <3>7 DEF q
  <2>3. \/ pos[n - 1] >= end /\ pos[n] = pos[n - 1] /\ its[n] = its[n - 1]
        \/ /\ pos[n - 1] < end /\ pos[n] > pos[n - 1]
           /\ \E x \in U : later[pos[n - 1]] = Found(x, pos[n]) /\ its[n] = Append(its[n - 1], x)
        BY <1>1
  <2>. HIDE DEF Good
  <2>. QED BY <2>1, <2>2, <2>3
<1>. HIDE DEF Good
<1>. DEFINE P == {n \in Nat : n <= m => Good(n)}
<1>4. 0 \in P
      BY <1>2
<1>5. ASSUME NEW n \in Nat, n \in P
      PROVE  n + 1 \in P
  <2>1. CASE n + 1 <= m
    <3>1. n + 1 \in 1..m /\ (n + 1) - 1 = n /\ n <= m
          BY <1>0, <2>1
    <3>2. Good(n + 1)
          BY <1>3, <1>5, <3>1
    <3>. QED BY <3>2
  <2>. QED BY <2>1
<1>6. Nat \subseteq P
  <2>. HIDE DEF P
  <2>. QED BY <1>4, <1>5, Induction
<1>7. Good(m)
      BY <1>0, <1>6
<1>. QED BY <1>7 DEF Good, Fits, m

(* Every level of lists takes a byte.                                        *)
LEMMA ItemsTyped ==
    ASSUME NEW bytes \in Seq(Byte), NEW o \in 0..Len(bytes), At(bytes, o).ok,
           Len(bytes) - o <= MaxDepth
    PROVE  At(bytes, o).item \in Items[Len(bytes) - o]
<1>. DEFINE Good(p) == At(bytes, p).ok => At(bytes, p).item \in Items[Len(bytes) - p]
            P == {left \in Nat : left <= MaxDepth =>
                     \A p \in 0..Len(bytes) : Len(bytes) - p = left => Good(p)}
<1>0. Len(bytes) \in Nat /\ MaxDepth \in Nat
      BY Layout
<1>1. ASSUME NEW left \in Nat, \A l \in Nat : l < left => l \in P
      PROVE  left \in P
  <2>. SUFFICES ASSUME left <= MaxDepth, NEW p \in 0..Len(bytes), Len(bytes) - p = left,
                       At(bytes, p).ok
                PROVE  At(bytes, p).item \in Items[left]
       OBVIOUS
  <2>. DEFINE later == Later(bytes, p)
              r == At(bytes, p)
  <2>1. p \in Nat /\ p < Len(bytes) /\ r = decode_item(bytes, later, p)
        BY <1>0, ReadsAhead
  <2>. HIDE DEF later, r
  <2>2. left \in 1..MaxDepth /\ left \in 0..MaxDepth /\ left - 1 \in 0..MaxDepth
        BY <1>0, <2>1
  <2>3. \A q \in 0..Len(bytes) : q > p /\ At(bytes, q).ok => At(bytes, q).item \in Items[left - 1]
    <3>. SUFFICES ASSUME NEW q \in 0..Len(bytes), q > p, At(bytes, q).ok
                  PROVE  At(bytes, q).item \in Items[left - 1]
         OBVIOUS
    <3>. DEFINE l == Len(bytes) - q
    <3>1. l \in Nat /\ l < left /\ l <= MaxDepth /\ l \in 0..MaxDepth /\ l <= left - 1
          BY <1>0, <2>1
    <3>2. l \in P
      <4>. HIDE DEF P, l
      <4>. QED BY <1>1, <3>1
    <3>3. At(bytes, q).item \in Items[l]
          BY <3>1, <3>2
    <3>. HIDE DEF l
    <3>4. Items[l] \subseteq Items[left - 1]
          BY <2>2, <3>1, ItemsGrow
    <3>. QED BY <3>3, <3>4
  <2>4. \/ IsByte(bytes, p, r)
        \/ \E start, n \in Nat : IsStringPart(bytes, p, start, n, r)
        \/ \E start, n \in Nat : IsListPart(bytes, later, p, start, n, r)
    <3>1. decode_item(bytes, later, p).ok
          BY <2>1 DEF r
    <3>. QED BY <2>1, <3>1, ItemIs
  <2>5. CASE IsByte(bytes, p, r)
    <3>. DEFINE s == <<bytes[p + 1]>>
    <3>1. p + 1 \in 1..Len(bytes)
          BY <1>0, <2>1
    <3>2. s \in Seq(Byte)
          BY <3>1
    <3>. HIDE DEF s
    <3>3. r.item = String(s)
          BY <2>5 DEF IsByte, Found, s
    <3>. QED BY <2>2, <3>2, <3>3, ItemKinds DEF r
  <2>6. ASSUME NEW start \in Nat, NEW n \in Nat, IsStringPart(bytes, p, start, n, r)
        PROVE  r.item \in Items[left]
    <3>. DEFINE s == Part(bytes, start, start + n)
    <3>1. start + n <= Len(bytes) /\ r.item = String(s)
          BY <2>6 DEF IsStringPart, Found
    <3>2. s \in Seq(Byte)
          BY <3>1, Parts
    <3>. HIDE DEF s
    <3>. QED BY <2>2, <3>1, <3>2, ItemKinds
  <2>7. ASSUME NEW start \in Nat, NEW n \in Nat, IsListPart(bytes, later, p, start, n, r)
        PROVE  r.item \in Items[left]
    <3>. DEFINE end == start + n
                T == Items[left - 1]
                read == ItemsFrom(later, start, end)
    <3>1. /\ Header(bytes, p, LIST0, LONGLIST, start, n) /\ end <= Len(bytes)
          /\ read.ok /\ r.item = List(read.items)
          BY <2>7 DEF IsListPart, Found
    <3>2. end \in Nat /\ start <= end /\ start > p /\ end - start \in 0..(end - start)
          BY <3>1 DEF Header
    <3>. HIDE DEF end, T
    <3>3. FindsAhead(later, start, end, T)
          BY <2>3, <3>1, <3>2, LaterFinds DEF later, T
    <3>4. PICK its, pos : Trace(its, pos, later, start, end, T)
          BY <3>1, <3>2, <3>3, Traces
    <3>5. read = Stopped(its[end - start], pos[end - start]) /\ its[end - start] \in Seq(T)
          BY <3>2, <3>4 DEF Trace
    <3>. HIDE DEF read
    <3>6. read.items \in Seq(T)
      <4>1. read.items = its[end - start]
            BY <3>5 DEF Stopped
      <4>. QED BY <3>5, <4>1
    <3>. QED BY <2>2, <3>1, <3>6, ItemKinds DEF T
  <2>. QED BY <2>4, <2>5, <2>6, <2>7 DEF r
<1>2. Nat \subseteq P
  <2>. HIDE DEF P
  <2>. QED BY <1>1, StrongInduction
<1>3. Len(bytes) - o \in P
  <2>1. Len(bytes) - o \in Nat
        BY <1>0
  <2>. HIDE DEF P
  <2>. QED BY <1>2, <2>1
<1>. QED BY <1>3

(* Whatever is found, its encoding is no longer than where it was found, and *)
(* is what was there if it is as long (_decode_item of encoding/rlp.py).     *)
THEOREM ReadIsEncoded ==
    ASSUME NEW bytes \in Seq(Byte), NEW o \in 0..Len(bytes), NEW d \in 0..MaxDepth,
           NEW x \in Items[d], NEW q, At(bytes, o) = Found(x, q)
    PROVE  Fits(Encodings[d][x], bytes, o, q)
<1>. DEFINE Good(p) == \A k \in 0..MaxDepth : \A i \in Items[k] : \A end :
                          At(bytes, p) = Found(i, end) => Fits(Encodings[k][i], bytes, p, end)
            P == {left \in Nat : \A p \in 0..Len(bytes) : Len(bytes) - p = left => Good(p)}
<1>0. Len(bytes) \in Nat /\ MaxDepth \in Nat /\ bytes \in Seq(Nat)
      BY Layout, BytesAreNumbers
<1>1. ASSUME NEW left \in Nat, \A l \in Nat : l < left => l \in P
      PROVE  left \in P
  <2>. SUFFICES ASSUME NEW p \in 0..Len(bytes), Len(bytes) - p = left, NEW k \in 0..MaxDepth,
                       NEW i \in Items[k], NEW z, At(bytes, p) = Found(i, z)
                PROVE  Fits(Encodings[k][i], bytes, p, z)
       OBVIOUS
  <2>. DEFINE later == Later(bytes, p)
              r == At(bytes, p)
              enc == Encodings[k][i]
  <2>r. r.ok /\ r.item = i /\ r.end = z
        BY DEF Found
  <2>1. p \in Nat /\ p < Len(bytes) /\ r = decode_item(bytes, later, p)
        BY <1>0, <2>r, ReadsAhead
  <2>. HIDE DEF later, r
  <2>2. \A q1 \in 0..Len(bytes) : q1 > p => Good(q1)
    <3>. SUFFICES ASSUME NEW q1 \in 0..Len(bytes), q1 > p PROVE Good(q1)
         OBVIOUS
    <3>. HIDE DEF Good
    <3>1. Len(bytes) - q1 \in Nat /\ Len(bytes) - q1 < left
          BY <1>0
    <3>2. Len(bytes) - q1 \in P
      <4>. HIDE DEF P
      <4>. QED BY <1>1, <3>1
    <3>. QED BY <3>2
  <2>3. \/ IsByte(bytes, p, r)
        \/ \E start, n \in Nat : IsStringPart(bytes, p, start, n, r)
        \/ \E start, n \in Nat : IsListPart(bytes, later, p, start, n, r)
    <3>1. decode_item(bytes, later, p).ok
          BY <2>1, <2>r
    <3>. QED BY <2>1, <3>1, ItemIs
  <2>. HIDE DEF Good, P
  <2>4. ASSUME NEW s \in Seq(Byte), i = String(s)
        PROVE  enc = encode_string(s)
    <3>1. IsString(i) /\ i.bytes = s
          BY <2>4, ItemKinds
    <3>. QED BY <3>1, EncodingsAre
  <2>5. CASE IsByte(bytes, p, r)
    <3>. DEFINE c == bytes[p + 1]
                s == <<c>>
    <3>1. p + 1 \in 1..Len(bytes)
          BY <1>0, <2>1
    <3>2. c \in Byte /\ c \in Nat /\ c < STRING0
          BY <1>0, <3>1, <2>5, BytesAreNumbers DEF IsByte
    <3>3. i = String(s) /\ z = p + 1
          BY <2>5, <2>r DEF IsByte, Found
    <3>. HIDE DEF c
    <3>4. s \in Seq(Byte) /\ Len(s) = 1 /\ s[1] = c
          BY <3>2
    <3>. HIDE DEF s
    <3>5. enc = s
          BY <2>4, <3>2, <3>3, <3>4 DEF encode_string
    <3>6. Occurs(s, bytes, p)
      <4>1. p + 1 <= Len(bytes) /\ \A j \in 1..1 : j = 1
            BY <1>0, <3>1
      <4>. QED BY <3>4, <4>1 DEF Occurs, c
    <3>7. Len(s) = z - p
          BY <2>1, <3>3, <3>4
    <3>8. Len(s) <= z - p
          BY <2>1, <3>3, <3>4
    <3>9. Fits(s, bytes, p, z)
          BY <3>6, <3>8 DEF Fits
    <3>. QED BY <3>5, <3>9
  <2>6. ASSUME NEW start \in Nat, NEW n \in Nat, IsStringPart(bytes, p, start, n, r)
        PROVE  Fits(enc, bytes, p, z)
    <3>. DEFINE s == Part(bytes, start, start + n)
    <3>1. /\ Header(bytes, p, STRING0, LONGSTRING, start, n) /\ start + n <= Len(bytes)
          /\ i = String(s) /\ z = start + n
          BY <2>6, <2>r DEF IsStringPart, Found
    <3>2. s \in Seq(Byte) /\ Len(s) = n /\ Occurs(s, bytes, start)
          BY <3>1, PartOccurs
    <3>. HIDE DEF s
    <3>3. enc = encode_string(s) /\ s \in Seq(Nat) /\ STRING0 \in Nat /\ LONGSTRING \in Nat
          BY <2>4, <3>1, <3>2, BytesAreNumbers, Layout
    <3>4. Fits(s, bytes, start, start + n)
      <4>1. (start + n) - start = n
            OBVIOUS
      <4>. QED BY <3>2, <4>1 DEF Fits
    <3>5. Fits(Prefixed(STRING0, LONGSTRING, s), bytes, p, start + n)
          BY <2>1, <3>1, <3>3, <3>4, HeaderFits
    <3>6. CASE Len(s) = 1 /\ s[1] < STRING0
      <4>1. enc = s /\ Len(s) = 1
            BY <3>3, <3>6 DEF encode_string
      <4>2. start > p /\ n = 1
            BY <3>1, <3>2, <3>6 DEF Header
      <4>3. (start + n) - p \in Nat /\ 1 < (start + n) - p
            BY <2>1, <4>2
      <4>4. Len(enc) <= z - p /\ Len(enc) # z - p
            BY <3>1, <4>1, <4>3
      <4>. QED BY <4>4 DEF Fits
    <3>7. CASE ~(Len(s) = 1 /\ s[1] < STRING0)
      <4>1. enc = Prefixed(STRING0, LONGSTRING, s)
            BY <3>3, <3>7 DEF encode_string
      <4>. HIDE DEF enc
      <4>. QED BY <3>1, <3>5, <4>1
    <3>. QED BY <3>6, <3>7
  <2>7. ASSUME NEW start \in Nat, NEW n \in Nat, IsListPart(bytes, later, p, start, n, r)
        PROVE  Fits(enc, bytes, p, z)
    <3>. DEFINE end == start + n
                T == {At(bytes, q1).item : q1 \in 0..Len(bytes)}
                read == ItemsFrom(later, start, end)
                U == Items[k - 1]
                e == Encodings[k - 1]
                m == end - start
    <3>1. /\ Header(bytes, p, LIST0, LONGLIST, start, n) /\ end <= Len(bytes)
          /\ read.ok /\ read.pos = end /\ i = List(read.items) /\ z = end
          BY <2>7, <2>r DEF IsListPart, Found
    <3>2. end \in Nat /\ start <= end /\ start > p /\ start <= Len(bytes)
          BY <3>1 DEF Header
    <3>3. FindsAhead(later, start, end, T)
      <4>. HIDE DEF end
      <4>1. \A q1 \in 0..Len(bytes) : q1 > p /\ At(bytes, q1).ok => At(bytes, q1).item \in T
            OBVIOUS
      <4>. HIDE DEF T
      <4>. QED BY <3>1, <3>2, <4>1, LaterFinds DEF later
    <3>. HIDE DEF T, end
    <3>4. PICK its, pos : Trace(its, pos, later, start, end, T)
          BY <3>1, <3>2, <3>3, Traces
    <3>5. read = Stopped(its[m], pos[m])
          BY <3>4 DEF Trace
    <3>. HIDE DEF read
    <3>6. read.items = its[m] /\ pos[m] = end
      <4>1. Stopped(its[m], pos[m]).items = its[m] /\ Stopped(its[m], pos[m]).pos = pos[m]
            BY DEF Stopped
      <4>. QED BY <3>1, <3>5, <4>1, Zenon
    <3>. HIDE DEF m
    <3>7. ~IsString(i) /\ i.items = its[m]
          BY <3>1, <3>6, ItemKinds
    <3>8. k \in 1..MaxDepth /\ its[m] \in Seq(U)
          BY <3>7, ItemKinds
    <3>9. k - 1 \in 0..MaxDepth
          BY <1>0, <3>8
    <3>10. enc = encode_list(its[m], e)
      <4>1. Encodings[k][i] = encode_list(i.items, Encodings[k - 1])
        <5>. HIDE DEF e, enc
        <5>. QED BY <3>7, EncodingsAre
      <4>2. enc = encode_list(i.items, e)
            BY <4>1
      <4>. HIDE DEF enc, e
      <4>. QED BY <3>7, <4>2, Zenon
    <3>11. IsCode(e, U)
          BY <3>9, EncodingsType DEF IsCode
    <3>12. FitAhead(later, U, e, bytes, start, end)
      <4>. SUFFICES ASSUME NEW p1 \in Nat, NEW q1 \in Nat, NEW y \in U, p1 >= start, p1 < end,
                           later[p1] = Found(y, q1)
                    PROVE  Fits(e[y], bytes, p1, q1)
           BY DEF FitAhead
      <4>1. p1 \in (p + 1)..Len(bytes) /\ p1 \in 0..Len(bytes) /\ p1 > p
            BY <1>0, <2>1, <3>1, <3>2
      <4>2. At(bytes, p1) = Found(y, q1)
            BY <4>1 DEF later, Later
      <4>3. Good(p1)
            BY <2>2, <4>1
      <4>. QED BY <3>9, <4>2, <4>3 DEF Good
    <3>. HIDE DEF U, e
    <3>13. Trace(its, pos, later, start, end, U)
          BY <3>2, <3>4, <3>8, TraceNarrows DEF m
    <3>. DEFINE payload == Payload(its[m], e)
    <3>14. payload \in Seq(Nat) /\ Fits(payload, bytes, start, end)
          BY <1>0, <3>2, <3>6, <3>11, <3>12, <3>13, PayloadFits DEF m
    <3>. HIDE DEF payload
    <3>15. Fits(Prefixed(LIST0, LONGLIST, payload), bytes, p, end)
      <4>1. LIST0 \in Nat /\ LONGLIST \in Nat
            BY Layout
      <4>. QED BY <2>1, <3>1, <3>14, <4>1, HeaderFits DEF end
    <3>16. enc = Prefixed(LIST0, LONGLIST, payload)
          BY <3>10 DEF encode_list, payload
    <3>. HIDE DEF enc
    <3>. QED BY <3>1, <3>15, <3>16
  <2>. QED BY <2>3, <2>5, <2>6, <2>7
<1>2. Nat \subseteq P
  <2>. HIDE DEF P
  <2>. QED BY <1>1, StrongInduction
<1>3. Len(bytes) - o \in P
  <2>1. Len(bytes) - o \in Nat
        BY <1>0
  <2>. HIDE DEF P
  <2>. QED BY <1>2, <2>1
<1>. QED BY <1>3

(* What decodes to an item that can be encoded is the item's encoding, or is *)
(* longer (rlp_decode and rlp_encode of encoding/rlp.py).                    *)
THEOREM EncodeIsShortest ==
    ASSUME NEW bytes \in Seq(Byte), rlp_decode(bytes).ok, rlp_decode(bytes).item \in Items[MaxDepth]
    PROVE  \/ rlp_encode(rlp_decode(bytes).item) = bytes
           \/ Len(rlp_encode(rlp_decode(bytes).item)) < Len(bytes)
<1>. DEFINE x == rlp_decode(bytes).item
            enc == rlp_encode(x)
<1>1. /\ 0 \in 0..Len(bytes) /\ At(bytes, 0).ok /\ At(bytes, 0).end = Len(bytes)
      /\ rlp_decode(bytes) = At(bytes, 0)
      BY Decoded
<1>2. At(bytes, 0) = Found(x, Len(bytes))
  <2>1. PICK y, q : At(bytes, 0) = Found(y, q)
        BY <1>1, ReadsAhead
  <2>2. Found(y, q).item = y /\ Found(y, q).end = q
        BY DEF Found
  <2>. QED BY <1>1, <2>1, <2>2
<1>3. MaxDepth \in 0..MaxDepth /\ enc = Encodings[MaxDepth][x]
      BY Layout DEF rlp_encode
<1>4. enc \in Seq(Nat)
      BY <1>3, EncodingsType
<1>5. Fits(enc, bytes, 0, Len(bytes))
      BY <1>1, <1>2, <1>3, ReadIsEncoded
<1>. HIDE DEF enc
<1>6. Len(enc) \in Nat /\ Len(bytes) \in Nat /\ bytes \in Seq(Nat) /\ Len(bytes) - 0 = Len(bytes)
      BY <1>4, BytesAreNumbers
<1>7. ASSUME Len(enc) = Len(bytes)
      PROVE  enc = bytes
  <2>1. Occurs(enc, bytes, 0)
        BY <1>5, <1>6, <1>7 DEF Fits
  <2>2. \A k \in 1..Len(enc) : 0 + k = k
        BY <1>6
  <2>3. \A k \in 1..Len(enc) : enc[k] = bytes[k]
        BY <2>1, <2>2 DEF Occurs
  <2>. QED BY <1>4, <1>6, <1>7, <2>3, SeqEqual
<1>8. Len(enc) <= Len(bytes)
      BY <1>5, <1>6 DEF Fits
<1>9. enc = bytes \/ Len(enc) < Len(bytes)
      BY <1>6, <1>7, <1>8
<1>. QED BY <1>9 DEF enc

-----------------------------------------------------------------------------
(* The state machine *)
RlpInv ==
    /\ item \in Items[MaxDepth] /\ Len(rlp_encode(item)) <= MaxEncoding
    /\ data \in Seq(Byte) /\ Len(data) <= MaxData

LEMMA EmptyString ==
    String(<<>>) \in Items[MaxDepth] /\ Len(rlp_encode(String(<<>>))) <= MaxEncoding
<1>1. String(<<>>) \in Strings /\ MaxDepth \in 0..MaxDepth
  <2>1. <<>> \in Seq(Byte)
        OBVIOUS
  <2>2. String(<<>>) \in Strings
        BY <2>1, ItemKinds
  <2>. QED BY <2>2, Layout
<1>2. String(<<>>) \in Items[MaxDepth]
      BY <1>1, ItemKinds
<1>3. rlp_encode(String(<<>>)) = encode_string(<<>>)
  <2>. DEFINE i == String(<<>>)
  <2>1. IsString(i) /\ i.bytes = <<>>
        BY ItemKinds
  <2>2. i \in Items[MaxDepth]
        BY <1>2
  <2>. HIDE DEF i
  <2>3. Encodings[MaxDepth][i] = encode_string(i.bytes)
        BY <1>1, <2>1, <2>2, EncodingsAre
  <2>. QED BY <2>1, <2>3 DEF rlp_encode, i
<1>4. encode_string(<<>>) = Prefixed(STRING0, LONGSTRING, <<>>)
      BY DEF encode_string
<1>5. Prefixed(STRING0, LONGSTRING, <<>>) = <<STRING0 + 0>> \o <<>>
      BY Layout DEF Prefixed
<1>6. Len(<<STRING0 + 0>> \o <<>>) = 1
      BY Layout
<1>. QED BY <1>2, <1>3, <1>4, <1>5, <1>6, Layout

(* At any time the item can be encoded and what was received is short, which *)
(* is all that the next theorems need of a state (Build and Receive).        *)
THEOREM RlpInvariant == Spec => []RlpInv
<1>1. Init => RlpInv
  <2>. SUFFICES ASSUME Init PROVE RlpInv
       OBVIOUS
  <2>1. <<>> \in Seq(Byte) /\ Len(<<>>) <= MaxData
        BY Layout
  <2>. QED BY <2>1, EmptyString DEF Init, RlpInv
<1>2. RlpInv /\ [Next]_vars => RlpInv'
  <2>. SUFFICES ASSUME RlpInv, [Next]_vars PROVE RlpInv'
       OBVIOUS
  <2>. USE DEF RlpInv
  <2>1. CASE Build
    <3>1. item' \in Items[MaxDepth] /\ Len(rlp_encode(item')) <= MaxEncoding /\ data' = data
          BY <2>1 DEF Build
    <3>. QED BY <3>1 DEF rlp_encode
  <2>2. CASE Receive
    <3>1. PICK b \in Byte : data' = Append(data, b)
          BY <2>2 DEF Receive
    <3>2. data' \in Seq(Byte) /\ Len(data') = Len(data) + 1 /\ Len(data) \in Nat
          BY <3>1
    <3>3. Len(data) < MaxData /\ item' = item
          BY <2>2 DEF Receive
    <3>4. Len(data') <= MaxData
          BY <3>2, <3>3, Layout
    <3>. QED BY <3>2, <3>3, <3>4 DEF rlp_encode
  <2>3. CASE Reset
    <3>1. item' = String(<<>>) /\ data' = <<>>
          BY <2>3 DEF Reset
    <3>2. <<>> \in Seq(Byte) /\ Len(<<>>) <= MaxData
          BY Layout
    <3>. QED BY <3>1, <3>2, EmptyString DEF rlp_encode
  <2>4. CASE UNCHANGED vars
        BY <2>4 DEF vars, rlp_encode
  <2>. QED BY <2>1, <2>2, <2>3, <2>4 DEF Next
<1>. QED BY <1>1, <1>2, PTL DEF Spec

(* Whatever item is put together, its encoding is decoded to it, whole       *)
(* (rlp_encode and rlp_decode of encoding/rlp.py).                           *)
THEOREM RoundTripHolds == Spec => []RoundTrip
<1>1. RlpInv => RoundTrip
  <2>1. ASSUME RlpInv
        PROVE  RoundTrip
    <3>1. rlp_decode(rlp_encode(item)) = Found(item, Len(rlp_encode(item)))
          BY <2>1, DecodeInvertsEncode DEF RlpInv
    <3>. QED BY <3>1 DEF RoundTrip, Found
  <2>. QED BY <2>1
<1>. QED BY <1>1, RlpInvariant, PTL

(* No string that is received decodes when a shorter beginning of it does,   *)
(* and an integer has one form, without leading zeros (rlp_decode and        *)
(* int_to_rlp_bytes of encoding/rlp.py).                                     *)
THEOREM SeparableHolds == Spec => []Separable
<1>1. RlpInv => Separable
  <2>. SUFFICES ASSUME RlpInv PROVE Separable
       OBVIOUS
  <2>1. data \in Seq(Byte)
        BY DEF RlpInv
  <2>2. ASSUME rlp_decode(data).ok, NEW n \in 0..(Len(data) - 1), rlp_decode(SubSeq(data, 1, n)).ok
        PROVE  FALSE
    <3>. DEFINE first == SubSeq(data, 1, n)
    <3>1. /\ first \in Seq(Byte) /\ Len(first) = n /\ n < Len(data) /\ n \in Nat
          /\ \A k \in 1..n : first[k] = data[k]
          BY <2>1
    <3>. HIDE DEF first
    <3>2. Starts(first, data)
          BY <2>1, <3>1 DEF Starts
    <3>3. first = data
          BY <2>1, <2>2, <3>1, <3>2, DecodeIsPrefixFree DEF first
    <3>. QED BY <3>1, <3>3
  <2>3. from_bytes(data) \in Nat
        BY <2>1, FromBytes
  <2>4. /\ from_bytes(Digits[from_bytes(data)]) = from_bytes(data)
        /\ Digits[from_bytes(data)] # <<>> => Digits[from_bytes(data)][1] # 0
        BY <2>3, DigitsMakeNumber
  <2>. QED BY <2>2, <2>4 DEF Separable, int_to_rlp_bytes
<1>. QED BY <1>1, RlpInvariant, PTL

(* Whatever is received and decodes, the encoder writes shorter or in the    *)
(* same way (_decode_item of encoding/rlp.py).                               *)
THEOREM ShortestHolds == Spec => []Shortest
<1>1. RlpInv => Shortest
  <2>. SUFFICES ASSUME RlpInv, rlp_decode(data).ok
                PROVE  \/ rlp_encode(rlp_decode(data).item) = data
                       \/ Len(rlp_encode(rlp_decode(data).item)) < Len(data)
       BY DEF Shortest
  <2>1. data \in Seq(Byte) /\ Len(data) \in Nat /\ Len(data) <= MaxData
        BY DEF RlpInv
  <2>2. /\ 0 \in 0..Len(data) /\ At(data, 0).ok /\ rlp_decode(data) = At(data, 0)
        BY <2>1, Decoded
  <2>3. Len(data) - 0 <= MaxDepth /\ Len(data) - 0 = Len(data) /\ Len(data) <= MaxDepth
        BY <2>1, Layout
  <2>4. At(data, 0).item \in Items[Len(data)]
        BY <2>1, <2>2, <2>3, ItemsTyped
  <2>5. Items[Len(data)] \subseteq Items[MaxDepth]
    <3>1. Len(data) \in 0..MaxDepth /\ MaxDepth \in 0..MaxDepth
          BY <2>1, <2>3, Layout
    <3>. QED BY <2>3, <3>1, ItemsGrow
  <2>6. rlp_decode(data).item \in Items[MaxDepth]
        BY <2>2, <2>4, <2>5
  <2>. QED BY <2>1, <2>6, EncodeIsShortest
<1>. QED BY <1>1, RlpInvariant, PTL
=============================================================================
