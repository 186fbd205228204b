-------------------------- MODULE InterpreterProofs --------------------------
(* Theorems about one frame of the EVM, for every program, every operand and *)
(* every width of words: every handler keeps the words in range, memory is   *)
(* as large as the accesses asked for, execution stays on instructions, and  *)
(* every step that does not end the frame costs gas.                         *)
EXTENDS Interpreter, InductionTheorems, SequenceTheorems

-----------------------------------------------------------------------------
(* Powers of 256.                                                            *)
LEMMA BytePowers ==
    /\ BytePower[0] = 1
    /\ \A n \in Nat : BytePower[n + 1] = 256 * BytePower[n]
    /\ \A n \in Nat : BytePower[n] \in Nat /\ BytePower[n] >= 1
<1>. DEFINE Body(f) == [n \in Nat |-> IF n = 0 THEN 1 ELSE 256 * f[n - 1]]
            step == [n \in Nat |-> [x \in Nat |-> 256 * x]]
<1>1. PICK f : Iterates(f, Nat, 1, step)
  <2>1. step \in [Nat -> [Nat -> Nat]]
        OBVIOUS
  <2>. HIDE DEF step
  <2>. QED BY <2>1, NatRecursion
<1>2. f = Body(f)
  <2>1. f \in [Nat -> Nat] /\ f[0] = 1 /\ \A n \in Nat : f[n + 1] = step[n][f[n]]
        BY <1>1 DEF Iterates
  <2>2. ASSUME NEW n \in Nat, n # 0
        PROVE  f[n] = 256 * f[n - 1]
    <3>1. n - 1 \in Nat /\ (n - 1) + 1 = n
          BY <2>2
    <3>2. f[(n - 1) + 1] = step[n - 1][f[n - 1]] /\ f[n - 1] \in Nat
          BY <2>1, <3>1
    <3>. QED BY <3>1, <3>2
  <2>. HIDE DEF step
  <2>. QED BY <2>1, <2>2
<1>3. BytePower = Body(BytePower)
      BY <1>2 DEF BytePower
<1>. HIDE DEF step
<1>4. BytePower[0] = 1 /\ \A n \in Nat : BytePower[n + 1] = 256 * BytePower[n]
  <2>1. \A n \in Nat : n + 1 \in Nat /\ n + 1 # 0 /\ (n + 1) - 1 = n
        OBVIOUS
  <2>. QED BY <1>3, <2>1
<1>. DEFINE P == {n \in Nat : BytePower[n] \in Nat /\ BytePower[n] >= 1}
<1>5. 0 \in P /\ \A n \in Nat : n \in P => n + 1 \in P
      BY <1>4
<1>6. Nat \subseteq P
  <2>. HIDE DEF P
  <2>. QED BY <1>5, Induction
<1>. QED BY <1>4, <1>6

(* They grow.                                                                *)
LEMMA PowersGrow ==
    ASSUME NEW m \in Nat, NEW n \in Nat, m <= n
    PROVE  BytePower[m] <= BytePower[n]
<1>. DEFINE P == {k \in Nat : BytePower[m] <= BytePower[m + k]}
<1>1. 0 \in P
      BY BytePowers
<1>2. ASSUME NEW k \in Nat, k \in P
      PROVE  k + 1 \in P
  <2>1. m + k \in Nat /\ m + (k + 1) = (m + k) + 1
        OBVIOUS
  <2>2. /\ BytePower[(m + k) + 1] = 256 * BytePower[m + k]
        /\ BytePower[m + k] \in Nat /\ BytePower[m] \in Nat
        BY <2>1, BytePowers
  <2>. QED BY <1>2, <2>1, <2>2
<1>3. Nat \subseteq P
  <2>. HIDE DEF P
  <2>. QED BY <1>1, <1>2, Induction
<1>4. n - m \in P /\ m + (n - m) = n
      BY <1>3
<1>. QED BY <1>4

(* There are words, 0 and 1 among them, and every byte is one.               *)
LEMMA WordValues ==
    /\ MOD_VALUE \in Nat /\ MOD_VALUE >= 256
    /\ WordBytes \in Nat /\ WordBytes >= 1
    /\ 0 \in Word /\ 1 \in Word /\ Byte \subseteq Word /\ Word \subseteq Nat
<1>1. WordBytes \in Nat /\ WordBytes >= 1
      BY WidthAssumption
<1>2. BytePower[0 + 1] = 256 * BytePower[0] /\ BytePower[0] = 1
      BY BytePowers
<1>3. BytePower[1] = 256
      BY <1>2
<1>4. BytePower[1] <= BytePower[WordBytes] /\ BytePower[WordBytes] \in Nat
      BY <1>1, PowersGrow, BytePowers
<1>. QED BY <1>1, <1>3, <1>4 DEF MOD_VALUE, Word, Byte

(* What is padded and cut is bytes.                                          *)
LEMMA SliceType ==
    ASSUME NEW s \in Seq(Byte), NEW offset \in Nat, NEW size \in Nat
    PROVE  /\ Slice(s, offset, size) \in Seq(Byte)
           /\ Len(Slice(s, offset, size)) = size
           /\ \A n \in Nat : ByteAt(s, n) \in Byte
<1>1. \A n \in Nat : ByteAt(s, n) \in Byte
  <2>1. \A n \in Nat : n < Len(s) => s[n + 1] \in Byte
        OBVIOUS
  <2>. QED BY <2>1 DEF ByteAt, Byte
<1>2. \A i \in 1..size : offset + i - 1 \in Nat
      OBVIOUS
<1>3. \A i \in 1..size : ByteAt(s, offset + i - 1) \in Byte
      BY <1>1, <1>2
<1>. QED BY <1>1, <1>3 DEF Slice

(* A number is written with the digits it has, to base 256, from the front.  *)
Numeral(digit, f) == f = [n \in Nat |-> IF n = 0 THEN 0 ELSE f[n - 1] * 256 + digit[n - 1]]

LEMMA NumeralExists ==
    ASSUME NEW digit \in [Nat -> Nat]
    PROVE  \E f : Numeral(digit, f)
<1>. DEFINE step == [n \in Nat |-> [x \in Nat |-> x * 256 + digit[n]]]
<1>1. step \in [Nat -> [Nat -> Nat]]
      OBVIOUS
<1>2. PICK f : Iterates(f, Nat, 0, step)
  <2>. HIDE DEF step
  <2>. QED BY <1>1, NatRecursion
<1>3. f \in [Nat -> Nat] /\ f[0] = 0 /\ \A n \in Nat : f[n + 1] = step[n][f[n]]
      BY <1>2 DEF Iterates
<1>4. ASSUME NEW n \in Nat, n # 0
      PROVE  f[n] = f[n - 1] * 256 + digit[n - 1]
  <2>1. n - 1 \in Nat /\ (n - 1) + 1 = n
        BY <1>4
  <2>2. f[(n - 1) + 1] = step[n - 1][f[n - 1]] /\ f[n - 1] \in Nat
        BY <1>3, <2>1
  <2>. QED BY <2>1, <2>2
<1>5. f \in [Nat -> Nat] /\ f[0] = 0
      BY <1>3
<1>6. f = [n \in Nat |-> IF n = 0 THEN 0 ELSE f[n - 1] * 256 + digit[n - 1]]
  <2>. HIDE DEF step
  <2>. QED BY <1>4, <1>5
<1>. QED BY <1>6 DEF Numeral

LEMMA NumeralBound ==
    ASSUME NEW digit \in [Nat -> Nat], \A n \in Nat : digit[n] <= 255, NEW f, Numeral(digit, f)
    PROVE  \A n \in Nat : f[n] \in 0..(BytePower[n] - 1)
<1>1. f[0] = 0 /\ \A n \in Nat : f[n + 1] = f[n] * 256 + digit[n]
  <2>1. \A n \in Nat : n + 1 \in Nat /\ n + 1 # 0 /\ (n + 1) - 1 = n
        OBVIOUS
  <2>. QED BY <2>1 DEF Numeral
<1>. DEFINE P == {n \in Nat : f[n] \in Nat /\ f[n] < BytePower[n]}
<1>2. 0 \in P
  <2>1. f[0] = 0 /\ BytePower[0] = 1
        BY <1>1, BytePowers
  <2>. QED BY <2>1
<1>3. ASSUME NEW n \in Nat, n \in P
      PROVE  n + 1 \in P
  <2>1. /\ BytePower[n] \in Nat /\ BytePower[n + 1] = 256 * BytePower[n]
        /\ f[n + 1] = f[n] * 256 + digit[n] /\ digit[n] \in Nat /\ digit[n] <= 255
        BY <1>1, BytePowers
  <2>2. f[n] \in Nat /\ f[n] < BytePower[n]
        BY <1>3
  <2>3. f[n + 1] \in Nat /\ f[n + 1] < BytePower[n + 1]
        BY <2>1, <2>2
  <2>. QED BY <2>3
<1>4. Nat \subseteq P
  <2>. HIDE DEF P
  <2>. QED BY <1>2, <1>3, Induction
<1>. QED BY <1>4, BytePowers

(* The value of a byte string is below 256 to its length.                    *)
LEMMA FromBytes ==
    ASSUME NEW s, Len(s) \in Nat,
           \A n \in Nat : ByteAt(s, n) \in Nat /\ ByteAt(s, n) <= 255
    PROVE  from_bytes(s) \in 0..(BytePower[Len(s)] - 1)
<1>. DEFINE digit == [n \in Nat |-> ByteAt(s, n)]
            upto == CHOOSE f : f = [n \in Nat |->
                                      IF n = 0 THEN 0 ELSE f[n - 1] * 256 + ByteAt(s, n - 1)]
<1>1. digit \in [Nat -> Nat] /\ \A n \in Nat : digit[n] <= 255
      OBVIOUS
<1>2. from_bytes(s) = upto[Len(s)]
      BY DEF from_bytes
<1>3. ASSUME NEW f
      PROVE  Numeral(digit, f)
               <=> f = [n \in Nat |-> IF n = 0 THEN 0 ELSE f[n - 1] * 256 + ByteAt(s, n - 1)]
  <2>1. \A n \in Nat : n # 0 => digit[n - 1] = ByteAt(s, n - 1)
        OBVIOUS
  <2>2. [n \in Nat |-> IF n = 0 THEN 0 ELSE f[n - 1] * 256 + digit[n - 1]]
          = [n \in Nat |-> IF n = 0 THEN 0 ELSE f[n - 1] * 256 + ByteAt(s, n - 1)]
    <3>. HIDE DEF digit
    <3>. QED BY <2>1
  <2>. HIDE DEF digit
  <2>. QED BY <2>2 DEF Numeral
<1>. HIDE DEF digit
<1>4. PICK f : Numeral(digit, f)
      BY <1>1, NumeralExists
<1>5. upto = [n \in Nat |-> IF n = 0 THEN 0 ELSE upto[n - 1] * 256 + ByteAt(s, n - 1)]
      BY <1>3, <1>4
<1>. HIDE DEF upto
<1>6. Numeral(digit, upto)
      BY <1>3, <1>5
<1>7. \A n \in Nat : upto[n] \in 0..(BytePower[n] - 1)
      BY <1>1, <1>6, NumeralBound
<1>. QED BY <1>2, <1>7

(* So no more bytes than a word has make a word.                             *)
LEMMA BytesMakeWord ==
    ASSUME NEW s \in Seq(Byte), NEW offset \in Nat, NEW size \in 0..WordBytes
    PROVE  from_bytes(Slice(s, offset, size)) \in Word
<1>. DEFINE t == Slice(s, offset, size)
<1>1. size \in Nat /\ WordBytes \in Nat /\ size <= WordBytes
      BY WordValues
<1>2. t \in Seq(Byte) /\ Len(t) = size
      BY <1>1, SliceType
<1>. HIDE DEF t
<1>3. from_bytes(t) \in 0..(BytePower[size] - 1)
  <2>1. \A n \in Nat : ByteAt(t, n) \in Byte
        BY <1>1, <1>2, SliceType
  <2>2. \A b \in Byte : b \in Nat /\ b <= 255
        BY DEF Byte
  <2>3. \A n \in Nat : ByteAt(t, n) \in Nat /\ ByteAt(t, n) <= 255
        BY <2>1, <2>2
  <2>. QED BY <1>1, <1>2, <2>3, FromBytes
<1>4. BytePower[size] <= MOD_VALUE /\ BytePower[size] \in Nat /\ MOD_VALUE \in Nat
      BY <1>1, PowersGrow, BytePowers, WordValues DEF MOD_VALUE
<1>. QED BY <1>3, <1>4 DEF t, Word

(* A number becomes bytes.                                                   *)
LEMMA ToBytes ==
    ASSUME NEW value \in Nat, NEW size \in Nat
    PROVE  to_bytes(value, size) \in Seq(Byte) /\ Len(to_bytes(value, size)) = size
<1>1. ASSUME NEW i \in 1..size
      PROVE  (value \div BytePower[size - i]) % 256 \in Byte
  <2>1. size - i \in Nat
        OBVIOUS
  <2>2. BytePower[size - i] \in Nat /\ BytePower[size - i] >= 1
        BY <2>1, BytePowers
  <2>3. value \div BytePower[size - i] \in Nat
        BY <2>2
  <2>. QED BY <2>3 DEF Byte
<1>. QED BY <1>1 DEF to_bytes

(* EXP stays a word all the way up.                                          *)
LEMMA PowerWord ==
    ASSUME NEW base \in Nat, NEW exponent \in Nat
    PROVE  Power(base, exponent) \in Word
<1>. DEFINE Body(f) == [n \in Nat |-> IF n = 0 THEN 1 % MOD_VALUE ELSE (f[n - 1] * base) % MOD_VALUE]
            step == [n \in Nat |-> [x \in Word |-> (x * base) % MOD_VALUE]]
            p == CHOOSE f : f = Body(f)
<1>0. \A x \in Nat : x % MOD_VALUE \in Word
      BY WordValues DEF Word
<1>1. \A x \in Word : x * base \in Nat
      BY WordValues
<1>2. step \in [Nat -> [Word -> Word]] /\ 1 % MOD_VALUE \in Word
      BY <1>0, <1>1
<1>3. PICK f : Iterates(f, Word, 1 % MOD_VALUE, step)
      BY <1>2, NatRecursion
<1>4. f = Body(f)
  <2>1. /\ f \in [Nat -> Word] /\ f[0] = 1 % MOD_VALUE
        /\ \A n \in Nat : f[n + 1] = step[n][f[n]]
        BY <1>3 DEF Iterates
  <2>2. ASSUME NEW n \in Nat, n # 0
        PROVE  f[n] = (f[n - 1] * base) % MOD_VALUE
    <3>1. n - 1 \in Nat /\ (n - 1) + 1 = n
          BY <2>2
    <3>2. f[(n - 1) + 1] = step[n - 1][f[n - 1]] /\ f[n - 1] \in Word
          BY <2>1, <3>1
    <3>3. step[n - 1][f[n - 1]] = (f[n - 1] * base) % MOD_VALUE
          BY <3>1, <3>2
    <3>. QED BY <3>1, <3>2, <3>3
  <2>. HIDE DEF step
  <2>. QED BY <2>1, <2>2
<1>5. p = Body(p)
      BY <1>4
<1>6. Power(base, exponent) = p[exponent]
      BY DEF Power
<1>. HIDE DEF p, step
<1>7. p[0] = 1 % MOD_VALUE /\ \A n \in Nat : p[n + 1] = (p[n] * base) % MOD_VALUE
  <2>1. \A n \in Nat : n + 1 \in Nat /\ n + 1 # 0 /\ (n + 1) - 1 = n
        OBVIOUS
  <2>. QED BY <1>5, <2>1
<1>. DEFINE P == {n \in Nat : p[n] \in Word}
<1>8. 0 \in P
      BY <1>2, <1>7
<1>9. ASSUME NEW n \in Nat, n \in P
      PROVE  n + 1 \in P
      BY <1>0, <1>1, <1>7, <1>9
<1>10. Nat \subseteq P
  <2>. HIDE DEF P
  <2>. QED BY <1>8, <1>9, Induction
<1>. QED BY <1>6, <1>10

-----------------------------------------------------------------------------
(* Bits *)

(* The conjunction of two numbers, bit by bit, from the last.                *)
Conjoins(f) ==
    f = [x \in Nat |-> [y \in Nat |->
            IF x = 0 \/ y = 0 THEN 0 ELSE (x % 2) * (y % 2) + 2 * f[x \div 2][y \div 2]]]

LEMMA HalfOf ==
    ASSUME NEW x \in Nat
    PROVE  /\ x \div 2 \in Nat /\ x % 2 \in 0..1 /\ x = 2 * (x \div 2) + (x % 2)
           /\ x # 0 => x \div 2 < x
OBVIOUS

LEMMA ConjunctionExists == \E f : Conjoins(f)
<1>. DEFINE S == [Nat -> Nat]
            zero == [y \in Nat |-> 0]
            step == [x \in Nat |-> [f \in [Nat -> S] |-> [y \in Nat |->
                       IF x = 0 \/ y = 0 THEN 0
                       ELSE (x % 2) * (y % 2) + 2 * f[x \div 2][y \div 2]]]]
<1>1. ASSUME NEW x \in Nat, NEW f \in [Nat -> S]
      PROVE  /\ step[x][f] \in S
             /\ \A y \in Nat : step[x][f][y]
                   = IF x = 0 \/ y = 0 THEN 0
                     ELSE (x % 2) * (y % 2) + 2 * f[x \div 2][y \div 2]
  <2>1. ASSUME NEW y \in Nat
        PROVE  (x % 2) * (y % 2) + 2 * f[x \div 2][y \div 2] \in Nat
    <3>1. x \div 2 \in Nat /\ y \div 2 \in Nat /\ x % 2 \in Nat /\ y % 2 \in Nat
          BY HalfOf
    <3>2. f[x \div 2][y \div 2] \in Nat
          BY <3>1
    <3>3. (x % 2) * (y % 2) \in Nat
          BY <3>1
    <3>. DEFINE u == f[x \div 2][y \div 2]
                v == (x % 2) * (y % 2)
    <3>4. u \in Nat /\ v \in Nat
          BY <3>2, <3>3
    <3>. HIDE DEF u, v
    <3>5. v + 2 * u \in Nat
          BY <3>4
    <3>. QED BY <3>5 DEF u, v
  <2>. QED BY <2>1
<1>2. step \in [Nat -> [[Nat -> S] -> S]] /\ zero \in S
      BY <1>1
<1>3. LooksBack(S, step)
  <2>1. ASSUME NEW x \in Nat, NEW f \in [Nat -> S], NEW g \in [Nat -> S],
               \A m \in Nat : m < x => f[m] = g[m]
        PROVE  step[x][f] = step[x][g]
    <3>1. x # 0 => f[x \div 2] = g[x \div 2]
          BY <2>1, HalfOf
    <3>. QED BY <3>1
  <2>. HIDE DEF step, S
  <2>. QED BY <2>1 DEF LooksBack
<1>. HIDE DEF step
<1>4. PICK f : Settles(f, S, step)
  <2>. HIDE DEF S, zero
  <2>. QED BY <1>2, <1>3, StrongRecursion
<1>5. ASSUME NEW x \in Nat
      PROVE  f[x] = [y \in Nat |->
                IF x = 0 \/ y = 0 THEN 0 ELSE (x % 2) * (y % 2) + 2 * f[x \div 2][y \div 2]]
  <2>1. f \in [Nat -> S] /\ f[x] \in S /\ f[x] = step[x][f]
        BY <1>4 DEF Settles
  <2>2. \A y \in Nat : f[x][y] = IF x = 0 \/ y = 0 THEN 0
                                ELSE (x % 2) * (y % 2) + 2 * f[x \div 2][y \div 2]
    <3>1. \A y \in Nat : step[x][f][y]
             = IF x = 0 \/ y = 0 THEN 0 ELSE (x % 2) * (y % 2) + 2 * f[x \div 2][y \div 2]
          BY <1>1, <2>1
    <3>. DEFINE value == step[x][f]
    <3>2. f[x] = value
          BY <2>1
    <3>3. \A y \in Nat : f[x][y] = value[y]
          BY <3>2
    <3>. QED BY <3>1, <3>3
  <2>. QED BY <2>1, <2>2
<1>6. Conjoins(f)
  <2>1. f \in [Nat -> S]
        BY <1>4 DEF Settles
  <2>. QED BY <1>5, <2>1 DEF Conjoins
<1>. QED BY <1>6

(* BitAnd is one, so it is what its definition says.                         *)
LEMMA BitAndRecurs ==
    ASSUME NEW x \in Nat, NEW y \in Nat
    PROVE  BitAnd(x, y) = IF x = 0 \/ y = 0 THEN 0
                          ELSE (x % 2) * (y % 2) + 2 * BitAnd(x \div 2, y \div 2)
<1>. DEFINE and == CHOOSE f : Conjoins(f)
<1>1. \A a, b : BitAnd(a, b) = and[a][b]
      BY DEF BitAnd, Conjoins
<1>2. Conjoins(and)
      BY ConjunctionExists
<1>. HIDE DEF and
<1>3. and[x][y] = IF x = 0 \/ y = 0 THEN 0
                  ELSE (x % 2) * (y % 2) + 2 * and[x \div 2][y \div 2]
      BY <1>2 DEF Conjoins
<1>. QED BY <1>1, <1>3

(* It is at most either of them.                                             *)
LEMMA BitAndBound ==
    ASSUME NEW x \in Nat, NEW y \in Nat
    PROVE  BitAnd(x, y) \in Nat /\ BitAnd(x, y) <= x /\ BitAnd(x, y) <= y
<1>. DEFINE P == {n \in Nat : \A m \in Nat : /\ BitAnd(n, m) \in Nat
                                             /\ BitAnd(n, m) <= n /\ BitAnd(n, m) <= m}
<1>1. ASSUME NEW n \in Nat, \A k \in Nat : k < n => k \in P
      PROVE  n \in P
  <2>1. ASSUME NEW m \in Nat
        PROVE  BitAnd(n, m) \in Nat /\ BitAnd(n, m) <= n /\ BitAnd(n, m) <= m
    <3>1. CASE n = 0 \/ m = 0
      <4>1. BitAnd(n, m) = 0
            BY <3>1, BitAndRecurs
      <4>. QED BY <4>1
    <3>2. CASE n # 0 /\ m # 0
      <4>. DEFINE r == n % 2
                  s == m % 2
                  h == BitAnd(n \div 2, m \div 2)
      <4>1. BitAnd(n, m) = r * s + 2 * h
            BY <3>2, BitAndRecurs
      <4>2. /\ n \div 2 \in Nat /\ m \div 2 \in Nat /\ r \in 0..1 /\ s \in 0..1
            /\ n = 2 * (n \div 2) + r /\ m = 2 * (m \div 2) + s /\ n \div 2 < n
            BY <3>2, HalfOf
      <4>3. h \in Nat /\ h <= n \div 2 /\ h <= m \div 2
            BY <1>1, <4>2
      <4>4. r * s \in Nat /\ r * s <= r /\ r * s <= s
            BY <4>2
      <4>. HIDE DEF r, s, h
      <4>. QED BY <4>1, <4>2, <4>3, <4>4
    <3>. QED BY <3>1, <3>2
  <2>. QED BY <2>1
<1>2. Nat \subseteq P
  <2>. HIDE DEF P
  <2>. QED BY <1>1, StrongInduction
<1>. QED BY <1>2

(* Numbers below which OR does not lead out; they are closed under doubling, *)
(* so 256 to the n is one of them.                                           *)
OrStays(m) == \A x, y \in 0..(m - 1) : BitOr(x, y) \in 0..(m - 1)

LEMMA OrDoubles ==
    ASSUME NEW m \in Nat, OrStays(m)
    PROVE  OrStays(2 * m)
<1>. SUFFICES ASSUME NEW x \in 0..(2 * m - 1), NEW y \in 0..(2 * m - 1)
              PROVE  BitOr(x, y) \in 0..(2 * m - 1)
     BY DEF OrStays
<1>0. x \in Nat /\ y \in Nat /\ x < 2 * m /\ y < 2 * m
      OBVIOUS
<1>1. CASE x = 0 \/ y = 0
  <2>1. BitAnd(x, y) = 0
        BY <1>0, <1>1, BitAndRecurs
  <2>. QED BY <1>0, <1>1, <2>1 DEF BitOr
<1>2. CASE x # 0 /\ y # 0
  <2>. DEFINE r == x % 2
              s == y % 2
              a == x \div 2
              b == y \div 2
              h == BitAnd(a, b)
  <2>1. BitAnd(x, y) = r * s + 2 * h
        BY <1>0, <1>2, BitAndRecurs
  <2>2. /\ a \in Nat /\ b \in Nat /\ r \in 0..1 /\ s \in 0..1
        /\ x = 2 * a + r /\ y = 2 * b + s
        BY <1>0, HalfOf
  <2>3. h \in Nat
        BY <2>2, BitAndBound
  <2>. HIDE DEF r, s, h, a, b
  <2>4. a \in 0..(m - 1) /\ b \in 0..(m - 1)
        BY <1>0, <2>2
  <2>5. BitOr(a, b) \in 0..(m - 1)
        BY <2>4 DEF OrStays
  <2>6. a + b - h \in 0..(m - 1)
        BY <2>5 DEF BitOr, h
  <2>7. r + s - r * s \in 0..1
        BY <2>2
  <2>8. r * s \in Nat
        BY <2>2
  <2>9. BitOr(x, y) = 2 * (a + b - h) + (r + s - r * s)
        BY <2>1, <2>2, <2>3, <2>8 DEF BitOr
  <2>. QED BY <2>2, <2>3, <2>6, <2>7, <2>8, <2>9
<1>. QED BY <1>1, <1>2

LEMMA BitOrWord ==
    ASSUME NEW x \in Word, NEW y \in Word
    PROVE  BitOr(x, y) \in Word
<1>. DEFINE P == {n \in Nat : OrStays(BytePower[n])}
<1>1. 0 \in P
  <2>1. BitAnd(0, 0) = 0
        BY BitAndRecurs
  <2>2. OrStays(1)
        BY <2>1 DEF OrStays, BitOr
  <2>. QED BY <2>2, BytePowers
<1>2. ASSUME NEW n \in Nat, n \in P
      PROVE  n + 1 \in P
  <2>. DEFINE m == BytePower[n]
  <2>0. m \in Nat /\ OrStays(m) /\ BytePower[n + 1] = 256 * m
        BY <1>2, BytePowers
  <2>. HIDE DEF m
  <2>1. OrStays(2 * m) /\ 2 * m \in Nat
        BY <2>0, OrDoubles
  <2>2. OrStays(4 * m) /\ 4 * m \in Nat /\ 4 * m = 2 * (2 * m)
        BY <2>0, <2>1, OrDoubles
  <2>3. OrStays(8 * m) /\ 8 * m \in Nat /\ 8 * m = 2 * (4 * m)
        BY <2>0, <2>2, OrDoubles
  <2>4. OrStays(16 * m) /\ 16 * m \in Nat /\ 16 * m = 2 * (8 * m)
        BY <2>0, <2>3, OrDoubles
  <2>5. OrStays(32 * m) /\ 32 * m \in Nat /\ 32 * m = 2 * (16 * m)
        BY <2>0, <2>4, OrDoubles
  <2>6. OrStays(64 * m) /\ 64 * m \in Nat /\ 64 * m = 2 * (32 * m)
        BY <2>0, <2>5, OrDoubles
  <2>7. OrStays(128 * m) /\ 128 * m \in Nat /\ 128 * m = 2 * (64 * m)
        BY <2>0, <2>6, OrDoubles
  <2>8. OrStays(256 * m)
    <3>1. 256 * m = 2 * (128 * m)
          BY <2>0
    <3>. QED BY <2>7, <3>1, OrDoubles
  <2>. QED BY <2>0, <2>8
<1>3. Nat \subseteq P
  <2>. HIDE DEF P
  <2>. QED BY <1>1, <1>2, Induction
<1>4. OrStays(MOD_VALUE)
      BY <1>3, WordValues DEF MOD_VALUE
<1>. QED BY <1>4 DEF OrStays, Word

-----------------------------------------------------------------------------
(* What a frame handles: if the value it was sent is a word, words; if not,  *)
(* natural numbers.                                                          *)
Cells == {Word, Nat}

LEMMA CellValues ==
    ASSUME NEW C \in Cells
    PROVE  /\ C \subseteq Nat /\ Word \subseteq C
           /\ \A n \in C, m \in Nat : m <= n => m \in C
<1>1. CASE C = Nat
      BY <1>1, WordValues
<1>2. CASE C = Word
      BY <1>2, WordValues DEF Word
<1>. QED BY <1>1, <1>2 DEF Cells

LEMMA Quotient ==
    ASSUME NEW a \in Nat, NEW b \in Nat, b # 0
    PROVE  /\ a \div b \in Nat /\ a \div b <= a
           /\ a % b \in Nat /\ a % b <= a
<1>. DEFINE q == a \div b
            r == a % b
<1>1. q \in Nat /\ r \in Nat /\ a = q * b + r
      OBVIOUS
<1>. HIDE DEF q, r
<1>2. q * b >= q
      BY <1>1
<1>3. q * b \in Nat
      BY <1>1
<1>4. q <= a /\ r <= a
      BY <1>1, <1>2, <1>3
<1>. QED BY <1>1, <1>4 DEF q, r

(* Each handler of two operands returns a word or nothing larger than its    *)
(* first operand, whatever their sizes; OR of words is a word.               *)
LEMMA ResultCell ==
    ASSUME NEW C \in Cells, NEW op \in Binary, NEW a \in C, NEW b \in C
    PROVE  Result(op, a, b) \in C
<1>1. C \subseteq Nat /\ Word \subseteq C /\ a \in Nat /\ b \in Nat
      BY CellValues
<1>2. \A n \in Nat : n <= a => n \in C
      BY CellValues
<1>3. \A i \in Int : i % MOD_VALUE \in Word
      BY WordValues DEF Word
<1>4. Result(op, a, b) = ResultOf(op, a, b)
      BY DEF Result
<1>5. 0 \in C /\ 1 \in C
      BY <1>1, WordValues
<1>6. CASE op = OP.ADD
  <2>1. ResultOf(op, a, b) = (a + b) % MOD_VALUE
        BY <1>6 DEF ResultOf, OP
  <2>2. a + b \in Int
        BY <1>1
  <2>. QED BY <1>1, <1>3, <1>4, <2>1, <2>2
<1>7. CASE op = OP.MUL
  <2>1. ResultOf(op, a, b) = (a * b) % MOD_VALUE
        BY <1>7 DEF ResultOf, OP
  <2>2. a * b \in Int
        BY <1>1
  <2>. QED BY <1>1, <1>3, <1>4, <2>1, <2>2
<1>8. CASE op = OP.SUB
  <2>1. ResultOf(op, a, b) = (a - b) % MOD_VALUE
        BY <1>8 DEF ResultOf, OP
  <2>2. a - b \in Int
        BY <1>1
  <2>. QED BY <1>1, <1>3, <1>4, <2>1, <2>2
<1>9. CASE op = OP.DIV
  <2>1. ResultOf(op, a, b) = IF b # 0 THEN a \div b ELSE 0
        BY <1>9 DEF ResultOf, OP
  <2>. QED BY <1>1, <1>2, <1>4, <2>1, Quotient, WordValues
<1>10. CASE op = OP.MOD
  <2>1. ResultOf(op, a, b) = IF b # 0 THEN a % b ELSE 0
        BY <1>10 DEF ResultOf, OP
  <2>. QED BY <1>1, <1>2, <1>4, <2>1, Quotient, WordValues
<1>11. CASE op = OP.EXP
  <2>1. ResultOf(op, a, b) = Power(a, b)
        BY <1>11 DEF ResultOf, OP
  <2>. QED BY <1>1, <1>4, <2>1, PowerWord
<1>12. CASE op = OP.LT
  <2>1. ResultOf(op, a, b) = Flag(a < b)
        BY <1>12 DEF ResultOf, OP
  <2>. QED BY <1>4, <1>5, <2>1 DEF Flag
<1>13. CASE op = OP.GT
  <2>1. ResultOf(op, a, b) = Flag(a > b)
        BY <1>13 DEF ResultOf, OP
  <2>. QED BY <1>4, <1>5, <2>1 DEF Flag
<1>14. CASE op = OP.EQ
  <2>1. ResultOf(op, a, b) = Flag(a = b)
        BY <1>14 DEF ResultOf, OP
  <2>. QED BY <1>4, <1>5, <2>1 DEF Flag
<1>15. CASE op = OP.AND
  <2>1. ResultOf(op, a, b) = BitAnd(a, b)
        BY <1>15 DEF ResultOf, OP
  <2>. QED BY <1>1, <1>2, <1>4, <2>1, BitAndBound
<1>16. CASE op = OP.OR
  <2>1. ResultOf(op, a, b) = BitOr(a, b)
        BY <1>16 DEF ResultOf, OP
  <2>2. BitOr(a, b) \in Nat
    <3>1. BitAnd(a, b) \in Nat /\ BitAnd(a, b) <= a
          BY <1>1, BitAndBound
    <3>. QED BY <1>1, <3>1 DEF BitOr
  <2>3. C = Word => BitOr(a, b) \in C
        BY BitOrWord
  <2>. QED BY <1>4, <2>1, <2>2, <2>3 DEF Cells
<1>. QED BY <1>6, <1>7, <1>8, <1>9, <1>10, <1>11, <1>12, <1>13, <1>14, <1>15, <1>16 DEF Binary

-----------------------------------------------------------------------------
(* Instructions *)

(* Where the instruction at each position of a code ends.                    *)
After(c) == [q \in Nat |-> q + 1 + push_size(c[q + 1])]

LEMMA AfterType ==
    ASSUME NEW c
    PROVE  /\ After(c) \in [Nat -> Nat]
           /\ \A q \in Nat : After(c)[q] = q + 1 + push_size(c[q + 1]) /\ After(c)[q] > q
<1>1. \A op : push_size(op) \in Nat
      BY WordValues DEF push_size, PUSH, OP
<1>. QED BY <1>1 DEF After

(* The positions execution can reach from p without jumping: all sets that   *)
(* have p, and what comes after each of their elements, have these.          *)
Closed(next, T) == \A q \in T : next[q] \in T

ReachedFrom(next, p) == {q \in Nat : \A T \in SUBSET Nat : p \in T /\ Closed(next, T) => q \in T}

LEMMA ReachClosed ==
    ASSUME NEW next \in [Nat -> Nat], NEW p \in Nat
    PROVE  /\ p \in ReachedFrom(next, p) /\ Closed(next, ReachedFrom(next, p))
           /\ ReachedFrom(next, p) \in SUBSET Nat
           /\ \A T \in SUBSET Nat : p \in T /\ Closed(next, T) => ReachedFrom(next, p) \subseteq T
BY DEF ReachedFrom, Closed

(* They are p and what can be reached from the one after it.                 *)
LEMMA ReachFirst ==
    ASSUME NEW next \in [Nat -> Nat], NEW p \in Nat, \A q \in Nat : next[q] > q
    PROVE  /\ ReachedFrom(next, p) = {p} \cup ReachedFrom(next, next[p])
           /\ \A q \in ReachedFrom(next, p) : q >= p
<1>. DEFINE R == ReachedFrom(next, p)
            S == ReachedFrom(next, next[p])
<1>1. next[p] \in Nat
      OBVIOUS
<1>2. p \in R /\ Closed(next, R) /\ R \in SUBSET Nat
      BY ReachClosed
<1>3. next[p] \in S /\ Closed(next, S) /\ S \in SUBSET Nat
      BY <1>1, ReachClosed
<1>4. S \subseteq R
  <2>1. next[p] \in R
        BY <1>2 DEF Closed
  <2>. HIDE DEF R
  <2>. QED BY <1>1, <1>2, <2>1, ReachClosed
<1>5. R \subseteq {p} \cup S
  <2>. DEFINE T == {p} \cup S
  <2>1. T \in SUBSET Nat /\ p \in T /\ Closed(next, T)
        BY <1>3 DEF Closed
  <2>. HIDE DEF T, S
  <2>. QED BY <2>1, ReachClosed DEF T
<1>6. \A q \in R : q >= p
  <2>. DEFINE T == {q \in Nat : q >= p}
  <2>1. T \in SUBSET Nat /\ p \in T /\ Closed(next, T)
    <3>1. ASSUME NEW q \in T
          PROVE  next[q] \in T
      <4>1. next[q] \in Nat /\ next[q] > q /\ q \in Nat /\ q >= p
            OBVIOUS
      <4>. QED BY <4>1
    <3>. QED BY <3>1 DEF Closed
  <2>2. R \subseteq T
    <3>. HIDE DEF T
    <3>. QED BY <2>1, ReachClosed
  <2>. QED BY <2>2
<1>. QED BY <1>2, <1>4, <1>5, <1>6

(* A position that can be reached is the first or comes after one that can.  *)
LEMMA ReachLast ==
    ASSUME NEW next \in [Nat -> Nat], NEW p \in Nat, \A q \in Nat : next[q] > q,
           NEW r \in Nat
    PROVE  r \in ReachedFrom(next, p)
              <=> r = p \/ \E q \in 0..(r - 1) : q \in ReachedFrom(next, p) /\ next[q] = r
<1>. DEFINE R == ReachedFrom(next, p)
            T == {s \in Nat : s = p \/ \E q \in 0..(s - 1) : q \in R /\ next[q] = s}
<1>1. p \in R /\ Closed(next, R) /\ R \in SUBSET Nat
      BY ReachClosed
<1>2. T \subseteq R
      BY <1>1 DEF Closed
<1>3. ASSUME NEW s \in T
      PROVE  next[s] \in T
  <2>1. s \in R /\ s \in Nat /\ next[s] \in Nat /\ next[s] > s
        BY <1>1, <1>2
  <2>2. s \in 0..(next[s] - 1)
        BY <2>1
  <2>. HIDE DEF R
  <2>. QED BY <2>1, <2>2
<1>4. T \in SUBSET Nat /\ p \in T
      OBVIOUS
<1>5. R \subseteq T
  <2>1. Closed(next, T)
        BY <1>3 DEF Closed
  <2>. HIDE DEF T
  <2>. QED BY <1>4, <2>1, ReachClosed
<1>6. r \in R <=> r \in T
      BY <1>2, <1>5
<1>. HIDE DEF R
<1>. QED BY <1>6 DEF R

(* So an instruction begins exactly where execution from 0 can come.         *)
LEMMA InstructionReached ==
    ASSUME NEW c, NEW p \in Nat
    PROVE  IsInstruction(c, p) <=> p \in ReachedFrom(After(c), 0)
<1>. DEFINE next == After(c)
            R == ReachedFrom(next, 0)
            Body(f) == [r \in Nat |->
                          r = 0 \/ \E q \in 0..(r - 1) : f[q] /\ q + 1 + push_size(c[q + 1]) = r]
            starts == CHOOSE f : f = Body(f)
            reached == [r \in Nat |-> r \in R]
<1>1. /\ next \in [Nat -> Nat]
      /\ \A q \in Nat : next[q] = q + 1 + push_size(c[q + 1]) /\ next[q] > q
      BY AfterType
<1>2. IsInstruction(c, p) = starts[p]
      BY DEF IsInstruction
<1>. HIDE DEF next
<1>3. ASSUME NEW r \in Nat
      PROVE  r \in R <=> r = 0 \/ \E q \in 0..(r - 1) : q \in R /\ next[q] = r
      BY <1>1, ReachLast
<1>. HIDE DEF R
<1>4. ASSUME NEW r \in Nat
      PROVE  (r \in R) = (r = 0 \/ \E q \in 0..(r - 1) :
                                       reached[q] /\ q + 1 + push_size(c[q + 1]) = r)
  <2>. DEFINE Comes == r = 0 \/ \E q \in 0..(r - 1) :
                                   reached[q] /\ q + 1 + push_size(c[q + 1]) = r
  <2>1. \A q \in 0..(r - 1) : q \in Nat /\ reached[q] = (q \in R)
        OBVIOUS
  <2>2. \A q \in 0..(r - 1) : next[q] = r <=> q + 1 + push_size(c[q + 1]) = r
        BY <1>1
  <2>. HIDE DEF reached
  <2>3. r \in R <=> Comes
        BY <1>3, <2>1, <2>2
  <2>4. CASE r \in R
    <3>1. (r \in R) = TRUE /\ Comes = TRUE
          BY <2>3, <2>4
    <3>. QED BY <3>1
  <2>5. CASE r \notin R
    <3>1. (r \in R) = FALSE /\ Comes = FALSE
          BY <2>3, <2>5
    <3>. QED BY <3>1
  <2>. QED BY <2>4, <2>5
<1>5. reached = Body(reached)
  <2>1. reached = [r \in Nat |-> r \in R]
        OBVIOUS
  <2>. HIDE DEF reached
  <2>. QED BY <1>4, <2>1
<1>6. starts = Body(starts)
      BY <1>5
<1>. HIDE DEF starts
<1>. DEFINE P == {r \in Nat : starts[r] <=> r \in R}
<1>7. ASSUME NEW r \in Nat, \A m \in Nat : m < r => m \in P
      PROVE  r \in P
  <2>1. starts[r] <=> r = 0 \/ \E q \in 0..(r - 1) : starts[q] /\ q + 1 + push_size(c[q + 1]) = r
        BY <1>6
  <2>2. \A q \in 0..(r - 1) : starts[q] <=> q \in R
        BY <1>7
  <2>3. starts[r] <=> r \in R
        BY <1>1, <1>3, <2>1, <2>2
  <2>. QED BY <2>3
<1>8. Nat \subseteq P
  <2>. HIDE DEF P
  <2>. QED BY <1>7, StrongInduction
<1>9. starts[p] <=> p \in R
      BY <1>8
<1>. QED BY <1>2, <1>9 DEF R, next

(* The scan finds the JUMPDESTs among these, from wherever it starts.        *)
LEMMA JumpdestsReached ==
    ASSUME NEW c, Len(c) \in Nat
    PROVE  find_jumpdests(c)
             = {q \in ReachedFrom(After(c), 0) : q < Len(c) /\ c[q + 1] = OP.JUMPDEST}
<1>. DEFINE next == After(c)
            Here(pc) == IF c[pc + 1] = OP.JUMPDEST THEN {pc} ELSE {}
            Body(f) == [pc \in Nat |->
                          IF pc >= Len(c) THEN {}
                          ELSE f[pc + push_size(c[pc + 1]) + 1] \cup Here(pc)]
            from == CHOOSE f : f = Body(f)
            Found(pc) == {q \in ReachedFrom(next, pc) : q < Len(c) /\ c[q + 1] = OP.JUMPDEST}
            found == [pc \in Nat |-> Found(pc)]
<1>1. /\ next \in [Nat -> Nat]
      /\ \A q \in Nat : next[q] = q + 1 + push_size(c[q + 1]) /\ next[q] > q
      BY AfterType
<1>2. \A q \in Nat : q + push_size(c[q + 1]) + 1 = next[q]
  <2>1. \A q \in Nat : push_size(c[q + 1]) \in Nat
        BY WordValues DEF push_size, PUSH, OP
  <2>. HIDE DEF next
  <2>. QED BY <1>1, <2>1
<1>3. find_jumpdests(c) = from[0]
      BY DEF find_jumpdests
<1>. HIDE DEF next
<1>4. ASSUME NEW pc \in Nat
      PROVE  Found(pc) = IF pc >= Len(c) THEN {} ELSE Found(next[pc]) \cup Here(pc)
  <2>1. /\ ReachedFrom(next, pc) = {pc} \cup ReachedFrom(next, next[pc])
        /\ \A q \in ReachedFrom(next, pc) : q >= pc
        /\ next[pc] \in Nat
        BY <1>1, ReachFirst
  <2>2. ReachedFrom(next, pc) \in SUBSET Nat
        BY <1>1, ReachClosed
  <2>3. CASE pc >= Len(c)
    <3>1. \A q \in ReachedFrom(next, pc) : ~(q < Len(c))
          BY <2>1, <2>2, <2>3
    <3>. QED BY <2>3, <3>1
  <2>4. CASE ~(pc >= Len(c))
    <3>1. pc < Len(c)
          BY <2>4
    <3>. QED BY <2>1, <2>4, <3>1
  <2>. QED BY <2>3, <2>4
<1>. HIDE DEF Found, Here
<1>5. found = Body(found)
  <2>1. \A pc \in Nat : found[next[pc]] = Found(next[pc])
        BY <1>1
  <2>2. \A pc \in Nat : Found(pc) = IF pc >= Len(c) THEN {}
                                    ELSE found[pc + push_size(c[pc + 1]) + 1] \cup Here(pc)
        BY <1>2, <1>4, <2>1
  <2>3. found = [pc \in Nat |-> Found(pc)]
        OBVIOUS
  <2>. HIDE DEF found
  <2>. QED BY <2>2, <2>3
<1>6. from = Body(from)
      BY <1>5
<1>. HIDE DEF from
<1>7. ASSUME NEW pc \in Nat
      PROVE  from[pc] = IF pc >= Len(c) THEN {} ELSE from[next[pc]] \cup Here(pc)
  <2>1. from[pc] = IF pc >= Len(c) THEN {} ELSE from[pc + push_size(c[pc + 1]) + 1] \cup Here(pc)
        BY <1>6
  <2>. QED BY <1>2, <2>1
<1>. DEFINE P == {n \in Nat : \A pc \in Nat : pc + n >= Len(c) => from[pc] = Found(pc)}
<1>8. 0 \in P
  <2>1. ASSUME NEW pc \in Nat, pc + 0 >= Len(c)
        PROVE  from[pc] = Found(pc)
    <3>1. pc >= Len(c)
          BY <2>1
    <3>2. from[pc] = {} /\ Found(pc) = {}
          BY <1>4, <1>7, <3>1
    <3>. QED BY <3>2
  <2>. QED BY <2>1
<1>9. ASSUME NEW n \in Nat, n \in P
      PROVE  n + 1 \in P
  <2>1. ASSUME NEW pc \in Nat, pc + (n + 1) >= Len(c)
        PROVE  from[pc] = Found(pc)
    <3>1. next[pc] \in Nat /\ next[pc] > pc
          BY <1>1
    <3>2. next[pc] + n >= Len(c)
          BY <2>1, <3>1
    <3>3. from[next[pc]] = Found(next[pc])
          BY <1>9, <3>1, <3>2
    <3>4. CASE pc >= Len(c)
      <4>1. from[pc] = {} /\ Found(pc) = {}
            BY <1>4, <1>7, <3>4
      <4>. QED BY <4>1
    <3>5. CASE ~(pc >= Len(c))
      <4>1. from[pc] = from[next[pc]] \cup Here(pc)
            BY <1>7, <3>5
      <4>2. Found(pc) = Found(next[pc]) \cup Here(pc)
            BY <1>4, <3>5
      <4>. QED BY <3>3, <4>1, <4>2
    <3>. QED BY <3>4, <3>5
  <2>. QED BY <2>1
<1>10. Nat \subseteq P
  <2>. HIDE DEF P
  <2>. QED BY <1>8, <1>9, Induction
<1>11. Len(c) \in P /\ 0 + Len(c) >= Len(c)
      BY <1>10
<1>12. from[0] = Found(0)
      BY <1>11
<1>. QED BY <1>3, <1>12 DEF Found, next

-----------------------------------------------------------------------------
(* The inductive invariant *)

(* What a frame is made of never changes.                                    *)
MadeInv ==
    /\ code \in Seq(Byte) /\ Len(code) \in Word
    /\ context.data \in Seq(Byte) /\ Len(context.data) \in Word
    /\ context.caller \in Word /\ context.address \in Word
    /\ context.value \in Nat /\ context.gas \in Word
    /\ valid_jumpdests = find_jumpdests(code)
    /\ context.value \in Word \/ \A i \in 1..Len(code) : code[i] # OP.NOT

(* What a frame computes with: words, unless its value is none.              *)
Cell == IF context.value \in Word THEN Word ELSE Nat

StackInv == execution_stack \in Seq(Cell) /\ Depth <= MAX_STACK_DEPTH

StorageInv == \A k \in DOMAIN storage : k \in Cell /\ storage[k] \in Cell

(* A memory m is as long as accesses up to t make it.                        *)
Holds(m, t) ==
    /\ m \in Seq(Byte)
    /\ t \in Nat /\ t <= MaxMemory
    /\ Len(m) % WordBytes = 0
    /\ t <= Len(m) /\ Len(m) < t + WordBytes

MemoryInv == Holds(memory, touched)

PositionInv ==
    /\ program_counter \in Nat
    /\ program_counter < Len(code) => IsInstruction(code, program_counter)

GasInv == gas_remaining \in 0..context.gas

Exceptions ==
    {NoException, "InvalidOpcode", "OutOfGas", "StackUnderflow", "StackOverflow",
     "InvalidJumpDestination", "MemoryError", "OverflowError", "EVMError"}

EndInv ==
    /\ stopped \in BOOLEAN /\ reverted \in BOOLEAN
    /\ return_data \in Seq(Byte)
    /\ raised \in Exceptions
    /\ context.value \in Word => raised # "OverflowError"

(* The jump that was refused led to no JUMPDEST outside push data.           *)
RefusedInv ==
    raised = "InvalidJumpDestination" =>
        ~(/\ Operand(1) \in 0..(Len(code) - 1)
          /\ code[Operand(1) + 1] = OP.JUMPDEST
          /\ IsInstruction(code, Operand(1)))

IInv ==
    /\ MadeInv /\ StackInv /\ StorageInv /\ MemoryInv
    /\ PositionInv /\ GasInv /\ EndInv /\ RefusedInv

-----------------------------------------------------------------------------
(* Memory *)

(* What a size is rounded up to.                                             *)
LEMMA Rounded ==
    ASSUME NEW needed \in Nat
    PROVE  /\ WordBoundary(needed) \in Nat
           /\ needed <= WordBoundary(needed) /\ WordBoundary(needed) < needed + WordBytes
           /\ WordBoundary(needed) % WordBytes = 0
<1>. DEFINE W == WordBytes
            q == (needed + W - 1) \div W
            r == (needed + W - 1) % W
<1>1. W \in Nat /\ W >= 1
      BY WordValues
<1>2. needed + W - 1 \in Nat
      BY <1>1
<1>3. /\ q \in Nat /\ r \in Nat /\ r < W
      /\ needed + W - 1 = q * W + r
      BY <1>1, <1>2
<1>4. WordBoundary(needed) = q * W
      BY DEF WordBoundary
<1>. HIDE DEF W, q, r
<1>5. q * W \in Nat
      BY <1>1, <1>3
<1>6. needed <= q * W /\ q * W < needed + W
      BY <1>1, <1>3, <1>5
<1>7. (q * W) % W = 0
  <2>. DEFINE x == q * W
              d == x \div W
              e == x % W
  <2>1. x = q * W
        OBVIOUS
  <2>2. x \in Nat
        BY <1>5
  <2>. HIDE DEF x
  <2>3. d \in Nat /\ e \in Nat /\ e < W /\ x = d * W + e
        BY <1>1, <2>2
  <2>. HIDE DEF d, e
  <2>4. (q - d) * W = e
        BY <1>1, <1>3, <2>1, <2>3
  <2>5. q - d <= 0
    <3>1. q - d >= 1 => (q - d) * W >= W
          BY <1>1, <1>3, <2>3
    <3>. QED BY <1>1, <1>3, <2>3, <2>4, <3>1
  <2>6. q - d >= 0
    <3>1. q - d <= -1 => (q - d) * W < 0
          BY <1>1, <1>3, <2>3
    <3>. QED BY <1>1, <1>3, <2>3, <2>4, <3>1
  <2>7. e = 0
    <3>1. q - d = 0
          BY <1>3, <2>3, <2>5, <2>6
    <3>. QED BY <1>1, <2>3, <2>4, <3>1
  <2>. QED BY <2>7 DEF x, e
<1>. QED BY <1>1, <1>4, <1>5, <1>6, <1>7 DEF W

Higher(a, b) == IF a > b THEN a ELSE b

(* An access makes memory as long as it reaches and keeps the rest.          *)
LEMMA ExpandKeeps ==
    ASSUME NEW m, NEW t, Holds(m, t),
           NEW offset \in Nat, NEW size \in Nat, Fits(offset, size)
    PROVE  /\ Holds(expand_to(m, offset, size), Higher(Reach(offset, size), t))
           /\ size # 0 => offset + size <= Len(expand_to(m, offset, size))
<1>. DEFINE n == expand_to(m, offset, size)
            u == Higher(Reach(offset, size), t)
<1>1. /\ m \in Seq(Byte) /\ Len(m) \in Nat
      /\ t \in Nat /\ t <= MaxMemory
      /\ Len(m) % WordBytes = 0 /\ t <= Len(m) /\ Len(m) < t + WordBytes
      BY DEF Holds
<1>2. MaxMemory \in Nat /\ WordBytes \in Nat
      BY WidthAssumption
<1>3. CASE size = 0 \/ offset + size <= Len(m)
  <2>1. n = m
        BY <1>3 DEF expand_to
  <2>2. /\ u \in Nat /\ u <= MaxMemory
        /\ t <= u /\ u <= Len(m)
        BY <1>1, <1>2, <1>3 DEF Higher, Reach, Fits
  <2>3. Len(m) < u + WordBytes
        BY <1>1, <1>2, <2>2
  <2>. HIDE DEF n, u
  <2>4. Holds(n, u)
        BY <1>1, <2>1, <2>2, <2>3 DEF Holds
  <2>. QED BY <1>3, <2>1, <2>4 DEF n, u
<1>4. CASE ~(size = 0 \/ offset + size <= Len(m))
  <2>. DEFINE r == offset + size
              b == WordBoundary(r)
              zeros == [i \in 1..(b - Len(m)) |-> 0]
  <2>1. r \in Nat /\ r > Len(m) /\ r <= MaxMemory /\ u = r
        BY <1>1, <1>2, <1>4 DEF Higher, Reach, Fits
  <2>2. b \in Nat /\ r <= b /\ b < r + WordBytes /\ b % WordBytes = 0
    <3>. HIDE DEF r
    <3>. QED BY <2>1, Rounded
  <2>3. n = m \o zeros
        BY <1>4 DEF expand_to
  <2>. HIDE DEF b
  <2>4. b - Len(m) \in Nat
        BY <1>1, <2>1, <2>2
  <2>5. zeros \in Seq(Byte) /\ Len(zeros) = b - Len(m)
    <3>1. 0 \in Byte
          BY DEF Byte
    <3>. QED BY <2>4, <3>1
  <2>. HIDE DEF zeros, n, u, r
  <2>6. n \in Seq(Byte) /\ Len(n) = Len(m) + Len(zeros)
        BY <1>1, <2>3, <2>5, ConcatProperties
  <2>7. Len(n) = b
        BY <1>1, <2>2, <2>5, <2>6
  <2>8. Holds(n, u)
        BY <2>1, <2>2, <2>6, <2>7 DEF Holds
  <2>. QED BY <2>2, <2>7, <2>8 DEF n, u, r
<1>. QED BY <1>3, <1>4

(* And a write does no more.                                                 *)
LEMMA WriteKeeps ==
    ASSUME NEW m, NEW t, Holds(m, t),
           NEW offset \in Nat, NEW data \in Seq(Byte), Fits(offset, Len(data))
    PROVE  Holds(write_range(m, offset, data), Higher(Reach(offset, Len(data)), t))
<1>. DEFINE g == expand_to(m, offset, Len(data))
            u == Higher(Reach(offset, Len(data)), t)
            w == [i \in 1..Len(g) |-> IF i - offset \in 1..Len(data) THEN data[i - offset] ELSE g[i]]
<1>1. Len(data) \in Nat
      OBVIOUS
<1>2. Holds(g, u)
      BY <1>1, ExpandKeeps
<1>3. write_range(m, offset, data) = w
      BY DEF write_range
<1>. HIDE DEF g, u
<1>4. g \in Seq(Byte) /\ Len(g) \in Nat
      BY <1>2 DEF Holds
<1>5. \A i \in 1..Len(g) : w[i] \in Byte
  <2>1. \A j \in 1..Len(data) : data[j] \in Byte
        BY ElementOfSeq
  <2>2. \A j \in 1..Len(g) : g[j] \in Byte
        BY <1>4, ElementOfSeq
  <2>. QED BY <2>1, <2>2
<1>6. w \in [1..Len(g) -> Byte]
      BY <1>5
<1>7. w \in Seq(Byte) /\ Len(w) = Len(g)
  <2>. HIDE DEF w
  <2>. QED BY <1>4, <1>6
<1>. HIDE DEF w
<1>8. Holds(w, u)
      BY <1>2, <1>7 DEF Holds
<1>. QED BY <1>3, <1>8 DEF u

-----------------------------------------------------------------------------
(* The tables *)

LEMMA Costs ==
    /\ \A op : CostOf(op) \in Nat
    /\ \A op : op \notin {OP.STOP, OP.RETURN, OP.REVERT, OP.INVALID} => CostOf(op) >= 1
    /\ CostOf(OP.SSTORE) = GAS_SSTORE
<1>1. \A op : CostOf(op) \in Nat
      BY DEF CostOf, GAS_SSTORE, GAS_CREATE
<1>2. \A op : op \notin {OP.STOP, OP.RETURN, OP.REVERT, OP.INVALID} => CostOf(op) >= 1
      BY DEF CostOf, GAS_SSTORE, GAS_CREATE
<1>3. CostOf(OP.SSTORE) = GAS_SSTORE
      BY DEF CostOf, OP
<1>. QED BY <1>1, <1>2, <1>3

Takes2 == Binary \cup {OP.SHA3, OP.MSTORE, OP.MSTORE8, OP.SSTORE, OP.JUMPI, OP.RETURN, OP.REVERT}

Takes1 == {OP.ISZERO, OP.NOT, OP.CALLDATALOAD, OP.POP, OP.MLOAD, OP.SLOAD, OP.JUMP}

Takes3 == {OP.CALLDATACOPY, OP.CODECOPY, OP.CREATE}

LEMMA Opcodes ==
    /\ OP.STOP = 0 /\ OP.ADD = 1 /\ OP.MUL = 2 /\ OP.SUB = 3 /\ OP.DIV = 4
    /\ OP.MOD = 6 /\ OP.EXP = 10 /\ OP.LT = 16 /\ OP.GT = 17 /\ OP.EQ = 20
    /\ OP.ISZERO = 21 /\ OP.AND = 22 /\ OP.OR = 23 /\ OP.NOT = 25
    /\ OP.SHA3 = 32 /\ OP.ADDRESS = 48 /\ OP.CALLER = 51 /\ OP.CALLVALUE = 52
    /\ OP.CALLDATALOAD = 53 /\ OP.CALLDATASIZE = 54 /\ OP.CALLDATACOPY = 55
    /\ OP.CODESIZE = 56 /\ OP.CODECOPY = 57 /\ OP.POP = 80 /\ OP.MLOAD = 81
    /\ OP.MSTORE = 82 /\ OP.MSTORE8 = 83 /\ OP.SLOAD = 84 /\ OP.SSTORE = 85
    /\ OP.JUMP = 86 /\ OP.JUMPI = 87 /\ OP.MSIZE = 89 /\ OP.GAS = 90
    /\ OP.JUMPDEST = 91 /\ OP.PUSH1 = 96 /\ OP.DUP1 = 128 /\ OP.SWAP1 = 144
    /\ OP.CREATE = 240 /\ OP.CALL = 241 /\ OP.RETURN = 243 /\ OP.REVERT = 253
    /\ OP.INVALID = 254
BY DEF OP

LEMMA Arity ==
    /\ \A op \in Takes2 : Needs(op) = 2
    /\ \A op \in Takes1 : Needs(op) = 1
    /\ \A op \in Takes3 : Needs(op) = 3
    /\ Needs(OP.CALL) = 7
    /\ \A op \in DUP : Needs(op) = op - OP.DUP1 + 1 /\ Needs(op) >= 1
    /\ \A op \in SWAP : Needs(op) = op - OP.SWAP1 + 2 /\ Needs(op) >= 2
    /\ \A op : Needs(op) \in Nat
<1>1. \A op \in Takes2 : op \in 1..23 \/ op = 32 \/ op \in 82..83 \/ op = 85 \/ op = 87
                          \/ op = 243 \/ op = 253
      BY Opcodes DEF Takes2, Binary
<1>2. \A op \in Takes1 : op \in {21, 25, 53, 80, 81, 84, 86}
      BY Opcodes DEF Takes1
<1>3. \A op \in Takes3 : op \in {55, 57, 240}
      BY Opcodes DEF Takes3
<1>4. OP.CALL = 241 /\ OP.DUP1 = 128 /\ OP.SWAP1 = 144
      BY Opcodes
<1>5. \A op \in DUP : op \in 128..143
      BY <1>4 DEF DUP
<1>6. \A op \in SWAP : op \in 144..159
      BY <1>4 DEF SWAP
<1>7. /\ \A op \in Takes2 : op \notin Takes1 \cup Takes3 \cup {OP.CALL} \cup DUP \cup SWAP
      /\ \A op \in Takes1 : op \notin Takes2 \cup Takes3 \cup {OP.CALL} \cup DUP \cup SWAP
      /\ \A op \in Takes3 : op \notin Takes1 \cup Takes2 \cup {OP.CALL} \cup DUP \cup SWAP
      /\ OP.CALL \notin Takes1 \cup Takes2 \cup Takes3 \cup DUP \cup SWAP
      /\ \A op \in DUP : op \notin Takes1 \cup Takes2 \cup Takes3 \cup {OP.CALL} \cup SWAP
      /\ \A op \in SWAP : op \notin Takes1 \cup Takes2 \cup Takes3 \cup {OP.CALL} \cup DUP
  <2>1. Takes1 \cap Takes2 = {}
        BY Opcodes DEF Takes1, Takes2, Binary
  <2>. QED BY <1>1, <1>2, <1>3, <1>4, <1>5, <1>6, <2>1
<1>8. \A op \in Takes2 : Needs(op) = 2
  <2>1. ASSUME NEW op \in Takes2,
               op \notin Takes1 \cup Takes3 \cup {OP.CALL} \cup DUP \cup SWAP
        PROVE  Needs(op) = 2
        BY <2>1 DEF Needs, Takes1, Takes2, Takes3
  <2>. QED BY <1>7, <2>1
<1>9. \A op \in Takes1 : Needs(op) = 1
  <2>1. ASSUME NEW op \in Takes1,
               op \notin Takes2 \cup Takes3 \cup {OP.CALL} \cup DUP \cup SWAP
        PROVE  Needs(op) = 1
        BY <2>1 DEF Needs, Takes1, Takes2, Takes3
  <2>. QED BY <1>7, <2>1
<1>10. \A op \in Takes3 : Needs(op) = 3
  <2>1. ASSUME NEW op \in Takes3,
               op \notin Takes1 \cup Takes2 \cup {OP.CALL} \cup DUP \cup SWAP
        PROVE  Needs(op) = 3
        BY <2>1 DEF Needs, Takes1, Takes2, Takes3
  <2>. QED BY <1>7, <2>1
<1>11. Needs(OP.CALL) = 7
  <2>1. OP.CALL \notin Takes1 \cup Takes2 \cup Takes3 \cup DUP \cup SWAP => Needs(OP.CALL) = 7
        BY DEF Needs, Takes1, Takes2, Takes3
  <2>. QED BY <1>7, <2>1
<1>12. \A op \in DUP : Needs(op) = op - 128 + 1
  <2>1. ASSUME NEW op \in DUP,
               op \notin Takes1 \cup Takes2 \cup Takes3 \cup {OP.CALL} \cup SWAP
        PROVE  Needs(op) = op - OP.DUP1 + 1
        BY <2>1 DEF Needs, Takes1, Takes2, Takes3
  <2>. QED BY <1>4, <1>7, <2>1
<1>13. \A op \in SWAP : Needs(op) = op - 144 + 2
  <2>1. ASSUME NEW op \in SWAP,
               op \notin Takes1 \cup Takes2 \cup Takes3 \cup {OP.CALL} \cup DUP
        PROVE  Needs(op) = op - OP.SWAP1 + 2
        BY <2>1 DEF Needs, Takes1, Takes2, Takes3
  <2>. QED BY <1>4, <1>7, <2>1
<1>14. \A op : op \notin Takes1 \cup Takes2 \cup Takes3 \cup {OP.CALL} \cup DUP \cup SWAP => Needs(op) = 0
  <2>1. ASSUME NEW op,
               op \notin Takes1 \cup Takes2 \cup Takes3 \cup {OP.CALL} \cup DUP \cup SWAP
        PROVE  Needs(op) = 0
        BY <2>1 DEF Needs, Takes1, Takes2, Takes3
  <2>. QED BY <2>1
<1>15. \A op : Needs(op) \in Nat
      BY <1>5, <1>6, <1>8, <1>9, <1>10, <1>11, <1>12, <1>13, <1>14
<1>. QED BY <1>4, <1>5, <1>6, <1>8, <1>9, <1>10, <1>11, <1>12, <1>13, <1>15

(* None of the other opcodes is a push.                                      *)
LEMMA OthersNoPush ==
    /\ Takes1 \cap PUSH = {} /\ Takes2 \cap PUSH = {} /\ Takes3 \cap PUSH = {}
    /\ Pushes0 \cap PUSH = {} /\ DUP \cap PUSH = {} /\ SWAP \cap PUSH = {}
    /\ {OP.STOP, OP.JUMPDEST, OP.CALL} \cap PUSH = {}
<1>1. \A op \in PUSH : op \in Nat /\ op >= 96 /\ op <= 127
      BY WidthAssumption, Opcodes DEF PUSH
<1>2. Takes1 \cap PUSH = {} /\ Takes3 \cap PUSH = {} /\ Pushes0 \cap PUSH = {}
      BY <1>1, Opcodes DEF Takes1, Takes3, Pushes0
<1>3. Takes2 \cap PUSH = {}
      BY <1>1, Opcodes DEF Takes2, Binary
<1>4. DUP \cap PUSH = {} /\ SWAP \cap PUSH = {}
      BY <1>1, Opcodes DEF DUP, SWAP
<1>5. {OP.STOP, OP.JUMPDEST, OP.CALL} \cap PUSH = {}
      BY <1>1, Opcodes
<1>. QED BY <1>2, <1>3, <1>4, <1>5

-----------------------------------------------------------------------------
(* What every handler relies on and leaves behind *)

LEMMA CellKind == Cell \in Cells
BY DEF Cell, Cells

(* Before a step.                                                            *)
LEMMA AtWork ==
    ASSUME IInv, Running
    PROVE  /\ program_counter \in Nat /\ program_counter < Len(code)
           /\ IsInstruction(code, program_counter)
           /\ Len(code) \in Nat /\ opcode \in Byte
           /\ raised = NoException /\ stopped = FALSE
           /\ Depth \in Nat /\ Depth <= MAX_STACK_DEPTH
           /\ \A i \in 1..Depth : Operand(i) \in Cell /\ Operand(i) \in Nat
           /\ cost \in Nat /\ gas_remaining \in Nat
           /\ opcode = OP.NOT => context.value \in Word
<1>1. /\ program_counter \in Nat /\ program_counter < Len(code)
      /\ IsInstruction(code, program_counter)
      /\ raised = NoException /\ stopped = FALSE
      BY DEF IInv, PositionInv, EndInv, Running
<1>2. code \in Seq(Byte) /\ Len(code) \in Nat
      BY DEF IInv, MadeInv
<1>3. program_counter + 1 \in 1..Len(code)
      BY <1>1, <1>2
<1>4. opcode \in Byte
      BY <1>2, <1>3, ElementOfSeq DEF opcode
<1>5. Depth \in Nat /\ Depth <= MAX_STACK_DEPTH
      BY DEF IInv, StackInv, Depth
<1>6. ASSUME NEW i \in 1..Depth
      PROVE  Operand(i) \in Cell /\ Operand(i) \in Nat
  <2>1. Depth - i + 1 \in 1..Depth
        BY <1>5
  <2>2. Operand(i) \in Cell
        BY <2>1, ElementOfSeq DEF Operand, Depth, IInv, StackInv
  <2>. QED BY <2>2, CellKind, CellValues
<1>7. cost \in Nat
      BY Costs DEF cost, GAS_COSTS
<1>8. gas_remaining \in Nat
      BY WordValues DEF IInv, GasInv, MadeInv
<1>9. opcode = OP.NOT => context.value \in Word
      BY <1>3 DEF IInv, MadeInv, opcode
<1>. QED BY <1>1, <1>2, <1>4, <1>5, <1>6, <1>7, <1>8, <1>9

(* What is pushed and popped.                                                *)
LEMMA Pushed ==
    ASSUME IInv, UNCHANGED made, NEW n \in Nat, n <= Depth, NEW v \in Cell,
           n >= 1 \/ Depth < MAX_STACK_DEPTH, Replace(n, <<v>>)
    PROVE  StackInv'
<1>. DEFINE C == Cell
            s == execution_stack
            kept == SubSeq(s, 1, Len(s) - n)
<1>1. s \in Seq(C) /\ Len(s) \in Nat /\ Len(s) <= MAX_STACK_DEPTH /\ n <= Len(s)
      BY DEF IInv, StackInv, Depth
<1>2. v \in C
      OBVIOUS
<1>3. execution_stack' = kept \o <<v>>
      BY DEF Replace, Depth
<1>4. Cell' = C
      BY DEF Cell, made
<1>5. n >= 1 \/ Len(s) < MAX_STACK_DEPTH
      BY DEF Depth
<1>. HIDE DEF C, s
<1>6. kept \in Seq(C) /\ Len(kept) = Len(s) - n
  <2>1. Len(s) - n \in Nat
        BY <1>1
  <2>2. \A i \in 1..(Len(s) - n) : s[i] \in C
        BY <1>1, ElementOfSeq
  <2>3. kept = [i \in 1..(Len(s) - n) |-> s[i]]
        BY <1>1, <2>1
  <2>. QED BY <2>1, <2>2, <2>3
<1>. HIDE DEF kept
<1>7. kept \o <<v>> \in Seq(C) /\ Len(kept \o <<v>>) = Len(s) - n + 1
  <2>1. <<v>> \in Seq(C) /\ Len(<<v>>) = 1
        BY <1>2
  <2>. QED BY <1>6, <2>1, ConcatProperties
<1>8. MAX_STACK_DEPTH \in Nat
      BY WidthAssumption
<1>9. Len(s) - n + 1 <= MAX_STACK_DEPTH
      BY <1>1, <1>5, <1>8
<1>. QED BY <1>3, <1>4, <1>7, <1>9 DEF StackInv, Depth

LEMMA Popped ==
    ASSUME IInv, UNCHANGED made, NEW n \in Nat, n <= Depth, Replace(n, <<>>)
    PROVE  StackInv'
<1>. DEFINE C == Cell
            s == execution_stack
            kept == SubSeq(s, 1, Len(s) - n)
<1>1. s \in Seq(C) /\ Len(s) \in Nat /\ Len(s) <= MAX_STACK_DEPTH /\ n <= Len(s)
      BY DEF IInv, StackInv, Depth
<1>2. execution_stack' = kept \o <<>>
      BY DEF Replace, Depth
<1>3. Cell' = C
      BY DEF Cell, made
<1>. HIDE DEF C, s
<1>4. kept \in Seq(C) /\ Len(kept) = Len(s) - n
  <2>1. Len(s) - n \in Nat
        BY <1>1
  <2>2. \A i \in 1..(Len(s) - n) : s[i] \in C
        BY <1>1, ElementOfSeq
  <2>3. kept = [i \in 1..(Len(s) - n) |-> s[i]]
        BY <1>1, <2>1
  <2>. QED BY <2>1, <2>2, <2>3
<1>. HIDE DEF kept
<1>5. kept \o <<>> = kept
      BY <1>4, ConcatEmptySeq
<1>6. MAX_STACK_DEPTH \in Nat
      BY WidthAssumption
<1>7. Len(s) - n <= MAX_STACK_DEPTH
      BY <1>1, <1>6
<1>. QED BY <1>2, <1>3, <1>4, <1>5, <1>7 DEF StackInv, Depth

(* Where execution goes.                                                     *)
LEMMA Follows ==
    ASSUME IInv, Running, UNCHANGED made, Goto(program_counter + 1 + push_size(opcode))
    PROVE  PositionInv'
<1>. DEFINE next == After(code)
            R == ReachedFrom(next, 0)
            p == program_counter
<1>1. p \in Nat /\ IsInstruction(code, p)
      BY AtWork
<1>2. next \in [Nat -> Nat] /\ next[p] = p + 1 + push_size(opcode)
      BY <1>1, AfterType DEF opcode
<1>3. p \in R
      BY <1>1, InstructionReached
<1>. HIDE DEF next
<1>4. next[p] \in R
      BY <1>2, <1>3, ReachClosed DEF Closed
<1>5. next[p] \in Nat
      BY <1>1, <1>2
<1>6. IsInstruction(code, next[p])
      BY <1>4, <1>5, InstructionReached DEF next
<1>. QED BY <1>2, <1>5, <1>6 DEF PositionInv, Goto, made

LEMMA Advances ==
    ASSUME IInv, Running, UNCHANGED made, opcode \notin PUSH, Next1
    PROVE  PositionInv'
<1>1. push_size(opcode) = 0
      BY DEF push_size
<1>2. program_counter \in Nat
      BY AtWork
<1>3. Goto(program_counter + 1 + push_size(opcode))
      BY <1>1, <1>2 DEF Next1, Goto
<1>. QED BY <1>3, Follows

LEMMA Lands ==
    ASSUME IInv, UNCHANGED made, NEW d \in valid_jumpdests, Goto(d)
    PROVE  PositionInv'
<1>1. Len(code) \in Nat /\ valid_jumpdests = find_jumpdests(code)
      BY DEF IInv, MadeInv
<1>2. d \in ReachedFrom(After(code), 0)
      BY <1>1, JumpdestsReached
<1>3. d \in Nat
      BY <1>2 DEF ReachedFrom
<1>4. IsInstruction(code, d)
      BY <1>2, <1>3, InstructionReached
<1>. QED BY <1>3, <1>4 DEF PositionInv, Goto, made

(* What a step leaves alone.                                                 *)
LEMMA Kept ==
    ASSUME IInv, UNCHANGED made
    PROVE  /\ MadeInv' /\ Cell' = Cell
           /\ UNCHANGED execution_stack => StackInv'
           /\ UNCHANGED storage => StorageInv'
           /\ UNCHANGED <<memory, touched>> => MemoryInv'
           /\ UNCHANGED program_counter => PositionInv'
<1>1. MadeInv'
      BY DEF IInv, MadeInv, made
<1>2. Cell' = Cell
      BY DEF Cell, made
<1>3. UNCHANGED execution_stack => StackInv'
      BY <1>2 DEF IInv, StackInv, Depth
<1>4. UNCHANGED storage => StorageInv'
      BY <1>2 DEF IInv, StorageInv
<1>5. UNCHANGED <<memory, touched>> => MemoryInv'
      BY DEF IInv, MemoryInv
<1>6. UNCHANGED program_counter => PositionInv'
      BY DEF IInv, PositionInv, made
<1>. QED BY <1>1, <1>2, <1>3, <1>4, <1>5, <1>6

LEMMA Spent ==
    ASSUME IInv, UNCHANGED made, NEW amount \in Nat, amount <= gas_remaining, Spend(amount)
    PROVE  GasInv'
<1>1. context.gas \in Nat /\ gas_remaining \in 0..context.gas
      BY WordValues DEF IInv, GasInv, MadeInv
<1>2. gas_remaining' \in 0..context.gas
      BY <1>1 DEF Spend
<1>. QED BY <1>2 DEF GasInv, made

(* A handler that raises nothing keeps the invariant if it keeps the stack,  *)
(* storage and memory and goes where an instruction is.                      *)
LEMMA Continues ==
    ASSUME IInv, Running, UNCHANGED made, StackInv', StorageInv', MemoryInv', PositionInv',
           NEW amount \in Nat, amount <= gas_remaining, Spend(amount),
           stopped' \in BOOLEAN, reverted' \in BOOLEAN, return_data' \in Seq(Byte),
           UNCHANGED raised
    PROVE  IInv'
<1>1. MadeInv' /\ GasInv'
      BY Kept, Spent
<1>2. raised' = NoException
      BY AtWork
<1>3. EndInv'
      BY <1>2 DEF EndInv, Exceptions, NoException
<1>4. RefusedInv'
      BY <1>2 DEF RefusedInv, NoException
<1>. QED BY <1>1, <1>3, <1>4 DEF IInv

(* Most only take some operands and push a result.                           *)
LEMMA Computes ==
    ASSUME IInv, NEW ops, Executes(ops), ops \cap PUSH = {},
           NEW n \in Nat, n <= Depth, NEW v \in Cell,
           n >= 1 \/ Depth < MAX_STACK_DEPTH, Replace(n, <<v>>),
           Next1, Spend(cost), UNCHANGED <<Data, ended>>
    PROVE  IInv'
<1>1. Running /\ UNCHANGED made /\ opcode \in ops /\ cost <= gas_remaining
      BY DEF Executes, Affordable
<1>2. StackInv'
      BY <1>1, Pushed
<1>3. StorageInv' /\ MemoryInv'
      BY <1>1, Kept DEF Data
<1>4. PositionInv'
      BY <1>1, Advances
<1>5. stopped' \in BOOLEAN /\ reverted' \in BOOLEAN /\ return_data' \in Seq(Byte) /\ UNCHANGED raised
      BY DEF IInv, EndInv, ended
<1>6. cost \in Nat
      BY <1>1, AtWork
<1>. QED BY <1>1, <1>2, <1>3, <1>4, <1>5, <1>6, Continues

(* Others access memory.                                                     *)
LEMMA ReadKeeps ==
    ASSUME IInv, NEW offset \in Nat, NEW size \in Nat, Read(offset, size)
    PROVE  MemoryInv'
<1>1. Holds(expand_to(memory, offset, size), Higher(Reach(offset, size), touched))
      BY ExpandKeeps DEF IInv, MemoryInv, Read
<1>2. memory' = expand_to(memory, offset, size) /\ touched' = Higher(Reach(offset, size), touched)
      BY DEF Read, Touch, Higher
<1>. QED BY <1>1, <1>2 DEF MemoryInv

LEMMA WriteKeepsMemory ==
    ASSUME IInv, NEW offset \in Nat, NEW data \in Seq(Byte), Fits(offset, Len(data)),
           Write(offset, data)
    PROVE  MemoryInv'
<1>1. Holds(write_range(memory, offset, data), Higher(Reach(offset, Len(data)), touched))
      BY WriteKeeps DEF IInv, MemoryInv
<1>2. /\ memory' = write_range(memory, offset, data)
      /\ touched' = Higher(Reach(offset, Len(data)), touched)
      BY DEF Write, Touch, Higher
<1>. QED BY <1>1, <1>2 DEF MemoryInv

(* The rest of such a step.                                                  *)
LEMMA Accessed ==
    ASSUME IInv, NEW ops, Executes(ops), ops \cap PUSH = {}, StackInv', MemoryInv',
           Next1, Spend(cost), UNCHANGED <<storage, ended>>
    PROVE  IInv'
<1>1. Running /\ UNCHANGED made /\ opcode \in ops /\ cost <= gas_remaining
      BY DEF Executes, Affordable
<1>2. StorageInv'
      BY <1>1, Kept
<1>3. PositionInv'
      BY <1>1, Advances
<1>4. stopped' \in BOOLEAN /\ reverted' \in BOOLEAN /\ return_data' \in Seq(Byte) /\ UNCHANGED raised
      BY DEF IInv, EndInv, ended
<1>5. cost \in Nat
      BY <1>1, AtWork
<1>. QED BY <1>1, <1>2, <1>3, <1>4, <1>5, Continues

-----------------------------------------------------------------------------
(* The handlers *)

(* The operands of an opcode that takes some.                                *)
LEMMA Operands ==
    ASSUME IInv, NEW ops, Executes(ops)
    PROVE  /\ Running /\ UNCHANGED made /\ opcode \in ops
           /\ cost \in Nat /\ cost <= gas_remaining /\ gas_remaining \in Nat
           /\ Depth \in Nat /\ Needs(opcode) \in Nat /\ Needs(opcode) <= Depth
           /\ \A i \in 1..Needs(opcode) : Operand(i) \in Cell /\ Operand(i) \in Nat
           /\ opcode \in Takes2 => Needs(opcode) = 2
           /\ opcode \in Takes1 => Needs(opcode) = 1
           /\ opcode \in Takes3 => Needs(opcode) = 3
           /\ opcode = OP.CALL => Needs(opcode) = 7
           /\ opcode \in Pushes0 \cup PUSH \cup DUP => Depth < MAX_STACK_DEPTH
<1>1. Running /\ UNCHANGED made /\ opcode \in ops /\ cost <= gas_remaining /\ Depth >= Needs(opcode)
      BY DEF Executes, Affordable
<1>2. /\ Depth \in Nat /\ cost \in Nat /\ gas_remaining \in Nat
      /\ \A i \in 1..Depth : Operand(i) \in Cell /\ Operand(i) \in Nat
      BY <1>1, AtWork
<1>3. /\ Needs(opcode) \in Nat
      /\ opcode \in Takes2 => Needs(opcode) = 2
      /\ opcode \in Takes1 => Needs(opcode) = 1
      /\ opcode \in Takes3 => Needs(opcode) = 3
      /\ opcode = OP.CALL => Needs(opcode) = 7
      BY Arity
<1>4. opcode \in Pushes0 \cup PUSH \cup DUP => Depth < MAX_STACK_DEPTH
      BY DEF Executes, HasRoom
<1>5. \A i \in 1..Needs(opcode) : i \in 1..Depth
      BY <1>1, <1>2, <1>3
<1>. QED BY <1>1, <1>2, <1>3, <1>4, <1>5

LEMMA ArithmeticKeeps == IInv /\ Arithmetic => IInv'
<1>. SUFFICES ASSUME IInv, Arithmetic PROVE IInv'
     OBVIOUS
<1>1. Executes(Binary) /\ Replace(2, <<Result(opcode, Operand(1), Operand(2))>>)
      /\ Next1 /\ Spend(cost) /\ UNCHANGED <<Data, ended>>
      BY DEF Arithmetic
<1>2. opcode \in Binary /\ Binary \subseteq Takes2
      BY <1>1, Operands DEF Takes2
<1>3. Depth >= 2 /\ Depth \in Nat /\ Operand(1) \in Cell /\ Operand(2) \in Cell
      BY <1>1, <1>2, Operands
<1>4. Result(opcode, Operand(1), Operand(2)) \in Cell
      BY <1>2, <1>3, CellKind, ResultCell
<1>5. Binary \cap PUSH = {}
      BY <1>2, OthersNoPush
<1>. QED BY <1>1, <1>3, <1>4, <1>5, Computes

LEMMA UnaryKeeps == IInv /\ Unary => IInv'
<1>. SUFFICES ASSUME IInv, Unary PROVE IInv'
     OBVIOUS
<1>. DEFINE ops == {OP.ISZERO, OP.NOT}
            v == IF opcode = OP.NOT THEN MOD_VALUE - 1 - Operand(1) ELSE Flag(Operand(1) = 0)
<1>1. Executes(ops) /\ Replace(1, <<v>>) /\ Next1 /\ Spend(cost) /\ UNCHANGED <<Data, ended>>
      BY DEF Unary
<1>2. ops \subseteq Takes1 /\ ops \cap PUSH = {}
      BY OthersNoPush DEF Takes1
<1>. HIDE DEF ops
<1>3. Depth >= 1 /\ Depth \in Nat /\ Operand(1) \in Cell /\ Running
      BY <1>1, <1>2, Operands
<1>4. v \in Cell
  <2>1. CASE opcode = OP.NOT
    <3>1. Cell = Word
          BY <1>3, <2>1, AtWork DEF Cell
    <3>2. MOD_VALUE - 1 - Operand(1) \in Word
          BY <1>3, <3>1, WordValues DEF Word
    <3>. QED BY <2>1, <3>1, <3>2
  <2>2. CASE opcode # OP.NOT
    <3>1. v \in {0, 1}
          BY <2>2 DEF Flag
    <3>. QED BY <3>1, CellKind, CellValues, WordValues
  <2>. QED BY <2>1, <2>2
<1>. HIDE DEF v
<1>. QED BY <1>1, <1>2, <1>3, <1>4, Computes

LEMMA EnvironmentKeeps == IInv /\ Environment => IInv'
<1>. SUFFICES ASSUME IInv, Environment PROVE IInv'
     OBVIOUS
<1>1. Executes(Pushes0) /\ Next1 /\ Spend(cost) /\ UNCHANGED <<Data, ended>>
      BY DEF Environment
<1>2. context.address \in Cell /\ context.caller \in Cell /\ context.value \in Cell
  <2>1. context.value \in Cell
        BY DEF IInv, MadeInv, Cell
  <2>. QED BY <2>1, CellKind, CellValues DEF IInv, MadeInv
<1>3. PICK v \in Cell : Replace(0, <<v>>)
      BY <1>2 DEF Environment
<1>4. Depth < MAX_STACK_DEPTH /\ Depth \in Nat
      BY <1>1, Operands
<1>5. 0 <= Depth /\ 0 \in Nat
      BY <1>4
<1>. QED BY <1>1, <1>3, <1>4, <1>5, OthersNoPush, Computes

LEMMA SizesKeeps == IInv /\ Sizes => IInv'
<1>. SUFFICES ASSUME IInv, Sizes PROVE IInv'
     OBVIOUS
<1>1. Executes(Pushes0) /\ Next1 /\ Spend(cost) /\ UNCHANGED <<Data, ended>>
      BY DEF Sizes
<1>2. Len(memory) \in Word
  <2>1. /\ Len(memory) \in Nat /\ touched \in Nat /\ touched <= MaxMemory
        /\ Len(memory) < touched + WordBytes
        BY DEF IInv, MemoryInv, Holds
  <2>2. MaxMemory + WordBytes <= MOD_VALUE /\ MaxMemory \in Nat /\ WordBytes \in Nat
        BY ValuesAssumption, WidthAssumption
  <2>. QED BY <2>1, <2>2, WordValues DEF Word
<1>3. Len(context.data) \in Cell /\ Len(code) \in Cell /\ Len(memory) \in Cell
      BY <1>2, CellKind, CellValues DEF IInv, MadeInv
<1>4. PICK v \in Cell : Replace(0, <<v>>)
      BY <1>3 DEF Sizes
<1>5. Depth < MAX_STACK_DEPTH /\ Depth \in Nat
      BY <1>1, Operands
<1>6. 0 <= Depth /\ 0 \in Nat
      BY <1>5
<1>. QED BY <1>1, <1>4, <1>5, <1>6, OthersNoPush, Computes

LEMMA GasKeeps == IInv /\ op_gas => IInv'
<1>. SUFFICES ASSUME IInv, op_gas PROVE IInv'
     OBVIOUS
<1>. DEFINE ops == {OP.GAS}
<1>1. Executes(ops) /\ Replace(0, <<gas_remaining - cost>>)
      /\ Next1 /\ Spend(cost) /\ UNCHANGED <<Data, ended>>
      BY DEF op_gas
<1>2. ops \subseteq Pushes0 /\ ops \cap PUSH = {}
      BY OthersNoPush DEF Pushes0
<1>. HIDE DEF ops
<1>3. /\ Depth < MAX_STACK_DEPTH /\ Depth \in Nat
      /\ cost \in Nat /\ cost <= gas_remaining /\ gas_remaining \in Nat
      BY <1>1, <1>2, Operands
<1>4. gas_remaining - cost \in Word
  <2>1. gas_remaining \in 0..context.gas /\ context.gas \in Word
        BY DEF IInv, GasInv, MadeInv
  <2>. QED BY <1>3, <2>1, WordValues DEF Word
<1>5. gas_remaining - cost \in Cell
      BY <1>4, CellKind, CellValues
<1>6. 0 <= Depth /\ 0 \in Nat
      BY <1>3
<1>. QED BY <1>1, <1>2, <1>3, <1>5, <1>6, Computes

LEMMA CallDataLoadKeeps == IInv /\ op_calldataload => IInv'
<1>. SUFFICES ASSUME IInv, op_calldataload PROVE IInv'
     OBVIOUS
<1>. DEFINE ops == {OP.CALLDATALOAD}
            v == from_bytes(Slice(context.data, Operand(1), WordBytes))
<1>1. Executes(ops) /\ Replace(1, <<v>>) /\ Next1 /\ Spend(cost) /\ UNCHANGED <<Data, ended>>
      BY DEF op_calldataload
<1>2. ops \subseteq Takes1 /\ ops \cap PUSH = {}
      BY OthersNoPush DEF Takes1
<1>. HIDE DEF ops
<1>3. Depth >= 1 /\ Depth \in Nat /\ Operand(1) \in Nat
      BY <1>1, <1>2, Operands
<1>4. v \in Word
  <2>1. context.data \in Seq(Byte)
        BY DEF IInv, MadeInv
  <2>2. WordBytes \in 0..WordBytes
        BY WordValues
  <2>. QED BY <1>3, <2>1, <2>2, BytesMakeWord
<1>. HIDE DEF v
<1>5. v \in Cell
      BY <1>4, CellKind, CellValues
<1>. QED BY <1>1, <1>2, <1>3, <1>5, Computes

LEMMA CopyKeeps == IInv /\ Copy => IInv'
<1>. SUFFICES ASSUME IInv, Copy PROVE IInv'
     OBVIOUS
<1>. DEFINE ops == {OP.CALLDATACOPY, OP.CODECOPY}
            src == IF opcode = OP.CODECOPY THEN code ELSE context.data
            data == Slice(src, Operand(2), Operand(3))
<1>1. /\ Executes(ops) /\ Fits(Operand(1), Operand(3)) /\ Write(Operand(1), data)
      /\ Replace(3, <<>>) /\ Next1 /\ Spend(cost) /\ UNCHANGED <<storage, ended>>
      BY DEF Copy
<1>2. ops \subseteq Takes3 /\ ops \cap PUSH = {}
      BY OthersNoPush DEF Takes3
<1>. HIDE DEF ops
<1>3. /\ UNCHANGED made /\ Depth >= 3 /\ Depth \in Nat
      /\ Operand(1) \in Nat /\ Operand(2) \in Nat /\ Operand(3) \in Nat
      BY <1>1, <1>2, Operands
<1>4. src \in Seq(Byte)
      BY DEF IInv, MadeInv
<1>. HIDE DEF src
<1>5. data \in Seq(Byte) /\ Len(data) = Operand(3)
      BY <1>3, <1>4, SliceType
<1>. HIDE DEF data
<1>6. MemoryInv'
      BY <1>1, <1>3, <1>5, WriteKeepsMemory
<1>7. StackInv'
      BY <1>1, <1>3, Popped
<1>. QED BY <1>1, <1>2, <1>6, <1>7, Accessed

LEMMA PopKeeps == IInv /\ op_pop => IInv'
<1>. SUFFICES ASSUME IInv, op_pop PROVE IInv'
     OBVIOUS
<1>. DEFINE ops == {OP.POP}
<1>1. Executes(ops) /\ Replace(1, <<>>) /\ Next1 /\ Spend(cost) /\ UNCHANGED <<Data, ended>>
      BY DEF op_pop
<1>2. ops \subseteq Takes1 /\ ops \cap PUSH = {}
      BY OthersNoPush DEF Takes1
<1>. HIDE DEF ops
<1>3. UNCHANGED made /\ Depth >= 1
      BY <1>1, <1>2, Operands
<1>4. StackInv' /\ MemoryInv'
      BY <1>1, <1>3, Popped, Kept DEF Data
<1>. QED BY <1>1, <1>2, <1>4, Accessed DEF Data

LEMMA PushKeeps == IInv /\ op_push => IInv'
<1>. SUFFICES ASSUME IInv, op_push PROVE IInv'
     OBVIOUS
<1>. DEFINE v == from_bytes(Slice(code, program_counter + 1, push_size(opcode)))
<1>1. /\ Executes(PUSH) /\ Replace(0, <<v>>)
      /\ Goto(program_counter + 1 + push_size(opcode))
      /\ Spend(cost) /\ UNCHANGED <<Data, ended>>
      BY DEF op_push
<1>2. /\ Running /\ UNCHANGED made /\ opcode \in PUSH
      /\ Depth < MAX_STACK_DEPTH /\ Depth \in Nat
      /\ cost \in Nat /\ cost <= gas_remaining
      BY <1>1, Operands
<1>3. program_counter + 1 \in Nat /\ code \in Seq(Byte)
  <2>1. program_counter \in Nat
        BY <1>2, AtWork
  <2>2. code \in Seq(Byte)
        BY DEF IInv, MadeInv
  <2>. QED BY <2>1, <2>2
<1>4. push_size(opcode) \in 0..WordBytes
      BY <1>2, WordValues, Opcodes DEF push_size, PUSH
<1>5. v \in Word
      BY <1>3, <1>4, BytesMakeWord
<1>. HIDE DEF v
<1>6. v \in Cell /\ 0 <= Depth /\ 0 \in Nat
      BY <1>2, <1>5, CellKind, CellValues
<1>7. StackInv'
      BY <1>1, <1>2, <1>6, Pushed
<1>8. PositionInv'
      BY <1>1, <1>2, Follows
<1>9. StorageInv' /\ MemoryInv'
      BY <1>1, <1>2, Kept DEF Data
<1>10. stopped' \in BOOLEAN /\ reverted' \in BOOLEAN /\ return_data' \in Seq(Byte) /\ UNCHANGED raised
      BY <1>1 DEF IInv, EndInv, ended
<1>. QED BY <1>1, <1>2, <1>7, <1>8, <1>9, <1>10, Continues

LEMMA DupKeeps == IInv /\ op_dup => IInv'
<1>. SUFFICES ASSUME IInv, op_dup PROVE IInv'
     OBVIOUS
<1>1. Executes(DUP) /\ Replace(0, <<Operand(Needs(opcode))>>)
      /\ Next1 /\ Spend(cost) /\ UNCHANGED <<Data, ended>>
      BY DEF op_dup
<1>2. /\ opcode \in DUP /\ Depth < MAX_STACK_DEPTH /\ Depth \in Nat
      /\ Needs(opcode) \in Nat /\ \A i \in 1..Needs(opcode) : Operand(i) \in Cell
      BY <1>1, Operands
<1>3. Needs(opcode) \in 1..Needs(opcode)
      BY <1>2, Arity
<1>4. Operand(Needs(opcode)) \in Cell /\ 0 <= Depth /\ 0 \in Nat
      BY <1>2, <1>3
<1>. QED BY <1>1, <1>2, <1>4, OthersNoPush, Computes

LEMMA SwapKeeps == IInv /\ op_swap => IInv'
<1>. SUFFICES ASSUME IInv, op_swap PROVE IInv'
     OBVIOUS
<1>. DEFINE s == execution_stack
            C == Cell
            n == Needs(opcode)
            first == [s EXCEPT ![Depth] = Operand(n)]
            both == [first EXCEPT ![Depth - n + 1] = Operand(1)]
<1>1. /\ Executes(SWAP)
      /\ execution_stack' = both
      /\ Next1 /\ Spend(cost) /\ UNCHANGED <<Data, ended>>
      BY DEF op_swap
<1>2. /\ opcode \in SWAP /\ UNCHANGED made /\ Depth \in Nat /\ n \in Nat /\ n <= Depth
      /\ \A i \in 1..n : Operand(i) \in C
      BY <1>1, Operands
<1>3. n >= 2
      BY <1>2, Arity
<1>4. Operand(1) \in C /\ Operand(n) \in C /\ Depth \in 1..Depth /\ Depth - n + 1 \in 1..Depth
  <2>. HIDE DEF n, C
  <2>. QED BY <1>2, <1>3
<1>5. s \in Seq(C) /\ Len(s) = Depth /\ Depth <= MAX_STACK_DEPTH
      BY DEF IInv, StackInv, Depth
<1>. HIDE DEF s, C, n
<1>6. first \in Seq(C) /\ Len(first) = Depth
      BY <1>4, <1>5, ExceptSeq
<1>. HIDE DEF first
<1>7. both \in Seq(C) /\ Len(both) = Depth
      BY <1>4, <1>6, ExceptSeq
<1>. HIDE DEF both
<1>8. Cell' = C
      BY <1>2, Kept DEF C
<1>9. StackInv'
      BY <1>1, <1>5, <1>7, <1>8 DEF StackInv, Depth
<1>10. MemoryInv'
      BY <1>1, <1>2, Kept DEF Data
<1>. QED BY <1>1, <1>9, <1>10, OthersNoPush, Accessed DEF Data

LEMMA MloadKeeps == IInv /\ op_mload => IInv'
<1>. SUFFICES ASSUME IInv, op_mload PROVE IInv'
     OBVIOUS
<1>. DEFINE ops == {OP.MLOAD}
            v == from_bytes(Slice(memory, Operand(1), WordBytes))
<1>1. /\ Executes(ops) /\ Read(Operand(1), WordBytes) /\ Replace(1, <<v>>)
      /\ Next1 /\ Spend(cost) /\ UNCHANGED <<storage, ended>>
      BY DEF op_mload
<1>2. ops \subseteq Takes1 /\ ops \cap PUSH = {}
      BY OthersNoPush DEF Takes1
<1>. HIDE DEF ops
<1>3. UNCHANGED made /\ Depth >= 1 /\ Depth \in Nat /\ Operand(1) \in Nat
      BY <1>1, <1>2, Operands
<1>4. v \in Word
  <2>1. memory \in Seq(Byte) /\ WordBytes \in 0..WordBytes
        BY WordValues DEF IInv, MemoryInv, Holds
  <2>. QED BY <1>3, <2>1, BytesMakeWord
<1>. HIDE DEF v
<1>5. v \in Cell
      BY <1>4, CellKind, CellValues
<1>6. StackInv'
      BY <1>1, <1>3, <1>5, Pushed
<1>7. MemoryInv'
      BY <1>1, <1>3, WordValues, ReadKeeps
<1>. QED BY <1>1, <1>2, <1>6, <1>7, Accessed

LEMMA Sha3Keeps == IInv /\ op_sha3 => IInv'
<1>. SUFFICES ASSUME IInv, op_sha3 PROVE IInv'
     OBVIOUS
<1>. DEFINE ops == {OP.SHA3}
<1>1. /\ Executes(ops) /\ Read(Operand(1), Operand(2))
      /\ Next1 /\ Spend(cost) /\ UNCHANGED <<storage, ended>>
      BY DEF op_sha3
<1>2. PICK v \in Digests : Replace(2, <<v>>)
      BY DEF op_sha3
<1>3. ops \subseteq Takes2 /\ ops \cap PUSH = {}
      BY OthersNoPush DEF Takes2
<1>. HIDE DEF ops
<1>4. UNCHANGED made /\ Depth >= 2 /\ Depth \in Nat /\ Operand(1) \in Nat /\ Operand(2) \in Nat
      BY <1>1, <1>3, Operands
<1>5. v \in Cell
      BY ValuesAssumption, CellKind, CellValues
<1>6. StackInv'
      BY <1>2, <1>4, <1>5, Pushed
<1>7. MemoryInv'
      BY <1>1, <1>4, ReadKeeps
<1>. QED BY <1>1, <1>3, <1>6, <1>7, Accessed

LEMMA MemoryWriteKeeps == IInv /\ MemoryWrite => IInv'
<1>. SUFFICES ASSUME IInv, MemoryWrite PROVE IInv'
     OBVIOUS
<1>. DEFINE ops == {OP.MSTORE, OP.MSTORE8}
<1>1. /\ Executes(ops) /\ Replace(2, <<>>)
      /\ Next1 /\ Spend(cost) /\ UNCHANGED <<storage, ended>>
      BY DEF MemoryWrite
<1>2. ops \subseteq Takes2 /\ ops \cap PUSH = {}
      BY OthersNoPush DEF Takes2
<1>. HIDE DEF ops
<1>3. UNCHANGED made /\ Depth >= 2 /\ Depth \in Nat /\ Operand(1) \in Nat /\ Operand(2) \in Nat
      BY <1>1, <1>2, Operands
<1>4. StackInv'
      BY <1>1, <1>3, Popped
<1>5. to_bytes(Operand(2), WordBytes) \in Seq(Byte) /\ Len(to_bytes(Operand(2), WordBytes)) = WordBytes
      BY <1>3, WordValues, ToBytes
<1>6. <<Operand(2) % 256>> \in Seq(Byte) /\ Len(<<Operand(2) % 256>>) = 1
  <2>1. (Operand(2) % 256) \in Byte
        BY <1>3 DEF Byte
  <2>. QED BY <2>1
<1>7. MemoryInv'
  <2>1. PICK data \in {to_bytes(Operand(2), WordBytes), <<Operand(2) % 256>>} :
            Fits(Operand(1), Len(data)) /\ Write(Operand(1), data)
        BY <1>5, <1>6 DEF MemoryWrite
  <2>2. data \in Seq(Byte)
        BY <1>5, <1>6
  <2>. QED BY <1>3, <2>1, <2>2, WriteKeepsMemory
<1>. QED BY <1>1, <1>2, <1>4, <1>7, Accessed

LEMMA SloadKeeps == IInv /\ op_sload => IInv'
<1>. SUFFICES ASSUME IInv, op_sload PROVE IInv'
     OBVIOUS
<1>. DEFINE ops == {OP.SLOAD}
            v == IF Operand(1) \in DOMAIN storage THEN storage[Operand(1)] ELSE 0
<1>1. Executes(ops) /\ Replace(1, <<v>>) /\ Next1 /\ Spend(cost) /\ UNCHANGED <<Data, ended>>
      BY DEF op_sload
<1>2. ops \subseteq Takes1 /\ ops \cap PUSH = {}
      BY OthersNoPush DEF Takes1
<1>. HIDE DEF ops
<1>3. Depth >= 1 /\ Depth \in Nat
      BY <1>1, <1>2, Operands
<1>4. v \in Cell
  <2>1. 0 \in Cell
        BY CellKind, CellValues, WordValues
  <2>. QED BY <2>1 DEF IInv, StorageInv
<1>. HIDE DEF v
<1>. QED BY <1>1, <1>2, <1>3, <1>4, Computes

LEMMA SstoreKeeps == IInv /\ op_sstore => IInv'
<1>. SUFFICES ASSUME IInv, op_sstore PROVE IInv'
     OBVIOUS
<1>. DEFINE ops == {OP.SSTORE}
<1>1. /\ Executes(ops) /\ Replace(2, <<>>) /\ Next1 /\ Spend(cost)
      /\ UNCHANGED <<memory, touched, ended>>
      BY DEF op_sstore
<1>2. ops \subseteq Takes2 /\ ops \cap PUSH = {}
      BY OthersNoPush DEF Takes2
<1>. HIDE DEF ops
<1>3. /\ Running /\ UNCHANGED made /\ opcode \in ops /\ Depth >= 2 /\ Depth \in Nat
      /\ Operand(1) \in Cell /\ Operand(2) \in Cell /\ cost \in Nat /\ cost <= gas_remaining
      BY <1>1, <1>2, Operands
<1>4. StackInv'
      BY <1>1, <1>3, Popped
<1>5. StorageInv'
  <2>1. \A k \in DOMAIN storage : k \in Cell /\ storage[k] \in Cell
        BY DEF IInv, StorageInv
  <2>2. DOMAIN storage' = DOMAIN storage \cup {Operand(1)}
        BY DEF op_sstore
  <2>3. ASSUME NEW k \in DOMAIN storage'
        PROVE  k \in Cell /\ storage'[k] \in Cell
    <3>1. storage'[k] = IF k = Operand(1) THEN Operand(2) ELSE storage[k]
          BY <2>2 DEF op_sstore
    <3>. QED BY <1>3, <2>1, <2>2, <3>1
  <2>4. Cell' = Cell
        BY <1>3, Kept
  <2>. QED BY <2>3, <2>4 DEF StorageInv
<1>6. MemoryInv'
      BY <1>1, <1>3, Kept
<1>7. PositionInv'
      BY <1>1, <1>2, <1>3, Advances
<1>8. stopped' \in BOOLEAN /\ reverted' \in BOOLEAN /\ return_data' \in Seq(Byte) /\ UNCHANGED raised
      BY <1>1 DEF IInv, EndInv, ended
<1>. QED BY <1>1, <1>3, <1>4, <1>5, <1>6, <1>7, <1>8, Continues

LEMMA JumpKeeps == IInv /\ op_jump => IInv'
<1>. SUFFICES ASSUME IInv, op_jump PROVE IInv'
     OBVIOUS
<1>. DEFINE ops == {OP.JUMP, OP.JUMPI}
<1>1. /\ Executes(ops) /\ Replace(Needs(opcode), <<>>) /\ Spend(cost)
      /\ UNCHANGED <<Data, ended>>
      BY DEF op_jump
<1>2. ops \cap PUSH = {}
      BY OthersNoPush DEF Takes1, Takes2
<1>. HIDE DEF ops
<1>3. /\ Running /\ UNCHANGED made /\ opcode \in ops
      /\ Needs(opcode) \in Nat /\ Needs(opcode) <= Depth
      /\ cost \in Nat /\ cost <= gas_remaining
      BY <1>1, Operands
<1>4. StackInv'
      BY <1>1, <1>3, Popped
<1>5. StorageInv' /\ MemoryInv'
      BY <1>1, <1>3, Kept DEF Data
<1>6. PositionInv'
  <2>1. CASE Operand(1) \in valid_jumpdests /\ Goto(Operand(1))
        BY <1>3, <2>1, Lands
  <2>2. CASE Next1
        BY <1>2, <1>3, <2>2, Advances
  <2>. QED BY <2>1, <2>2 DEF op_jump
<1>7. stopped' \in BOOLEAN /\ reverted' \in BOOLEAN /\ return_data' \in Seq(Byte) /\ UNCHANGED raised
      BY <1>1 DEF IInv, EndInv, ended
<1>. QED BY <1>1, <1>3, <1>4, <1>5, <1>6, <1>7, Continues

LEMMA JumpdestKeeps == IInv /\ op_jumpdest => IInv'
<1>. SUFFICES ASSUME IInv, op_jumpdest PROVE IInv'
     OBVIOUS
<1>. DEFINE ops == {OP.JUMPDEST}
<1>1. /\ Executes(ops) /\ Next1 /\ Spend(cost)
      /\ UNCHANGED <<execution_stack, Data, ended>>
      BY DEF op_jumpdest
<1>2. ops \cap PUSH = {}
      BY OthersNoPush
<1>. HIDE DEF ops
<1>3. UNCHANGED made
      BY <1>1, Operands
<1>4. StackInv' /\ MemoryInv'
      BY <1>1, <1>3, Kept DEF Data
<1>. QED BY <1>1, <1>2, <1>4, Accessed DEF Data

(* Halting.                                                                  *)
LEMMA StopKeeps == IInv /\ op_stop => IInv'
<1>. SUFFICES ASSUME IInv, op_stop PROVE IInv'
     OBVIOUS
<1>. DEFINE ops == {OP.STOP}
<1>1. /\ Executes(ops) /\ stopped' = TRUE /\ Next1 /\ Spend(cost)
      /\ UNCHANGED <<execution_stack, Data, reverted, return_data, raised>>
      BY DEF op_stop
<1>2. ops \cap PUSH = {}
      BY OthersNoPush
<1>. HIDE DEF ops
<1>3. Running /\ UNCHANGED made /\ opcode \in ops /\ cost \in Nat /\ cost <= gas_remaining
      BY <1>1, Operands
<1>4. StackInv' /\ StorageInv' /\ MemoryInv'
      BY <1>1, <1>3, Kept DEF Data
<1>5. PositionInv'
      BY <1>1, <1>2, <1>3, Advances
<1>6. stopped' \in BOOLEAN /\ reverted' \in BOOLEAN /\ return_data' \in Seq(Byte) /\ UNCHANGED raised
      BY <1>1 DEF IInv, EndInv
<1>. QED BY <1>1, <1>3, <1>4, <1>5, <1>6, Continues

LEMMA AnswerKeeps == IInv /\ Answer => IInv'
<1>. SUFFICES ASSUME IInv, Answer PROVE IInv'
     OBVIOUS
<1>. DEFINE ops == {OP.RETURN, OP.REVERT}
            data == Slice(memory, Operand(1), Operand(2))
<1>1. /\ Executes(ops) /\ Read(Operand(1), Operand(2)) /\ Replace(2, <<>>)
      /\ return_data' = data /\ stopped' = TRUE /\ reverted' \in BOOLEAN
      /\ Next1 /\ Spend(cost) /\ UNCHANGED <<storage, raised>>
      BY DEF Answer
<1>2. ops \subseteq Takes2 /\ ops \cap PUSH = {}
      BY OthersNoPush DEF Takes2
<1>. HIDE DEF ops
<1>3. /\ Running /\ UNCHANGED made /\ opcode \in ops /\ Depth >= 2 /\ Depth \in Nat
      /\ Operand(1) \in Nat /\ Operand(2) \in Nat /\ cost \in Nat /\ cost <= gas_remaining
      BY <1>1, <1>2, Operands
<1>4. StackInv'
      BY <1>1, <1>3, Popped
<1>5. StorageInv'
      BY <1>1, <1>3, Kept
<1>6. MemoryInv'
      BY <1>1, <1>3, ReadKeeps
<1>7. PositionInv'
      BY <1>1, <1>2, <1>3, Advances
<1>8. data \in Seq(Byte)
  <2>1. memory \in Seq(Byte)
        BY DEF IInv, MemoryInv, Holds
  <2>. QED BY <1>3, <2>1, SliceType
<1>. HIDE DEF data
<1>9. stopped' \in BOOLEAN /\ reverted' \in BOOLEAN /\ return_data' \in Seq(Byte) /\ UNCHANGED raised
      BY <1>1, <1>8
<1>. QED BY <1>1, <1>3, <1>4, <1>5, <1>6, <1>7, <1>9, Continues

LEMMA InvalidKeeps == IInv /\ Invalid => IInv'
<1>. SUFFICES ASSUME IInv, Invalid PROVE IInv'
     OBVIOUS
<1>. DEFINE ops == {OP.INVALID}
<1>1. /\ Executes(ops) /\ gas_remaining' = 0 /\ stopped' = TRUE /\ reverted' = TRUE
      /\ UNCHANGED <<program_counter, execution_stack, Data, return_data, raised>>
      BY DEF Invalid
<1>. HIDE DEF ops
<1>2. Running /\ UNCHANGED made /\ gas_remaining \in Nat
      BY <1>1, Operands
<1>3. StackInv' /\ StorageInv' /\ MemoryInv' /\ PositionInv'
      BY <1>1, <1>2, Kept DEF Data
<1>4. Spend(gas_remaining)
      BY <1>1, <1>2 DEF Spend
<1>5. stopped' \in BOOLEAN /\ reverted' \in BOOLEAN /\ return_data' \in Seq(Byte) /\ UNCHANGED raised
      BY <1>1 DEF IInv, EndInv
<1>. QED BY <1>2, <1>3, <1>4, <1>5, Continues

-----------------------------------------------------------------------------
(* CREATE and CALL *)

LEMMA UnansweredKeeps == IInv /\ Unanswered => IInv'
<1>. SUFFICES ASSUME IInv, Unanswered PROVE IInv'
     OBVIOUS
<1>. DEFINE ops == {OP.CREATE, OP.CALL}
<1>1. Executes(ops) /\ Replace(Needs(opcode), <<0>>)
      /\ Next1 /\ Spend(cost) /\ UNCHANGED <<Data, ended>>
      BY DEF Unanswered
<1>2. ops \cap PUSH = {} /\ OP.CREATE \in Takes3
      BY OthersNoPush DEF Takes3
<1>3. opcode = OP.CREATE \/ opcode = OP.CALL
      BY <1>1, Operands
<1>. HIDE DEF ops
<1>4. Needs(opcode) \in Nat /\ Needs(opcode) <= Depth /\ Needs(opcode) >= 1
      BY <1>1, <1>2, <1>3, Operands
<1>5. 0 \in Cell
      BY CellKind, CellValues, WordValues
<1>. QED BY <1>1, <1>2, <1>4, <1>5, Computes

(* After a nested frame: what it used is paid.                               *)
LEMMA Resumes ==
    ASSUME IInv, NEW ops, Executes(ops), ops \cap PUSH = {}, StackInv', MemoryInv',
           NEW used \in Nat, used <= Left, Spend(cost + used),
           Next1, UNCHANGED <<storage, ended>>
    PROVE  IInv'
<1>1. /\ Running /\ UNCHANGED made /\ opcode \in ops
      /\ cost \in Nat /\ cost <= gas_remaining /\ gas_remaining \in Nat
      BY Operands
<1>2. cost + used \in Nat /\ cost + used <= gas_remaining
      BY <1>1 DEF Left
<1>3. StorageInv'
      BY <1>1, Kept
<1>4. PositionInv'
      BY <1>1, Advances
<1>5. stopped' \in BOOLEAN /\ reverted' \in BOOLEAN /\ return_data' \in Seq(Byte) /\ UNCHANGED raised
      BY DEF IInv, EndInv, ended
<1>. QED BY <1>1, <1>2, <1>3, <1>4, <1>5, Continues

LEMMA CreateKeeps == IInv /\ op_create => IInv'
<1>. SUFFICES ASSUME IInv, op_create PROVE IInv'
     OBVIOUS
<1>. DEFINE ops == {OP.CREATE}
<1>1. /\ Executes(ops) /\ Read(Operand(2), Operand(3))
      /\ Next1 /\ UNCHANGED <<storage, ended>>
      BY DEF op_create
<1>2. ops \subseteq Takes3 /\ ops \cap PUSH = {}
      BY OthersNoPush DEF Takes3
<1>. HIDE DEF ops
<1>3. /\ UNCHANGED made /\ Depth >= 3 /\ Depth \in Nat
      /\ Operand(2) \in Nat /\ Operand(3) \in Nat
      /\ cost \in Nat /\ cost <= gas_remaining /\ gas_remaining \in Nat
      BY <1>1, <1>2, Operands
<1>4. MemoryInv'
      BY <1>1, <1>3, ReadKeeps
<1>5. \A v \in {0} \cup Created : v \in Cell
      BY ValuesAssumption, CellKind, CellValues, WordValues
<1>6. CASE Replace(3, <<0>>) /\ Spend(cost)
  <2>1. StackInv'
        BY <1>3, <1>5, <1>6, Pushed
  <2>. QED BY <1>1, <1>2, <1>4, <1>6, <2>1, Accessed
<1>7. ASSUME NEW used \in GasUsed, NEW answer \in {0} \cup Created,
             used <= Left, Replace(3, <<answer>>), Spend(cost + used)
      PROVE  IInv'
  <2>1. StackInv'
        BY <1>3, <1>5, <1>7, Pushed
  <2>2. used \in Nat
        BY WidthAssumption
  <2>. QED BY <1>1, <1>2, <1>4, <1>7, <2>1, <2>2, Resumes
<1>. QED BY <1>6, <1>7 DEF op_create

(* What the three ways a CALL ends have in common.                           *)
LEMMA CallOperands ==
    ASSUME IInv, Calls
    PROVE  /\ Executes({OP.CALL}) /\ {OP.CALL} \cap PUSH = {}
           /\ Running /\ UNCHANGED made
           /\ 7 <= Depth /\ \A i \in 1..7 : Operand(i) \in Nat
           /\ cost \in Nat /\ cost <= gas_remaining /\ gas_remaining \in Nat
           /\ Left \in Nat /\ Forwarded \in Nat /\ Forwarded <= Left
           /\ Fits(Operand(4), Operand(5))
<1>. DEFINE ops == {OP.CALL}
<1>1. Executes(ops) /\ ops \cap PUSH = {} /\ Fits(Operand(4), Operand(5))
      BY OthersNoPush DEF Calls
<1>2. opcode = OP.CALL
      BY <1>1, Operands
<1>3. /\ Running /\ UNCHANGED made
      /\ 7 <= Depth /\ \A i \in 1..7 : Operand(i) \in Nat
      /\ cost \in Nat /\ cost <= gas_remaining /\ gas_remaining \in Nat
  <2>. HIDE DEF ops
  <2>. QED BY <1>1, <1>2, Operands
<1>4. Left \in Nat
      BY <1>3 DEF Left
<1>5. Operand(1) \in Nat
      BY <1>3
<1>6. Forwarded \in Nat /\ Forwarded <= Left
      BY <1>4, <1>5 DEF Forwarded, Least
<1>. QED BY <1>1, <1>3, <1>4, <1>6

LEMMA CallRunsNothingKeeps == IInv /\ CallRunsNothing => IInv'
<1>. SUFFICES ASSUME IInv, CallRunsNothing PROVE IInv'
     OBVIOUS
<1>1. /\ Calls /\ Read(Operand(4), Operand(5)) /\ Spend(cost)
      /\ Next1 /\ UNCHANGED <<storage, ended>>
      BY DEF CallRunsNothing
<1>2. /\ Executes({OP.CALL}) /\ {OP.CALL} \cap PUSH = {} /\ UNCHANGED made /\ 7 <= Depth
      /\ Operand(4) \in Nat /\ Operand(5) \in Nat
      BY <1>1, CallOperands
<1>3. MemoryInv'
      BY <1>1, <1>2, ReadKeeps
<1>4. 0 \in Cell /\ 1 \in Cell
      BY CellKind, CellValues, WordValues
<1>5. PICK v \in {0, 1} : Replace(7, <<v>>)
      BY DEF CallRunsNothing
<1>6. StackInv'
      BY <1>2, <1>4, <1>5, Pushed
<1>. QED BY <1>1, <1>2, <1>3, <1>6, Accessed

LEMMA CallFailsKeeps == IInv /\ CallFails => IInv'
<1>. SUFFICES ASSUME IInv, CallFails PROVE IInv'
     OBVIOUS
<1>1. /\ Calls /\ Read(Operand(4), Operand(5)) /\ Replace(7, <<0>>)
      /\ Spend(cost + Forwarded) /\ Next1 /\ UNCHANGED <<storage, ended>>
      BY DEF CallFails
<1>2. /\ Executes({OP.CALL}) /\ {OP.CALL} \cap PUSH = {} /\ UNCHANGED made /\ 7 <= Depth
      /\ Operand(4) \in Nat /\ Operand(5) \in Nat
      /\ Forwarded \in Nat /\ Forwarded <= Left
      BY <1>1, CallOperands
<1>3. MemoryInv'
      BY <1>1, <1>2, ReadKeeps
<1>4. 0 \in Cell
      BY CellKind, CellValues, WordValues
<1>5. StackInv'
      BY <1>1, <1>2, <1>4, Pushed
<1>. QED BY <1>1, <1>2, <1>3, <1>5, Resumes

LEMMA CallSucceedsKeeps == IInv /\ CallSucceeds => IInv'
<1>. SUFFICES ASSUME IInv, CallSucceeds PROVE IInv'
     OBVIOUS
<1>1. Calls /\ Replace(7, <<1>>) /\ Next1 /\ UNCHANGED <<storage, ended>>
      BY DEF CallSucceeds
<1>2. /\ Executes({OP.CALL}) /\ {OP.CALL} \cap PUSH = {} /\ UNCHANGED made /\ 7 <= Depth
      /\ Operand(4) \in Nat /\ Operand(5) \in Nat /\ Operand(6) \in Nat /\ Operand(7) \in Nat
      /\ Forwarded \in Nat /\ Forwarded <= Left /\ Left \in Nat
      /\ Fits(Operand(4), Operand(5))
      BY <1>1, CallOperands
<1>3. PICK used \in GasUsed, data \in ReturnData :
          LET size == IF data = <<>> THEN 0 ELSE Operand(7) IN
          /\ used <= Forwarded
          /\ Fits(Operand(6), size)
          /\ memory' = write_range(expand_to(memory, Operand(4), Operand(5)),
                                   Operand(6), Slice(data, 0, size))
          /\ Touch(IF Args > Reach(Operand(6), size) THEN Args ELSE Reach(Operand(6), size))
          /\ Spend(cost + used)
      BY DEF CallSucceeds
<1>. DEFINE size == IF data = <<>> THEN 0 ELSE Operand(7)
            result == Slice(data, 0, size)
            grown == expand_to(memory, Operand(4), Operand(5))
            t == Higher(Args, touched)
            r == Reach(Operand(6), size)
<1>4. /\ used <= Forwarded /\ Fits(Operand(6), size)
      /\ memory' = write_range(grown, Operand(6), result)
      /\ Touch(IF Args > r THEN Args ELSE r)
      /\ Spend(cost + used)
      BY <1>3
<1>5. data \in Seq(Byte)
      BY ValuesAssumption
<1>6. size \in Nat
      BY <1>2
<1>. HIDE DEF size
<1>7. result \in Seq(Byte) /\ Len(result) = size
      BY <1>5, <1>6, SliceType
<1>8. Holds(grown, t)
      BY <1>2, ExpandKeeps DEF Args, IInv, MemoryInv
<1>. HIDE DEF result, grown
<1>9. Holds(write_range(grown, Operand(6), result), Higher(r, t))
  <2>. HIDE DEF t
  <2>. QED BY <1>2, <1>4, <1>7, <1>8, WriteKeeps
<1>10. touched' = Higher(r, t)
  <2>1. Args \in Nat /\ r \in Nat /\ touched \in Nat
        BY <1>2, <1>6 DEF Args, Reach, IInv, MemoryInv, Holds
  <2>. HIDE DEF r
  <2>. QED BY <1>4, <2>1 DEF Touch, Higher
<1>. HIDE DEF t, r
<1>11. MemoryInv'
      BY <1>4, <1>9, <1>10 DEF MemoryInv
<1>12. 1 \in Cell
      BY CellKind, CellValues, WordValues
<1>13. StackInv'
      BY <1>1, <1>2, <1>12, Pushed
<1>14. used \in Nat /\ used <= Left
  <2>1. used \in Nat
        BY WidthAssumption
  <2>. QED BY <1>2, <1>4, <2>1
<1>. QED BY <1>1, <1>2, <1>4, <1>11, <1>13, <1>14, Resumes

-----------------------------------------------------------------------------
(* Exceptions *)

LEMMA Raises ==
    ASSUME IInv, NEW exception \in Exceptions, Raise(exception),
           GasInv', reverted' \in BOOLEAN, RefusedInv',
           exception = "OverflowError" => context.value \notin Word
    PROVE  IInv'
<1>1. UNCHANGED made /\ UNCHANGED <<program_counter, execution_stack, Data, stopped, return_data>>
      BY DEF Raise
<1>2. MadeInv' /\ StackInv' /\ StorageInv' /\ MemoryInv' /\ PositionInv'
      BY <1>1, Kept DEF Data
<1>3. raised' = exception
      BY DEF Raise
<1>4. EndInv'
      BY <1>1, <1>3 DEF EndInv, IInv, made
<1>. QED BY <1>2, <1>4 DEF IInv

(* Those that a handler raises, with the opcode paid for.                    *)
LEMMA HandlerRaisesKeeps ==
    ASSUME IInv, NEW exception \in Exceptions, HandlerRaises(exception), RefusedInv',
           exception = "OverflowError" => context.value \notin Word
    PROVE  IInv'
<1>1. Raise(exception) /\ Running /\ UNCHANGED made /\ Spend(cost) /\ cost <= gas_remaining
      /\ UNCHANGED reverted
      BY DEF HandlerRaises, Raise, Affordable
<1>2. cost \in Nat
      BY <1>1, AtWork
<1>3. GasInv'
      BY <1>1, <1>2, Spent
<1>4. reverted' \in BOOLEAN
      BY <1>1 DEF IInv, EndInv
<1>. QED BY <1>1, <1>3, <1>4, Raises

LEMMA ExceptionsKeep ==
    IInv /\ (InvalidOpcode \/ OutOfGas \/ StackUnderflow \/ StackOverflow \/ MemoryError
                \/ CalleeRaises) => IInv'
<1>. SUFFICES ASSUME IInv PROVE InvalidOpcode \/ OutOfGas \/ StackUnderflow \/ StackOverflow
                                    \/ MemoryError \/ CalleeRaises => IInv'
     OBVIOUS
<1>1. ASSUME NEW exception, Raise(exception), exception # "InvalidJumpDestination"
      PROVE  RefusedInv'
      BY <1>1 DEF RefusedInv, Raise
<1>2. ASSUME NEW exception \in {"StackUnderflow", "StackOverflow", "MemoryError", "EVMError"},
             HandlerRaises(exception)
      PROVE  IInv'
  <2>1. exception \in Exceptions /\ exception # "OverflowError"
        /\ exception # "InvalidJumpDestination"
        BY DEF Exceptions
  <2>2. RefusedInv'
        BY <1>1, <1>2, <2>1 DEF HandlerRaises
  <2>. QED BY <1>2, <2>1, <2>2, HandlerRaisesKeeps
<1>3. CASE StackUnderflow \/ StackOverflow \/ MemoryError \/ CalleeRaises
      BY <1>2, <1>3 DEF StackUnderflow, StackOverflow, MemoryError, CalleeRaises
<1>4. CASE InvalidOpcode
  <2>1. Raise("InvalidOpcode") /\ UNCHANGED <<gas_remaining, reverted>>
        BY <1>4 DEF InvalidOpcode
  <2>2. GasInv' /\ reverted' \in BOOLEAN
        BY <2>1 DEF IInv, GasInv, EndInv, Raise, made
  <2>3. RefusedInv'
        BY <1>1, <2>1
  <2>4. "InvalidOpcode" \in Exceptions
        BY DEF Exceptions
  <2>. QED BY <2>1, <2>2, <2>3, <2>4, Raises
<1>5. CASE OutOfGas
  <2>1. Raise("OutOfGas") /\ gas_remaining' = 0 /\ reverted' = TRUE
        BY <1>5 DEF OutOfGas
  <2>2. GasInv' /\ reverted' \in BOOLEAN
    <3>1. context.gas \in Nat
          BY WordValues DEF IInv, MadeInv
    <3>. QED BY <2>1, <3>1 DEF GasInv, Raise, made
  <2>3. RefusedInv'
        BY <1>1, <2>1
  <2>4. "OutOfGas" \in Exceptions
        BY DEF Exceptions
  <2>. QED BY <2>1, <2>2, <2>3, <2>4, Raises
<1>. QED BY <1>3, <1>4, <1>5

(* A jump is refused only where no instruction JUMPDEST is.                  *)
LEMMA InvalidJumpDestinationKeeps == IInv /\ InvalidJumpDestination => IInv'
<1>. SUFFICES ASSUME IInv, InvalidJumpDestination PROVE IInv'
     OBVIOUS
<1>1. HandlerRaises("InvalidJumpDestination") /\ Operand(1) \notin valid_jumpdests
      BY DEF InvalidJumpDestination
<1>2. UNCHANGED <<made, execution_stack>>
      BY <1>1 DEF HandlerRaises, Raise
<1>3. Operand(1) \notin find_jumpdests(code) /\ Len(code) \in Nat
      BY <1>1 DEF IInv, MadeInv
<1>4. ~(/\ Operand(1) \in 0..(Len(code) - 1)
        /\ code[Operand(1) + 1] = OP.JUMPDEST
        /\ IsInstruction(code, Operand(1)))
  <2>1. SUFFICES ASSUME Operand(1) \in 0..(Len(code) - 1),
                        code[Operand(1) + 1] = OP.JUMPDEST,
                        IsInstruction(code, Operand(1))
                 PROVE  FALSE
        OBVIOUS
  <2>2. Operand(1) \in Nat /\ Operand(1) < Len(code)
        BY <1>3, <2>1
  <2>3. Operand(1) \in ReachedFrom(After(code), 0)
        BY <2>1, <2>2, InstructionReached
  <2>. QED BY <1>3, <2>1, <2>2, <2>3, JumpdestsReached
<1>5. code' = code /\ Operand(1)' = Operand(1)
      BY <1>2 DEF made, Operand, Depth
<1>6. RefusedInv'
      BY <1>4, <1>5 DEF RefusedInv
<1>7. "InvalidJumpDestination" \in Exceptions
      BY DEF Exceptions
<1>. QED BY <1>1, <1>6, <1>7, HandlerRaisesKeeps

(* Only a value that is no word is refused by to_bytes.                      *)
LEMMA OverflowErrorKeeps == IInv /\ OverflowError => IInv'
<1>. SUFFICES ASSUME IInv, OverflowError PROVE IInv'
     OBVIOUS
<1>1. Running /\ HandlerRaises("OverflowError")
      BY DEF OverflowError
<1>2. /\ opcode \in {OP.MSTORE, OP.CALL} /\ Depth >= Needs(opcode)
      /\ Operand(2) >= MOD_VALUE
      BY DEF OverflowError, Ready
<1>3. Depth \in Nat /\ Depth >= 2
  <2>1. OP.MSTORE \in Takes2
        BY DEF Takes2
  <2>. QED BY <1>1, <1>2, <2>1, AtWork, Arity
<1>4. Operand(2) \in Cell
      BY <1>1, <1>3, AtWork
<1>5. context.value \notin Word
      BY <1>2, <1>4, WordValues DEF Cell, Word
<1>6. RefusedInv'
      BY <1>1 DEF RefusedInv, HandlerRaises, Raise
<1>7. "OverflowError" \in Exceptions
      BY DEF Exceptions
<1>. QED BY <1>1, <1>5, <1>6, <1>7, HandlerRaisesKeeps

-----------------------------------------------------------------------------
(* The theorems *)

(* A new frame stands on its first instruction, with nothing in memory.      *)
LEMMA IInvInit == Init => IInv
<1>. SUFFICES ASSUME Init PROVE IInv
     OBVIOUS
<1>1. PICK s \in Starts : Make(s.code, s.context, EmptyDict, s.world)
      BY DEF Init
<1>2. MadeInv
  <2>1. code = s.code /\ context = s.context /\ valid_jumpdests = find_jumpdests(code)
        BY <1>1 DEF Make
  <2>2. /\ s.code \in Seq(Byte) /\ s.context.data \in Seq(Byte)
        /\ s.context.caller \in Word /\ s.context.address \in Word
        /\ s.context.value \in Nat /\ s.context.gas \in Word
        /\ Len(s.code) \in Word /\ Len(s.context.data) \in Word
        BY ValuesAssumption
  <2>3. s.context.value \in Word \/ \A i \in 1..Len(s.code) : s.code[i] # OP.NOT
        BY ScopeAssumption
  <2>. QED BY <2>1, <2>2, <2>3 DEF MadeInv
<1>3. StackInv
  <2>1. execution_stack = <<>>
        BY <1>1 DEF Make
  <2>2. MAX_STACK_DEPTH \in Nat
        BY WidthAssumption
  <2>. QED BY <2>1, <2>2 DEF StackInv, Depth
<1>4. StorageInv
  <2>1. storage = EmptyDict
        BY <1>1 DEF Make
  <2>2. DOMAIN storage = {}
        BY <2>1 DEF EmptyDict
  <2>. QED BY <2>2 DEF StorageInv
<1>5. MemoryInv
  <2>1. memory = <<>> /\ touched = 0
        BY <1>1 DEF Make
  <2>2. MaxMemory \in Nat /\ WordBytes \in Nat /\ WordBytes >= 1 /\ 0 % WordBytes = 0
        BY WidthAssumption
  <2>3. <<>> \in Seq(Byte) /\ Len(<<>>) = 0
        OBVIOUS
  <2>. QED BY <2>1, <2>2, <2>3 DEF MemoryInv, Holds
<1>6. PositionInv
  <2>1. program_counter = 0
        BY <1>1 DEF Make
  <2>2. After(code) \in [Nat -> Nat]
        BY AfterType
  <2>3. 0 \in ReachedFrom(After(code), 0)
        BY <2>2, ReachClosed
  <2>4. IsInstruction(code, 0)
        BY <2>3, InstructionReached
  <2>. QED BY <2>1, <2>4 DEF PositionInv
<1>7. GasInv
  <2>1. gas_remaining = context.gas
        BY <1>1 DEF Make
  <2>2. context.gas \in Nat
        BY <1>2, WordValues DEF MadeInv
  <2>. QED BY <2>1, <2>2 DEF GasInv
<1>8. EndInv /\ RefusedInv
  <2>1. stopped = FALSE /\ reverted = FALSE /\ return_data = <<>> /\ raised = NoException
        BY <1>1 DEF Make
  <2>2. stopped \in BOOLEAN /\ reverted \in BOOLEAN
        BY <2>1
  <2>3. return_data \in Seq(Byte)
        BY <2>1
  <2>4. raised \in Exceptions /\ raised # "OverflowError" /\ raised # "InvalidJumpDestination"
        BY <2>1 DEF Exceptions, NoException
  <2>5. EndInv
        BY <2>2, <2>3, <2>4 DEF EndInv
  <2>. QED BY <2>4, <2>5 DEF RefusedInv
<1>. QED BY <1>2, <1>3, <1>4, <1>5, <1>6, <1>7, <1>8 DEF IInv

LEMMA IInvStep == IInv /\ [Next]_evm => IInv'
<1>. SUFFICES ASSUME IInv, [Next]_evm PROVE IInv'
     OBVIOUS
<1>1. CASE UNCHANGED evm
  <2>1. UNCHANGED made
        BY <1>1 DEF evm
  <2>2. MadeInv' /\ StackInv' /\ StorageInv' /\ MemoryInv' /\ PositionInv'
        BY <1>1, <2>1, Kept DEF evm
  <2>3. GasInv' /\ EndInv'
        BY <1>1 DEF evm, made, ended, IInv, GasInv, EndInv
  <2>4. RefusedInv'
    <3>1. RefusedInv /\ UNCHANGED <<code, execution_stack, raised>>
          BY <1>1 DEF evm, made, ended, IInv
    <3>2. Operand(1)' = Operand(1)
          BY <3>1 DEF Operand, Depth
    <3>. QED BY <3>1, <3>2 DEF RefusedInv
  <2>. QED BY <2>2, <2>3, <2>4 DEF IInv
<1>2. CASE Finished
      BY <1>1, <1>2 DEF Finished
<1>3. CASE Step
  <2>1. CASE Arithmetic \/ Unary \/ Environment \/ Sizes \/ op_gas \/ op_calldataload \/ Copy
             \/ op_pop \/ op_push \/ op_dup \/ op_swap
        BY <2>1, ArithmeticKeeps, UnaryKeeps, EnvironmentKeeps, SizesKeeps, GasKeeps,
           CallDataLoadKeeps, CopyKeeps, PopKeeps, PushKeeps, DupKeeps, SwapKeeps
  <2>2. CASE op_mload \/ op_sha3 \/ MemoryWrite \/ op_sload \/ op_sstore \/ op_jump \/ op_jumpdest
             \/ op_stop \/ Answer \/ Invalid
        BY <2>2, MloadKeeps, Sha3Keeps, MemoryWriteKeeps, SloadKeeps, SstoreKeeps, JumpKeeps,
           JumpdestKeeps, StopKeeps, AnswerKeeps, InvalidKeeps
  <2>3. CASE Unanswered \/ op_create \/ CallRunsNothing \/ CallFails \/ CallSucceeds
        BY <2>3, UnansweredKeeps, CreateKeeps, CallRunsNothingKeeps, CallFailsKeeps,
           CallSucceedsKeeps
  <2>4. CASE InvalidOpcode \/ OutOfGas \/ StackUnderflow \/ StackOverflow
             \/ InvalidJumpDestination \/ MemoryError \/ OverflowError \/ CalleeRaises
        BY <2>4, ExceptionsKeep, InvalidJumpDestinationKeeps, OverflowErrorKeeps
  <2>. QED BY <1>3, <2>1, <2>2, <2>3, <2>4 DEF Step
<1>. QED BY <1>1, <1>2, <1>3 DEF Next

THEOREM IInvHolds == Spec => []IInv
<1>. QED BY IInvInit, IInvStep, PTL DEF Spec

(* The stack never outgrows its limit, gas is never overdrawn and execute()  *)
(* ends as it may, for every program.                                        *)
THEOREM TypeCorrect == Spec => []TypeOK
<1>1. IInv => TypeOK
  <2>. SUFFICES ASSUME IInv PROVE TypeOK
       OBVIOUS
  <2>1. Cell \subseteq Int
        BY CellKind, CellValues
  <2>2. execution_stack \in Seq(Int) /\ Depth <= MAX_STACK_DEPTH
    <3>. DEFINE C == Cell
                s == execution_stack
    <3>1. s \in Seq(C) /\ C \subseteq Int /\ Depth <= MAX_STACK_DEPTH
          BY <2>1 DEF IInv, StackInv
    <3>. HIDE DEF C, s
    <3>2. s \in Seq(Int)
          BY <3>1, SeqMonotonic
    <3>. QED BY <3>1, <3>2 DEF s
  <2>3. \A k \in DOMAIN storage : k \in Int /\ storage[k] \in Int
        BY <2>1 DEF IInv, StorageInv
  <2>4. memory \in Seq(Byte) /\ touched \in Nat
        BY DEF IInv, MemoryInv, Holds
  <2>5. program_counter \in Nat /\ gas_remaining \in 0..context.gas
        BY DEF IInv, PositionInv, GasInv
  <2>6. /\ stopped \in BOOLEAN /\ reverted \in BOOLEAN
        /\ return_data \in Seq(Byte) /\ raised \in Exceptions
        BY DEF IInv, EndInv
  <2>. QED BY <2>2, <2>3, <2>4, <2>5, <2>6 DEF TypeOK, Exceptions
<1>. QED BY <1>1, IInvHolds, PTL

(* No jump leads into push data, and every JUMPDEST outside push data can be *)
(* jumped to, in every program (_find_jumpdests and op_jump of evm/vm.py).   *)
THEOREM JumpsAreChecked == Spec => []OnInstructions
<1>1. IInv => OnInstructions
      BY DEF IInv, PositionInv, RefusedInv, OnInstructions
<1>. QED BY <1>1, IInvHolds, PTL

(* Whatever a program computes from words is words, at every width: only a   *)
(* value that is no word makes to_bytes refuse one (the handlers of          *)
(* evm/vm.py).                                                               *)
THEOREM WordsStayWords == Spec => []WordsInRange
<1>1. IInv => WordsInRange
  <2>. SUFFICES ASSUME IInv, context.value < MOD_VALUE PROVE WordsInRange
       BY DEF WordsInRange
  <2>1. context.value \in Word
        BY WordValues DEF IInv, MadeInv, Word
  <2>2. execution_stack \in Seq(Word)
        BY <2>1 DEF IInv, StackInv, Cell
  <2>3. \A i \in 1..Depth : execution_stack[i] \in Word
        BY <2>2, ElementOfSeq DEF Depth
  <2>4. \A k \in DOMAIN storage : k \in Word /\ storage[k] \in Word
        BY <2>1 DEF IInv, StorageInv, Cell
  <2>5. raised # "OverflowError"
        BY <2>1 DEF IInv, EndInv
  <2>. QED BY <2>3, <2>4, <2>5 DEF WordsInRange
<1>. QED BY <1>1, IInvHolds, PTL

(* Memory is as many whole words as the highest access asked for, after any  *)
(* accesses in any order (_expand_to of evm/memory.py).                      *)
THEOREM MemoryIsTight == Spec => []MemoryFits
<1>1. IInv => MemoryFits
  <2>. SUFFICES ASSUME IInv PROVE MemoryFits
       OBVIOUS
  <2>1. /\ Len(memory) \in Nat /\ touched \in Nat /\ touched <= MaxMemory
        /\ Len(memory) % WordBytes = 0
        /\ touched <= Len(memory) /\ Len(memory) < touched + WordBytes
        BY DEF IInv, MemoryInv, Holds
  <2>2. MaxMemory \in Nat /\ WordBytes \in Nat
        BY WidthAssumption
  <2>3. Len(memory) < MaxMemory + WordBytes
        BY <2>1, <2>2
  <2>. QED BY <2>1, <2>3 DEF MemoryFits
<1>. QED BY <1>1, IInvHolds, PTL

-----------------------------------------------------------------------------
(* What a step costs *)

Free == {OP.STOP, OP.RETURN, OP.REVERT, OP.INVALID}

Paid ==
    /\ Halted' \/ gas_remaining' < gas_remaining
    /\ storage' # storage =>
          /\ gas_remaining' = gas_remaining - GAS_SSTORE
          /\ \E key \in DOMAIN storage' :
                /\ DOMAIN storage' = DOMAIN storage \cup {key}
                /\ \A k \in DOMAIN storage \ {key} : storage'[k] = storage[k]

LEMMA NoneFree ==
    /\ Takes1 \cap Free = {} /\ Takes3 \cap Free = {} /\ Binary \cap Free = {}
    /\ Pushes0 \cap Free = {} /\ PUSH \cap Free = {} /\ DUP \cap Free = {} /\ SWAP \cap Free = {}
    /\ {OP.SHA3, OP.MSTORE, OP.MSTORE8, OP.SSTORE, OP.JUMPI, OP.JUMPDEST, OP.CALL} \cap Free = {}
<1>1. Free = {0, 243, 253, 254}
      BY Opcodes DEF Free
<1>2. Takes1 \cap Free = {} /\ Takes3 \cap Free = {} /\ Pushes0 \cap Free = {}
      BY <1>1, Opcodes DEF Takes1, Takes3, Pushes0
<1>3. Binary \cap Free = {}
      BY <1>1, Opcodes DEF Binary
<1>4. PUSH \cap Free = {} /\ DUP \cap Free = {} /\ SWAP \cap Free = {}
  <2>1. \A op \in PUSH : op \in Nat /\ op >= 96 /\ op <= 127
        BY WidthAssumption, Opcodes DEF PUSH
  <2>. QED BY <1>1, <2>1, Opcodes DEF DUP, SWAP
<1>5. {OP.SHA3, OP.MSTORE, OP.MSTORE8, OP.SSTORE, OP.JUMPI, OP.JUMPDEST, OP.CALL} \cap Free = {}
      BY <1>1, Opcodes
<1>. QED BY <1>2, <1>3, <1>4, <1>5

(* What an opcode costs is paid, and nothing less.                           *)
LEMMA Charged ==
    ASSUME IInv, NEW ops, Executes(ops), ops \cap Free = {},
           NEW more \in Nat, Spend(cost + more), UNCHANGED storage
    PROVE  Paid
<1>1. cost \in Nat /\ gas_remaining \in Nat /\ opcode \notin Free
      BY Operands
<1>2. cost >= 1
      BY <1>1, Costs DEF cost, GAS_COSTS, Free
<1>3. gas_remaining' < gas_remaining
      BY <1>1, <1>2 DEF Spend
<1>. QED BY <1>3 DEF Paid

LEMMA ChargedCost ==
    ASSUME IInv, NEW ops, Executes(ops), ops \cap Free = {}, Spend(cost), UNCHANGED storage
    PROVE  Paid
<1>1. cost \in Nat
      BY Operands
<1>2. cost = cost + 0
      BY <1>1
<1>3. Spend(cost + 0)
      BY <1>2
<1>. QED BY <1>3, Charged

LEMMA PlainPaid ==
    IInv /\ (Arithmetic \/ Unary \/ Environment \/ Sizes \/ op_gas \/ op_calldataload \/ Copy
                \/ op_pop \/ op_push \/ op_dup \/ op_swap) => Paid
<1>. SUFFICES ASSUME IInv PROVE Arithmetic \/ Unary \/ Environment \/ Sizes \/ op_gas
                                    \/ op_calldataload \/ Copy
                                    \/ op_pop \/ op_push \/ op_dup \/ op_swap => Paid
     OBVIOUS
<1>1. ASSUME NEW ops, Executes(ops), Spend(cost), UNCHANGED Data, ops \cap Free = {} PROVE Paid
      BY <1>1, ChargedCost DEF Data
<1>2. /\ Arithmetic => Executes(Binary) /\ Spend(cost) /\ UNCHANGED Data
      /\ Environment => Executes(Pushes0) /\ Spend(cost) /\ UNCHANGED Data
      /\ Sizes => Executes(Pushes0) /\ Spend(cost) /\ UNCHANGED Data
      /\ op_push => Executes(PUSH) /\ Spend(cost) /\ UNCHANGED Data
      /\ op_dup => Executes(DUP) /\ Spend(cost) /\ UNCHANGED Data
      /\ op_swap => Executes(SWAP) /\ Spend(cost) /\ UNCHANGED Data
      BY DEF Arithmetic, Environment, Sizes, op_push, op_dup, op_swap
<1>3. Arithmetic \/ Environment \/ Sizes \/ op_push \/ op_dup \/ op_swap => Paid
      BY <1>1, <1>2, NoneFree
<1>4. Unary => Paid
  <2>. DEFINE ops == {OP.ISZERO, OP.NOT}
  <2>1. ops \cap Free = {}
        BY NoneFree DEF Takes1
  <2>2. Unary => Executes(ops) /\ Spend(cost) /\ UNCHANGED Data
        BY DEF Unary
  <2>. HIDE DEF ops
  <2>. QED BY <1>1, <2>1, <2>2
<1>5. op_gas => Paid
  <2>. DEFINE ops == {OP.GAS}
  <2>1. ops \cap Free = {}
        BY NoneFree DEF Pushes0
  <2>2. op_gas => Executes(ops) /\ Spend(cost) /\ UNCHANGED Data
        BY DEF op_gas
  <2>. HIDE DEF ops
  <2>. QED BY <1>1, <2>1, <2>2
<1>6. op_calldataload => Paid
  <2>. DEFINE ops == {OP.CALLDATALOAD}
  <2>1. ops \cap Free = {}
        BY NoneFree DEF Takes1
  <2>2. op_calldataload => Executes(ops) /\ Spend(cost) /\ UNCHANGED Data
        BY DEF op_calldataload
  <2>. HIDE DEF ops
  <2>. QED BY <1>1, <2>1, <2>2
<1>7. op_pop => Paid
  <2>. DEFINE ops == {OP.POP}
  <2>1. ops \cap Free = {}
        BY NoneFree DEF Takes1
  <2>2. op_pop => Executes(ops) /\ Spend(cost) /\ UNCHANGED Data
        BY DEF op_pop
  <2>. HIDE DEF ops
  <2>. QED BY <1>1, <2>1, <2>2
<1>8. Copy => Paid
  <2>. DEFINE ops == {OP.CALLDATACOPY, OP.CODECOPY}
  <2>1. ops \cap Free = {}
        BY NoneFree DEF Takes3
  <2>2. Copy => Executes(ops) /\ Spend(cost) /\ UNCHANGED storage
        BY DEF Copy
  <2>. HIDE DEF ops
  <2>. QED BY <2>1, <2>2, ChargedCost
<1>. QED BY <1>3, <1>4, <1>5, <1>6, <1>7, <1>8

LEMMA AccessPaid ==
    IInv /\ (op_mload \/ op_sha3 \/ MemoryWrite \/ op_sload \/ op_jump \/ op_jumpdest
                \/ Unanswered) => Paid
<1>. SUFFICES ASSUME IInv PROVE op_mload \/ op_sha3 \/ MemoryWrite \/ op_sload \/ op_jump
                                    \/ op_jumpdest \/ Unanswered => Paid
     OBVIOUS
<1>1. ASSUME NEW ops, Executes(ops), Spend(cost), UNCHANGED storage, ops \cap Free = {} PROVE Paid
      BY <1>1, ChargedCost
<1>2. op_mload => Paid
  <2>. DEFINE ops == {OP.MLOAD}
  <2>1. ops \cap Free = {}
        BY NoneFree DEF Takes1
  <2>2. op_mload => Executes(ops) /\ Spend(cost) /\ UNCHANGED storage
        BY DEF op_mload
  <2>. HIDE DEF ops
  <2>. QED BY <1>1, <2>1, <2>2
<1>3. op_sha3 => Paid
  <2>. DEFINE ops == {OP.SHA3}
  <2>1. ops \cap Free = {}
        BY NoneFree
  <2>2. op_sha3 => Executes(ops) /\ Spend(cost) /\ UNCHANGED storage
        BY DEF op_sha3
  <2>. HIDE DEF ops
  <2>. QED BY <1>1, <2>1, <2>2
<1>4. MemoryWrite => Paid
  <2>. DEFINE ops == {OP.MSTORE, OP.MSTORE8}
  <2>1. ops \cap Free = {}
        BY NoneFree
  <2>2. MemoryWrite => Executes(ops) /\ Spend(cost) /\ UNCHANGED storage
        BY DEF MemoryWrite
  <2>. HIDE DEF ops
  <2>. QED BY <1>1, <2>1, <2>2
<1>5. op_sload => Paid
  <2>. DEFINE ops == {OP.SLOAD}
  <2>1. ops \cap Free = {}
        BY NoneFree DEF Takes1
  <2>2. op_sload => Executes(ops) /\ Spend(cost) /\ UNCHANGED storage
        BY DEF op_sload, Data
  <2>. HIDE DEF ops
  <2>. QED BY <1>1, <2>1, <2>2
<1>6. op_jump => Paid
  <2>. DEFINE ops == {OP.JUMP, OP.JUMPI}
  <2>1. ops \cap Free = {}
        BY NoneFree DEF Takes1
  <2>2. op_jump => Executes(ops) /\ Spend(cost) /\ UNCHANGED storage
        BY DEF op_jump, Data
  <2>. HIDE DEF ops
  <2>. QED BY <1>1, <2>1, <2>2
<1>7. op_jumpdest => Paid
  <2>. DEFINE ops == {OP.JUMPDEST}
  <2>1. ops \cap Free = {}
        BY NoneFree
  <2>2. op_jumpdest => Executes(ops) /\ Spend(cost) /\ UNCHANGED storage
        BY DEF op_jumpdest, Data
  <2>. HIDE DEF ops
  <2>. QED BY <1>1, <2>1, <2>2
<1>8. Unanswered => Paid
  <2>. DEFINE ops == {OP.CREATE, OP.CALL}
  <2>1. ops \cap Free = {}
        BY NoneFree DEF Takes3
  <2>2. Unanswered => Executes(ops) /\ Spend(cost) /\ UNCHANGED storage
        BY DEF Unanswered, Data
  <2>. HIDE DEF ops
  <2>. QED BY <1>1, <2>1, <2>2
<1>. QED BY <1>2, <1>3, <1>4, <1>5, <1>6, <1>7, <1>8

(* SSTORE writes one slot, for its price.                                    *)
LEMMA SstorePaid == IInv /\ op_sstore => Paid
<1>. SUFFICES ASSUME IInv, op_sstore PROVE Paid
     OBVIOUS
<1>1. opcode = OP.SSTORE /\ gas_remaining \in Nat
  <2>. DEFINE ops == {OP.SSTORE}
  <2>1. Executes(ops)
        BY DEF op_sstore
  <2>2. opcode \in ops /\ gas_remaining \in Nat
    <3>. HIDE DEF ops
    <3>. QED BY <2>1, Operands
  <2>. QED BY <2>2
<1>2. cost = GAS_SSTORE
      BY <1>1, Costs DEF cost, GAS_COSTS
<1>3. gas_remaining' = gas_remaining - GAS_SSTORE
      BY <1>2 DEF op_sstore, Spend
<1>4. gas_remaining' < gas_remaining
      BY <1>1, <1>3 DEF GAS_SSTORE
<1>5. DOMAIN storage' = DOMAIN storage \cup {Operand(1)}
      BY DEF op_sstore
<1>6. \A k \in DOMAIN storage \ {Operand(1)} : storage'[k] = storage[k]
      BY DEF op_sstore
<1>7. Operand(1) \in DOMAIN storage'
      BY <1>5
<1>. QED BY <1>3, <1>4, <1>5, <1>6, <1>7 DEF Paid

(* CREATE and CALL cost what they cost and what the nested frame used.       *)
LEMMA NestedPaid ==
    IInv /\ (op_create \/ CallRunsNothing \/ CallFails \/ CallSucceeds) => Paid
<1>. SUFFICES ASSUME IInv PROVE op_create \/ CallRunsNothing \/ CallFails \/ CallSucceeds => Paid
     OBVIOUS
<1>1. GasUsed \subseteq Nat
      BY WidthAssumption
<1>2. op_create => Paid
  <2>. SUFFICES ASSUME op_create PROVE Paid
       OBVIOUS
  <2>. DEFINE ops == {OP.CREATE}
  <2>1. ops \cap Free = {}
        BY NoneFree DEF Takes3
  <2>2. Executes(ops) /\ UNCHANGED storage
        BY DEF op_create
  <2>. HIDE DEF ops
  <2>3. Spend(cost) \/ \E used \in GasUsed : Spend(cost + used)
        BY DEF op_create
  <2>. QED BY <1>1, <2>1, <2>2, <2>3, Charged, ChargedCost
<1>. DEFINE ops == {OP.CALL}
<1>3. ops \cap Free = {}
      BY NoneFree
<1>4. Calls => Executes(ops)
      BY DEF Calls
<1>. HIDE DEF ops
<1>5. CallRunsNothing => Paid
      BY <1>3, <1>4, ChargedCost DEF CallRunsNothing
<1>6. CallFails => Paid
  <2>. SUFFICES ASSUME CallFails PROVE Paid
       OBVIOUS
  <2>1. Calls /\ Spend(cost + Forwarded) /\ UNCHANGED storage
        BY DEF CallFails
  <2>2. Forwarded \in Nat
        BY <2>1, CallOperands
  <2>. QED BY <1>3, <1>4, <2>1, <2>2, Charged
<1>7. CallSucceeds => Paid
  <2>. SUFFICES ASSUME CallSucceeds PROVE Paid
       OBVIOUS
  <2>1. Calls /\ UNCHANGED storage
        BY DEF CallSucceeds
  <2>2. PICK used \in GasUsed : Spend(cost + used)
        BY DEF CallSucceeds
  <2>. QED BY <1>1, <1>3, <1>4, <2>1, <2>2, Charged
<1>. QED BY <1>2, <1>5, <1>6, <1>7

(* The rest ends the frame.                                                  *)
LEMMA EndPaid ==
    IInv /\ (op_stop \/ Answer \/ Invalid \/ InvalidOpcode \/ OutOfGas
                \/ StackUnderflow \/ StackOverflow \/ InvalidJumpDestination \/ MemoryError
                \/ OverflowError \/ CalleeRaises) => Paid
<1>. SUFFICES ASSUME op_stop \/ Answer \/ Invalid \/ InvalidOpcode \/ OutOfGas
                        \/ StackUnderflow \/ StackOverflow \/ InvalidJumpDestination \/ MemoryError
                        \/ OverflowError \/ CalleeRaises
              PROVE  Paid
     OBVIOUS
<1>1. CASE op_stop \/ Answer \/ Invalid
  <2>1. stopped' = TRUE /\ UNCHANGED storage
        BY <1>1 DEF op_stop, Answer, Invalid, Data
  <2>. QED BY <2>1 DEF Paid, Halted, Running
<1>2. CASE ~(op_stop \/ Answer \/ Invalid)
  <2>1. \E exception \in Exceptions \ {NoException} : Raise(exception)
        BY <1>2 DEF InvalidOpcode, OutOfGas, StackUnderflow, StackOverflow,
           InvalidJumpDestination, MemoryError, OverflowError, CalleeRaises,
           HandlerRaises, Exceptions, NoException
  <2>2. raised' # NoException /\ UNCHANGED storage
        BY <2>1 DEF Raise, Data
  <2>. QED BY <2>2 DEF Paid, Halted, Running
<1>. QED BY <1>1, <1>2

(* Every step that does not end the frame costs gas, and storage changes one *)
(* slot at a time for the price of SSTORE, whatever the program (GAS_COSTS   *)
(* of evm/gas.py and the loop of evm/vm.py).                                 *)
THEOREM EveryStepIsMetered == Spec => Metered
<1>1. IInv /\ [Next]_evm => [Paid]_evm
  <2>. SUFFICES ASSUME IInv, Next PROVE Paid \/ UNCHANGED evm
       OBVIOUS
  <2>1. CASE Finished
        BY <2>1 DEF Finished
  <2>2. CASE Step
        BY <2>2, PlainPaid, AccessPaid, SstorePaid, NestedPaid, EndPaid DEF Step
  <2>. QED BY <2>1, <2>2 DEF Next
<1>2. [Paid]_evm
        => [ /\ Halted' \/ gas_remaining' < gas_remaining
             /\ storage' # storage =>
                   /\ gas_remaining' = gas_remaining - GAS_SSTORE
                   /\ \E key \in DOMAIN storage' :
                         /\ DOMAIN storage' = DOMAIN storage \cup {key}
                         /\ \A k \in DOMAIN storage \ {key} : storage'[k] = storage[k] ]_evm
      BY DEF Paid
<1>. QED BY <1>1, <1>2, IInvHolds, PTL DEF Spec, Metered

=============================================================================
