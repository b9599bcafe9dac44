---------------------------- MODULE MulDivProofs ----------------------------
(***************************************************************************)
(* Proofs about MulDiv, for registers of any width.                        *)
(***************************************************************************)
EXTENDS MulDiv, SequenceTheorems, WellFoundedInduction, TLAPS

(***************************************************************************)
(* Arithmetic.                                                             *)
(***************************************************************************)

\* A number that does not wrap, that wraps once, and one below zero.
LEMMA Wraps ==
  ASSUME NEW m \in Nat, NEW x \in Int
  PROVE  /\ 0 <= x /\ x < m => (x % m) = x
         /\ m <= x /\ x < 2 * m => (x % m) = x - m
         /\ -m <= x /\ x < 0 => (x % m) = x + m
OBVIOUS

\* A number is divided with remainder in one way.
LEMMA OneDivision ==
  ASSUME NEW p \in Nat, NEW q \in Int, NEW r \in Nat, r < p,
         NEW s \in Int, NEW t \in Nat, t < p, p * q + r = p * s + t
  PROVE  q = s /\ r = t
<1>1. ~(q < s)
  <2> SUFFICES ASSUME q < s PROVE FALSE
    OBVIOUS
  <2>1. p * (q + 1) <= p * s
    OBVIOUS
  <2> QED BY <2>1
<1>2. ~(s < q)
  <2> SUFFICES ASSUME s < q PROVE FALSE
    OBVIOUS
  <2>1. p * (s + 1) <= p * q
    OBVIOUS
  <2> QED BY <2>1
<1> QED BY <1>1, <1>2

\* The operators of division find it.
LEMMA Division ==
  ASSUME NEW p \in Nat, NEW q \in Int, NEW r \in Nat, r < p, NEW m \in Int, m = p * q + r
  PROVE  m \div p = q /\ m % p = r
<1> DEFINE d == m \div p
           e == m % p
<1>1. d \in Int /\ e \in Nat /\ e < p /\ m = p * d + e
  BY SMTT(30)
<1> HIDE DEF d, e
<1>2. p * q + r = p * d + e
  BY <1>1
<1>3. q = d /\ r = e
  BY <1>1, <1>2, OneDivision
<1> QED BY <1>3 DEF d, e

\* Quotient and remainder of a division.
LEMMA Divided ==
  ASSUME NEW p \in Nat, p >= 1, NEW m \in Int
  PROVE  /\ m \div p \in Int /\ m % p \in Nat /\ m % p < p
         /\ m = p * (m \div p) + (m % p)
         /\ m >= 0 => m \div p \in Nat
<1> DEFINE d == m \div p
           e == m % p
<1>1. d \in Int /\ e \in Nat /\ e < p /\ m = p * d + e
  BY SMTT(30)
<1>2. m >= 0 => d \in Nat
  <2> HIDE DEF d, e
  <2> SUFFICES ASSUME m >= 0, d <= -1 PROVE FALSE
    BY <1>1
  <2>1. p * d <= p * (-1)
    BY <1>1
  <2> QED BY <1>1, <2>1
<1> QED BY <1>1, <1>2

\* Multiples of the modulus do not count.
LEMMA Congruent ==
  ASSUME NEW p \in Nat, p >= 1, NEW m \in Int, NEW k \in Int
  PROVE  (m + p * k) % p = m % p
<1> DEFINE d == m \div p
           e == m % p
<1>1. d \in Int /\ e \in Nat /\ e < p /\ m = p * d + e
  BY Divided
<1> HIDE DEF d, e
<1>2. m + p * k = p * (d + k) + e /\ d + k \in Int /\ m + p * k \in Int
  BY <1>1
<1>3. (m + p * k) % p = e
  BY <1>1, <1>2, Division
<1> QED BY <1>3 DEF e

\* Powers of two grow with their exponents.
LEMMA PowerSum ==
  ASSUME PowersOfTwo, XLEN \in Nat, NEW k \in 0..(2 * XLEN)
  PROVE  \A n \in 0..(2 * XLEN - k) : 2^(k + n) = 2^k * 2^n
<1> DEFINE T == {n \in 0..(2 * XLEN - k) : 2^(k + n) # 2^k * 2^n}
<1> SUFFICES ASSUME T # {} PROVE FALSE
  OBVIOUS
<1>1. k \in Nat
  OBVIOUS
<1>2. PICK x \in T : \A y \in T : ~(<<y, x>> \in OpToRel(<, Nat))
  <2>1. T \in SUBSET Nat
    BY <1>1
  <2>2. IsWellFoundedOn(OpToRel(<, Nat), Nat)
    BY NatLessThanWellFounded
  <2> HIDE DEF T
  <2> QED BY <2>1, <2>2, WFMin
<1>3. x \in 0..(2 * XLEN - k) /\ 2^(k + x) # 2^k * 2^x
  OBVIOUS
<1>4. x # 0
  <2> SUFFICES ASSUME x = 0 PROVE FALSE
    OBVIOUS
  <2>1. k + x = k /\ 2^x = 1 /\ 2^k \in Nat
    BY <1>1 DEF PowersOfTwo
  <2> QED BY <1>3, <2>1
<1> DEFINE y == x - 1
<1>5. y \in 0..(2 * XLEN - k) /\ y \in 0..(2 * XLEN) /\ k + y \in 0..(2 * XLEN)
  BY <1>1, <1>3, <1>4
<1>6. y + 1 = x /\ (k + y) + 1 = k + x
  BY <1>1, <1>3
<1>7. y \notin T
  <2>1. <<y, x>> \in OpToRel(<, Nat)
    BY <1>3, <1>5 DEF OpToRel
  <2> HIDE DEF T, y
  <2> QED BY <1>2, <2>1
<1> HIDE DEF y
<1>8. 2^(k + y) = 2^k * 2^y
  BY <1>5, <1>7
<1> HIDE DEF T
<1>9. 2^(k + x) = 2 * 2^(k + y) /\ 2^x = 2 * 2^y
  BY <1>5, <1>6 DEF PowersOfTwo
<1>10. 2^k \in Nat /\ 2^y \in Nat
  BY <1>5 DEF PowersOfTwo
<1> QED
  <2> DEFINE u == 2^k
             v == 2^y
  <2>1. 2 * (u * v) = u * (2 * v)
    BY <1>10
  <2> QED BY <1>3, <1>8, <1>9, <2>1

(***************************************************************************)
(* Words and numbers.                                                      *)
(***************************************************************************)

\* The lengths a number has.
Lengths == {1, 2}

\* Numbers of L words lie below this.
Span(L) == IF L = 1 THEN W ELSE W * W

\* A word has a top bit.
LEMMA Words ==
  ASSUME MulDivAssumption
  PROVE  /\ HalfW \in Nat /\ HalfW >= 1 /\ W \in Nat /\ W = 2 * HalfW
         /\ W = 2^XLEN
<1>1. XLEN - 1 \in 0..(2 * XLEN) /\ (XLEN - 1) + 1 = XLEN
  BY DEF MulDivAssumption
<1>2. 2^(XLEN - 1) \in Nat \ {0} /\ 2^((XLEN - 1) + 1) = 2 * 2^(XLEN - 1)
  BY <1>1 DEF MulDivAssumption, PowersOfTwo
<1> QED BY <1>1, <1>2 DEF W, HalfW

\* A number of one word is that word, one of two words two words.
LEMMA Parts ==
  ASSUME NEW L \in Lengths, NEW n \in Numbers(L), W \in Nat
  PROVE  /\ Len(n) = L /\ DOMAIN n = 1..L /\ n[1] \in 0..W-1
         /\ L = 2 => n[2] \in 0..W-1
         /\ L = 1 => n = <<n[1]>>
         /\ L = 2 => n = <<n[1], n[2]>>
         /\ Size(n) = Span(L)
<1>1. n \in Seq(0..W-1) /\ Len(n) = L /\ DOMAIN n = 1..L
  <2>1. L \in Nat
    BY DEF Lengths
  <2> QED BY <2>1 DEF Numbers
<1>2. n[1] \in 0..W-1 /\ (L = 2 => n[2] \in 0..W-1)
  BY DEF Lengths, Numbers
<1>3. L = 1 => n = <<n[1]>>
  BY <1>1
<1>4. L = 2 => n = <<n[1], n[2]>>
  BY <1>1
<1> QED BY <1>1, <1>2, <1>3, <1>4 DEF Size, Span

\* Tuples of words are numbers.
LEMMA Tuples ==
  ASSUME W \in Nat, NEW u \in 0..W-1, NEW v \in 0..W-1
  PROVE  /\ <<u>> \in Numbers(1)
         /\ <<u, v>> \in Numbers(2)
  BY DEF Numbers

\* The value of a number, and its bounds.
LEMMA UnsignedValue ==
  ASSUME MulDivAssumption, NEW L \in Lengths, NEW n \in Numbers(L)
  PROVE  /\ Unsigned(n) = IF L = 1 THEN n[1] ELSE n[1] + W * n[2]
         /\ Unsigned(n) \in Nat /\ Unsigned(n) < Span(L)
         /\ Span(L) \in Nat /\ Span(L) >= 2
<1>1. W \in Nat /\ W >= 2
  BY Words
<1> HIDE DEF W
<1>2. /\ Len(n) = L /\ n[1] \in 0..W-1 /\ (L = 2 => n[2] \in 0..W-1)
      /\ Unsigned(n) = IF L = 1 THEN n[1] ELSE n[1] + W * n[2]
  BY <1>1, Parts DEF Unsigned
<1>3. CASE L = 1
  BY <1>1, <1>2, <1>3 DEF Span
<1>4. CASE L = 2
  <2>1. PICK u \in 0..W-1, v \in 0..W-1 : u = n[1] /\ v = n[2]
    BY <1>2, <1>4
  <2>2. W * v \in Nat /\ W * v <= W * (W - 1) /\ W * (W - 1) = W * W - W
    BY <1>1
  <2>3. W * W \in Nat /\ W * W >= 2
    BY <1>1
  <2>4. Unsigned(n) = u + W * v /\ Span(L) = W * W
    BY <1>2, <1>4, <2>1 DEF Span
  <2> QED BY <1>1, <1>2, <2>2, <2>3, <2>4
<1> QED BY <1>3, <1>4 DEF Lengths

\* Comparing words, high ones first, compares the numbers.
LEMMA BelowIsLess ==
  ASSUME MulDivAssumption, NEW L \in Lengths,
         NEW m \in Numbers(L), NEW n \in Numbers(L)
  PROVE  Below(m, n) <=> Unsigned(m) < Unsigned(n)
<1>1. W \in Nat /\ W >= 2
  BY Words
<1> HIDE DEF W
<1>2. /\ Len(m) = L /\ m[1] \in 0..W-1 /\ (L = 2 => m[2] \in 0..W-1)
      /\ Unsigned(m) = IF L = 1 THEN m[1] ELSE m[1] + W * m[2]
  BY <1>1, Parts, UnsignedValue
<1>3. /\ n[1] \in 0..W-1 /\ (L = 2 => n[2] \in 0..W-1)
      /\ Unsigned(n) = IF L = 1 THEN n[1] ELSE n[1] + W * n[2]
  BY <1>1, Parts, UnsignedValue
<1>4. CASE L = 1
  BY <1>2, <1>3, <1>4 DEF Below
<1>5. CASE L = 2
  <2>1. PICK u \in 0..W-1, v \in 0..W-1 : u = m[1] /\ v = m[2]
    BY <1>2, <1>5
  <2>2. PICK x \in 0..W-1, y \in 0..W-1 : x = n[1] /\ y = n[2]
    BY <1>3, <1>5
  <2>3. Below(m, n) <=> v < y \/ (v = y /\ u < x)
    BY <1>2, <1>5, <2>1, <2>2 DEF Below
  <2>4. v < y => u + W * v < x + W * y
    <3> SUFFICES ASSUME v < y PROVE u + W * v < x + W * y
      OBVIOUS
    <3>1. W * (v + 1) <= W * y
      BY <1>1
    <3> QED BY <1>1, <3>1
  <2>5. y < v => x + W * y < u + W * v
    <3> SUFFICES ASSUME y < v PROVE x + W * y < u + W * v
      OBVIOUS
    <3>1. W * (y + 1) <= W * v
      BY <1>1
    <3> QED BY <1>1, <3>1
  <2>6. v = y => (u + W * v < x + W * y <=> u < x)
    BY <1>1
  <2>7. Unsigned(m) = u + W * v /\ Unsigned(n) = x + W * y
    BY <1>2, <1>3, <1>5, <2>1, <2>2
  <2>8. W * v \in Nat /\ W * y \in Nat
    BY <1>1
  <2> QED BY <2>3, <2>4, <2>5, <2>6, <2>7, <2>8
<1> QED BY <1>4, <1>5 DEF Lengths

\* A number is zero iff its words are; it is negative in its upper half.
LEMMA ZeroAndNegative ==
  ASSUME MulDivAssumption, NEW L \in Lengths, NEW n \in Numbers(L)
  PROVE  /\ IsZero(n) <=> Unsigned(n) = 0
         /\ Negative(n) <=> 2 * Unsigned(n) >= Span(L)
<1>1. W \in Nat /\ W >= 2 /\ HalfW \in Nat /\ W = 2 * HalfW
  BY Words
<1> HIDE DEF W, HalfW
<1>2. /\ Len(n) = L /\ DOMAIN n = 1..L /\ n[1] \in 0..W-1
      /\ (L = 2 => n[2] \in 0..W-1)
      /\ Unsigned(n) = IF L = 1 THEN n[1] ELSE n[1] + W * n[2]
  BY <1>1, Parts, UnsignedValue
<1>3. CASE L = 1
  BY <1>1, <1>2, <1>3 DEF IsZero, Negative, Span
<1>4. CASE L = 2
  <2>1. PICK u \in 0..W-1, v \in 0..W-1 : u = n[1] /\ v = n[2]
    BY <1>2, <1>4
  <2>2. Unsigned(n) = u + W * v /\ Span(L) = W * W
    BY <1>2, <1>4, <2>1 DEF Span
  <2>3. (IsZero(n) <=> u = 0 /\ v = 0) /\ (Negative(n) <=> v >= HalfW)
    BY <1>2, <1>4, <2>1 DEF IsZero, Negative
  <2>4. v >= 1 => W * v >= W
    BY <1>1
  <2>5. v >= HalfW => 2 * (W * v) >= W * W
    <3> SUFFICES ASSUME v >= HalfW PROVE 2 * (W * v) >= W * W
      OBVIOUS
    <3>1. W * (2 * v) >= W * W
      BY <1>1
    <3> QED BY <1>1, <3>1
  <2>6. v < HalfW => 2 * (u + W * v) < W * W
    <3> SUFFICES ASSUME v < HalfW PROVE 2 * (u + W * v) < W * W
      OBVIOUS
    <3>1. W * (2 * v + 2) <= W * W
      BY <1>1
    <3> QED BY <1>1, <3>1
  <2>7. W * v \in Nat /\ (v = 0 => W * v = 0)
    BY <1>1
  <2> QED BY <1>1, <2>2, <2>3, <2>4, <2>5, <2>6, <2>7
<1> QED BY <1>3, <1>4 DEF Lengths

(***************************************************************************)
(* What the operations on numbers compute.                                 *)
(***************************************************************************)

\* A difference that does not fall below zero, with the borrow between words.
LEMMA Difference ==
  ASSUME MulDivAssumption, NEW L \in Lengths,
         NEW m \in Numbers(L), NEW n \in Numbers(L), ~Below(m, n)
  PROVE  Minus(m, n) \in Numbers(L) /\ Unsigned(Minus(m, n)) = Unsigned(m) - Unsigned(n)
<1>1. W \in Nat /\ W >= 2
  BY Words
<1> HIDE DEF W
<1>2. /\ Len(m) = L /\ m[1] \in 0..W-1 /\ (L = 2 => m[2] \in 0..W-1)
      /\ Unsigned(m) = IF L = 1 THEN m[1] ELSE m[1] + W * m[2]
  BY <1>1, Parts, UnsignedValue
<1>3. /\ n[1] \in 0..W-1 /\ (L = 2 => n[2] \in 0..W-1)
      /\ Unsigned(n) = IF L = 1 THEN n[1] ELSE n[1] + W * n[2]
  BY <1>1, Parts, UnsignedValue
<1> DEFINE low == (m[1] - n[1]) % W
           borrow == IF m[1] < n[1] THEN 1 ELSE 0
<1>4. low \in 0..W-1 /\ low = m[1] - n[1] + W * borrow
  <2> DEFINE x == m[1] - n[1]
  <2>1. x \in Int /\ -W <= x /\ x < W /\ (x < 0 <=> m[1] < n[1])
    BY <1>1, <1>2, <1>3
  <2>2. x % W = IF x < 0 THEN x + W ELSE x
    <3> HIDE DEF x
    <3>1. CASE x < 0
      BY <1>1, <2>1, <3>1, Wraps
    <3>2. CASE 0 <= x
      BY <1>1, <2>1, <3>2, Wraps
    <3> QED BY <2>1, <3>1, <3>2
  <2>3. borrow = IF x < 0 THEN 1 ELSE 0
    BY <2>1
  <2>4. low = x % W
    OBVIOUS
  <2> HIDE DEF low, borrow, x
  <2>5. low \in 0..W-1 /\ low = x + W * borrow
    BY <1>1, <2>1, <2>2, <2>3, <2>4
  <2> QED BY <2>5 DEF x
<1>5. CASE L = 1
  <2>1. n[1] <= m[1]
    BY <1>2, <1>3, <1>5 DEF Below
  <2>2. Minus(m, n) = <<low>>
    BY <1>2, <1>5 DEF Minus
  <2> HIDE DEF low
  <2>3. low = m[1] - n[1]
    BY <1>1, <1>2, <1>3, <1>4, <2>1
  <2>4. <<low>> \in Numbers(1)
    BY <1>1, <1>4, Tuples
  <2>5. Unsigned(<<low>>) = low
    BY DEF Unsigned
  <2> QED BY <1>2, <1>3, <1>5, <2>2, <2>3, <2>4, <2>5
<1>6. CASE L = 2
  <2> DEFINE high == (m[2] - borrow - n[2]) % W
  <2>1. (m[2] - borrow) - n[2] \in 0..W-1
    BY <1>1, <1>2, <1>3, <1>6 DEF Below
  <2>2. high \in 0..W-1 /\ high = (m[2] - borrow) - n[2]
    BY <1>1, <2>1, Wraps
  <2>3. Minus(m, n) = <<low, high>>
    BY <1>2, <1>6 DEF Minus
  <2>4. borrow \in 0..1
    OBVIOUS
  <2> HIDE DEF low, high, borrow
  <2>5. <<low, high>> \in Numbers(2)
    BY <1>1, <1>4, <2>2, Tuples
  <2>6. Unsigned(<<low, high>>) = low + W * high
    BY DEF Unsigned
  <2>7. PICK u \in 0..W-1, v \in 0..W-1 : u = m[2] /\ v = n[2]
    BY <1>2, <1>3, <1>6
  <2>8. W * high = W * u - W * borrow - W * v
    <3>1. W * ((u - borrow) - v) = (W * u - W * borrow) - W * v
      BY <1>1, <2>4
    <3> QED BY <1>1, <2>2, <2>4, <2>7, <3>1
  <2>9. W * u \in Int /\ W * v \in Int /\ W * borrow \in Int
    BY <1>1, <2>4
  <2> QED BY <1>2, <1>3, <1>4, <1>6, <2>2, <2>3, <2>5, <2>6, <2>7, <2>8, <2>9
<1> QED BY <1>5, <1>6 DEF Lengths

\* Doubling a word: what stays, and the bit that goes to the next one.
LEMMA DoubledWord ==
  ASSUME MulDivAssumption, NEW u \in 0..W-1
  PROVE  /\ u \div HalfW = IF u < HalfW THEN 0 ELSE 1
         /\ (2 * u) % W \in 0..W-1
         /\ (2 * u) % W = 2 * u - W * (u \div HalfW)
         /\ (2 * u) % W <= W - 2
<1>1. W \in Nat /\ W >= 2 /\ HalfW \in Nat /\ W = 2 * HalfW /\ HalfW >= 1
  BY Words
<1> HIDE DEF W, HalfW
<1>2. CASE u < HalfW
  <2>1. u \div HalfW = 0
    BY <1>1, <1>2, Division
  <2>2. (2 * u) % W = 2 * u
    BY <1>1, <1>2, Wraps
  <2> QED BY <1>1, <1>2, <2>1, <2>2
<1>3. CASE u >= HalfW
  <2>1. u \div HalfW = 1
    <3>1. u - HalfW \in Nat /\ u - HalfW < HalfW /\ u = HalfW * 1 + (u - HalfW)
      BY <1>1, <1>3
    <3> QED BY <1>1, <3>1, Division
  <2>2. (2 * u) % W = 2 * u - W
    <3>1. 2 * u \in Int /\ W <= 2 * u /\ 2 * u < 2 * W
      BY <1>1, <1>3
    <3> QED BY <1>1, <3>1, Wraps
  <2> QED BY <1>1, <1>3, <2>1, <2>2
<1> QED BY <1>1, <1>2, <1>3

\* A shift to the left doubles a number and drops its top bit.
LEMMA Doubled ==
  ASSUME MulDivAssumption, NEW L \in Lengths, NEW n \in Numbers(L)
  PROVE  /\ ShiftLeft(n) \in Numbers(L)
         /\ Unsigned(ShiftLeft(n)) =
              2 * Unsigned(n) - (IF Negative(n) THEN Span(L) ELSE 0)
<1>1. W \in Nat /\ W >= 2 /\ HalfW \in Nat /\ W = 2 * HalfW /\ HalfW >= 1
  BY Words
<1>2. /\ Len(n) = L /\ DOMAIN n = 1..L /\ n[1] \in 0..W-1
      /\ (L = 2 => n[2] \in 0..W-1)
      /\ Unsigned(n) = IF L = 1 THEN n[1] ELSE n[1] + W * n[2]
  BY <1>1, Parts, UnsignedValue
<1> DEFINE low == (2 * n[1]) % W
           carry == n[1] \div HalfW
<1>3. /\ carry = IF n[1] < HalfW THEN 0 ELSE 1
      /\ low \in 0..W-1 /\ low = 2 * n[1] - W * carry
  BY <1>2, DoubledWord
<1>4. CASE L = 1
  <2>1. ShiftLeft(n) = [i \in 1..1 |-> low]
    BY <1>1, <1>2, <1>3, <1>4 DEF ShiftLeft
  <2> HIDE DEF W, HalfW, low, carry
  <2>2. ShiftLeft(n) = <<low>>
    BY <2>1
  <2>3. <<low>> \in Numbers(1) /\ Unsigned(<<low>>) = low
    BY <1>1, <1>3, Tuples DEF Unsigned
  <2>4. Negative(n) <=> n[1] >= HalfW
    BY <1>2, <1>4 DEF Negative
  <2> QED BY <1>1, <1>2, <1>3, <1>4, <2>2, <2>3, <2>4 DEF Span
<1>5. CASE L = 2
  <2> DEFINE high == ((2 * n[2]) % W) + carry
             top == n[2] \div HalfW
  <2>1. /\ top = IF n[2] < HalfW THEN 0 ELSE 1
        /\ high \in 0..W-1 /\ high = 2 * n[2] - W * top + carry
    <3>1. /\ top = IF n[2] < HalfW THEN 0 ELSE 1
          /\ (2 * n[2]) % W \in 0..W-1 /\ (2 * n[2]) % W <= W - 2
          /\ (2 * n[2]) % W = 2 * n[2] - W * top
      BY <1>2, <1>5, DoubledWord
    <3> DEFINE rest == (2 * n[2]) % W
    <3>2. carry \in {0, 1} /\ high = rest + carry /\ rest = 2 * n[2] - W * top
      BY <1>3, <3>1
    <3>3. W * top \in Int
      BY <1>1, <3>1
    <3> HIDE DEF rest, carry, high, top, W
    <3> QED BY <1>1, <1>2, <1>5, <3>1, <3>2, <3>3 DEF rest
  <2>2. ShiftLeft(n) = [i \in 1..2 |-> IF i = 1 THEN low ELSE high]
    BY <1>1, <1>2, <1>3, <1>5, <2>1 DEF ShiftLeft
  <2> HIDE DEF W, HalfW, low, high, carry, top
  <2>3. ShiftLeft(n) = <<low, high>>
    BY <2>2
  <2>4. <<low, high>> \in Numbers(2) /\ Unsigned(<<low, high>>) = low + W * high
    <3>1. <<low, high>> \in Numbers(2)
      BY <1>1, <1>3, <2>1, Tuples
    <3>2. Unsigned(<<low, high>>) = low + W * high
      BY DEF Unsigned
    <3> QED BY <3>1, <3>2
  <2>5. Negative(n) <=> n[2] >= HalfW
    BY <1>2, <1>5 DEF Negative
  <2>6. PICK u \in 0..W-1, v \in 0..W-1 : u = n[1] /\ v = n[2]
    BY <1>2, <1>5
  <2>7. W * high = 2 * (W * v) - W * W * top + W * carry
    <3>1. W * (2 * v - W * top + carry) = 2 * (W * v) - W * W * top + W * carry
      <4> DEFINE t == W * top
      <4>1. carry \in Int /\ t \in Int /\ v \in Int
        BY <1>1, <1>3, <2>1
      <4>2. W * t = W * W * top
        BY <1>1, <2>1
      <4> HIDE DEF t
      <4>3. W * (2 * v - t + carry) = 2 * (W * v) - W * t + W * carry
        BY <1>1, <4>1
      <4> QED BY <4>2, <4>3 DEF t
    <3> QED BY <2>1, <2>6, <3>1
  <2>8. W * W * top = IF Negative(n) THEN W * W ELSE 0
    BY <1>1, <2>1, <2>5, <2>6
  <2> QED
    BY <1>1, <1>2, <1>3, <1>5, <2>3, <2>4, <2>6, <2>7, <2>8 DEF Span
<1> QED BY <1>4, <1>5 DEF Lengths

\* Halving a word.
LEMMA HalvedWord ==
  ASSUME NEW u \in Nat
  PROVE  /\ u \div 2 \in Nat /\ u % 2 \in {0, 1}
         /\ u = 2 * (u \div 2) + (u % 2)
<1> DEFINE d == u \div 2
           e == u % 2
<1>1. d \in Nat /\ e \in Nat /\ e < 2 /\ u = 2 * d + e
  BY Divided
<1> HIDE DEF d, e
<1>2. e \in {0, 1}
  BY <1>1
<1> QED BY <1>1, <1>2, Zenon DEF d, e

\* A shift to the right halves a number and drops its lowest bit.
LEMMA Halved ==
  ASSUME MulDivAssumption, NEW L \in Lengths, NEW n \in Numbers(L)
  PROVE  /\ ShiftRight(n) \in Numbers(L)
         /\ n[1] % 2 \in {0, 1}
         /\ Unsigned(n) = 2 * Unsigned(ShiftRight(n)) + (n[1] % 2)
<1>1. W \in Nat /\ W >= 2 /\ HalfW \in Nat /\ W = 2 * HalfW /\ HalfW >= 1
  BY Words
<1> HIDE DEF W, HalfW
<1>2. /\ Len(n) = L /\ DOMAIN n = 1..L /\ n[1] \in 0..W-1
      /\ (L = 2 => n[2] \in 0..W-1)
      /\ Unsigned(n) = IF L = 1 THEN n[1] ELSE n[1] + W * n[2]
  BY <1>1, Parts, UnsignedValue
<1>3. n[1] \div 2 \in Nat /\ n[1] % 2 \in {0, 1} /\ n[1] = 2 * (n[1] \div 2) + (n[1] % 2)
  BY <1>1, <1>2, HalvedWord
<1>4. CASE L = 1
  <2>1. n[1] \div 2 \in 0..W-1
    BY <1>1, <1>2, <1>3
  <2>2. ShiftRight(n) = [i \in 1..1 |-> n[1] \div 2]
    BY <1>2, <1>3, <1>4 DEF ShiftRight
  <2> DEFINE low == n[1] \div 2
  <2>3. ShiftRight(n) = <<low>>
    BY <2>2
  <2>4. <<low>> \in Numbers(1) /\ Unsigned(<<low>>) = low
    BY <1>1, <2>1, Tuples DEF Unsigned
  <2> QED BY <1>2, <1>3, <1>4, <2>3, <2>4
<1>5. CASE L = 2
  <2>1. n[2] \div 2 \in Nat /\ n[2] % 2 \in {0, 1} /\ n[2] = 2 * (n[2] \div 2) + (n[2] % 2)
    <3>1. n[2] \in Nat
      BY <1>1, <1>2, <1>5
    <3> QED BY <3>1, HalvedWord
  <2> DEFINE carry == n[2] % 2
             low == n[1] \div 2 + carry * HalfW
             high == n[2] \div 2
  <2>2. carry * HalfW = IF carry = 0 THEN 0 ELSE HalfW
    BY <1>1, <2>1
  <2>3. low \in 0..W-1 /\ high \in 0..W-1
    <3> DEFINE d == n[1] \div 2
               c == carry * HalfW
    <3>1. d \in Nat /\ 2 * d <= n[1] /\ high \in Nat /\ 2 * high <= n[2]
      BY <1>1, <1>2, <1>3, <1>5, <2>1
    <3>2. c \in {0, HalfW} /\ low = d + c
      BY <2>2
    <3> HIDE DEF d, c, carry, low, high
    <3> QED BY <1>1, <1>2, <1>5, <3>1, <3>2
  <2>4. ShiftRight(n) = [i \in 1..2 |-> IF i = 1 THEN low ELSE high]
    BY <1>2, <1>3, <1>5, <2>1, <2>2 DEF ShiftRight
  <2>5. 2 * low + (n[1] % 2) = n[1] + W * carry
    <3>1. 2 * (carry * HalfW) = W * carry
      BY <1>1, <2>1
    <3>2. carry * HalfW \in Nat
      BY <1>1, <2>1
    <3> DEFINE d == n[1] \div 2
               e == n[1] % 2
               c == carry * HalfW
    <3>3. low = d + c /\ d \in Nat /\ e \in Nat /\ n[1] = 2 * d + e
      BY <1>3
    <3> HIDE DEF low, d, e, c
    <3>4. 2 * low + e = (2 * d + e) + 2 * c /\ c \in Nat
      BY <3>2, <3>3 DEF c
    <3>5. 2 * low + e = n[1] + 2 * c
      BY <3>3, <3>4
    <3> QED BY <3>1, <3>5 DEF c, e
  <2>6. n[2] = 2 * high + carry /\ carry \in Nat
    BY <2>1
  <2> HIDE DEF low, high, carry
  <2>7. ShiftRight(n) = <<low, high>>
    BY <2>4
  <2>8. <<low, high>> \in Numbers(2) /\ Unsigned(<<low, high>>) = low + W * high
    <3>1. <<low, high>> \in Numbers(2)
      BY <1>1, <2>3, Tuples
    <3>2. Unsigned(<<low, high>>) = low + W * high
      BY DEF Unsigned
    <3> QED BY <3>1, <3>2
  <2>9. W * n[2] = 2 * (W * high) + W * carry
    <3>1. W * (2 * high + carry) = 2 * (W * high) + W * carry
      BY <1>1, <2>3, <2>6
    <3> QED BY <2>6, <3>1
  <2>10. W * high \in Int /\ W * carry \in Int /\ low \in Int /\ n[1] \in Int
    BY <1>1, <1>2, <2>3, <2>6
  <2> QED BY <1>2, <1>3, <1>5, <2>5, <2>7, <2>8, <2>9, <2>10
<1> QED BY <1>4, <1>5 DEF Lengths

\* A word modulo its size, for a sum of two words and a carry.
LEMMA Carried ==
  ASSUME NEW p \in Nat, p >= 2, NEW s \in Nat, s < 2 * p
  PROVE  \E k \in {0, 1} : s % p = s - p * k /\ s % p \in 0..p-1 /\ (k = 1 <=> s >= p)
<1>1. CASE s < p
  <2>1. s % p = s /\ p * 0 = 0
    BY <1>1, Wraps
  <2> QED BY <1>1, <2>1
<1>2. CASE s >= p
  <2>1. s % p = s - p /\ p * 1 = p
    BY <1>2, Wraps
  <2> QED BY <1>2, <2>1
<1> QED BY <1>1, <1>2

\* A sum, with the carry between words; a carry out of the number is lost.
LEMMA Sum ==
  ASSUME MulDivAssumption, NEW L \in Lengths,
         NEW m \in Numbers(L), NEW n \in Numbers(L)
  PROVE  /\ Plus(m, n) \in Numbers(L)
         /\ \E k \in {0, 1} :
              Unsigned(Plus(m, n)) = Unsigned(m) + Unsigned(n) - Span(L) * k
<1>1. W \in Nat /\ W >= 2
  BY Words
<1> HIDE DEF W
<1>2. /\ Len(m) = L /\ m[1] \in 0..W-1 /\ (L = 2 => m[2] \in 0..W-1)
      /\ Unsigned(m) = IF L = 1 THEN m[1] ELSE m[1] + W * m[2]
  BY <1>1, Parts, UnsignedValue
<1>3. /\ n[1] \in 0..W-1 /\ (L = 2 => n[2] \in 0..W-1)
      /\ Unsigned(n) = IF L = 1 THEN n[1] ELSE n[1] + W * n[2]
  BY <1>1, Parts, UnsignedValue
<1> DEFINE low == (m[1] + n[1]) % W
           carry == IF low < m[1] THEN 1 ELSE 0
<1>4. PICK k \in {0, 1} : low = (m[1] + n[1]) - W * k /\ low \in 0..W-1
  <2> DEFINE s == m[1] + n[1]
  <2>1. s \in Nat /\ s < 2 * W
    BY <1>1, <1>2, <1>3
  <2> HIDE DEF s
  <2>2. \E k \in {0, 1} : s % W = s - W * k /\ s % W \in 0..W-1
    BY <1>1, <2>1, Carried
  <2> QED BY <2>2 DEF s
<1>5. carry = k
  <2> HIDE DEF low
  <2> QED BY <1>1, <1>2, <1>3, <1>4
<1>6. CASE L = 1
  <2>1. Plus(m, n) = <<low>>
    BY <1>2, <1>6 DEF Plus
  <2> HIDE DEF low
  <2>2. <<low>> \in Numbers(1)
    BY <1>1, <1>4, Tuples
  <2>3. Unsigned(<<low>>) = low
    BY DEF Unsigned
  <2>4. Unsigned(Plus(m, n)) = Unsigned(m) + Unsigned(n) - Span(L) * k
    <3>1. Unsigned(m) = m[1] /\ Unsigned(n) = n[1] /\ Span(L) = W
      BY <1>2, <1>3, <1>6 DEF Span
    <3>2. Unsigned(Plus(m, n)) = (m[1] + n[1]) - W * k
      BY <1>4, <2>1, <2>3
    <3> QED BY <1>1, <1>2, <1>3, <3>1, <3>2
  <2> QED BY <1>6, <2>1, <2>2, <2>4
<1>7. CASE L = 2
  <2> DEFINE high == (m[2] + n[2] + carry) % W
  <2>1. PICK u \in 0..W-1, v \in 0..W-1 : u = m[2] /\ v = n[2]
    BY <1>2, <1>3, <1>7
  <2>2. PICK h \in {0, 1} : high = (u + v + k) - W * h /\ high \in 0..W-1
    <3> DEFINE s == u + v + k
    <3>1. s \in Nat /\ s < 2 * W
      BY <1>1, <2>1
    <3>2. high = s % W
      BY <1>5, <2>1
    <3> HIDE DEF s, high
    <3>3. \E h \in {0, 1} : s % W = s - W * h /\ s % W \in 0..W-1
      BY <1>1, <3>1, Carried
    <3> QED BY <3>2, <3>3 DEF s
  <2>3. Plus(m, n) = <<low, high>>
    BY <1>2, <1>7 DEF Plus
  <2> HIDE DEF low, high, carry
  <2>4. <<low, high>> \in Numbers(2)
    BY <1>1, <1>4, <2>2, Tuples
  <2>5. Unsigned(<<low, high>>) = low + W * high
    BY DEF Unsigned
  <2>6. W * high = ((W * u + W * v) + W * k) - W * W * h
    <3> DEFINE t == W * h
    <3>1. W * ((u + v + k) - t) = ((W * u + W * v) + W * k) - W * t
      BY <1>1, <2>1
    <3>2. W * t = W * W * h
      BY <1>1, <2>2
    <3> QED BY <2>2, <3>1, <3>2
  <2>7. /\ W * u \in Int /\ W * v \in Int /\ W * k \in Int /\ W * W * h \in Int
        /\ low \in Int /\ m[1] \in Int /\ n[1] \in Int
    <3>1. low \in Int /\ m[1] \in Int /\ n[1] \in Int
      BY <1>1, <1>2, <1>3, <1>4
    <3>2. W \in Int /\ u \in Int /\ v \in Int /\ k \in Int /\ h \in Int
      BY <1>1, <2>1
    <3> QED BY <3>1, <3>2
  <2>8. Unsigned(<<low, high>>) = (m[1] + W * u) + (n[1] + W * v) - W * W * h
    BY <1>4, <2>5, <2>6, <2>7
  <2> QED BY <1>2, <1>3, <1>7, <2>1, <2>2, <2>3, <2>4, <2>8 DEF Span
<1> QED BY <1>6, <1>7 DEF Lengths

\* Two's complement: the number that a number lacks to a power of two.
LEMMA Negated ==
  ASSUME MulDivAssumption, NEW L \in Lengths, NEW n \in Numbers(L)
  PROVE  /\ Negate(n) \in Numbers(L)
         /\ Unsigned(Negate(n)) =
              IF Unsigned(n) = 0 THEN 0 ELSE Span(L) - Unsigned(n)
<1>1. W \in Nat /\ W >= 2
  BY Words
<1> HIDE DEF W
<1>2. /\ Len(n) = L /\ n[1] \in 0..W-1 /\ (L = 2 => n[2] \in 0..W-1)
      /\ Unsigned(n) = IF L = 1 THEN n[1] ELSE n[1] + W * n[2]
  BY <1>1, Parts, UnsignedValue
<1> DEFINE low == (W - n[1]) % W
<1>3. low \in 0..W-1 /\ low = IF n[1] = 0 THEN 0 ELSE W - n[1]
  <2> DEFINE x == W - n[1]
  <2>1. x \in Int /\ 1 <= x /\ x <= W /\ (x = W <=> n[1] = 0)
    BY <1>1, <1>2
  <2>2. x % W = IF x = W THEN 0 ELSE x
    <3> HIDE DEF x
    <3>1. CASE x = W
      BY <1>1, <3>1, Wraps
    <3>2. CASE x < W
      <4>1. 0 <= x
        BY <2>1
      <4>2. x % W = x
        BY <1>1, <2>1, <3>2, <4>1, Wraps
      <4> QED BY <1>1, <3>2, <4>2
    <3> QED BY <1>1, <2>1, <3>1, <3>2
  <2>3. low = x % W
    OBVIOUS
  <2> HIDE DEF low, x
  <2>4. low \in 0..W-1 /\ low = IF n[1] = 0 THEN 0 ELSE x
    BY <1>1, <2>1, <2>2, <2>3
  <2> QED BY <2>4 DEF x
<1>4. CASE L = 1
  <2>1. Negate(n) = <<low>>
    BY <1>2, <1>4 DEF Negate
  <2> HIDE DEF low
  <2>2. <<low>> \in Numbers(1)
    BY <1>1, <1>3, Tuples
  <2>3. Unsigned(<<low>>) = low
    BY DEF Unsigned
  <2> QED BY <1>2, <1>3, <1>4, <2>1, <2>2, <2>3 DEF Span
<1>5. CASE L = 2
  <2> DEFINE carry == IF low = 0 THEN 1 ELSE 0
             high == (W - 1 - n[2] + carry) % W
  <2>1. PICK v \in 0..W-1 : v = n[2]
    BY <1>2, <1>5
  <2>2. carry \in {0, 1} /\ (carry = 1 <=> n[1] = 0)
    BY <1>1, <1>2, <1>3
  <2>3. Negate(n) = <<low, high>>
    BY <1>2, <1>5 DEF Negate
  <2>4. high = (((W - 1) - v) + carry) % W
    BY <2>1
  <2> HIDE DEF low, high, carry
  <2>5. /\ high \in 0..W-1
        /\ high = IF carry = 1 /\ v = 0 THEN 0 ELSE ((W - 1) - v) + carry
    <3> DEFINE x == ((W - 1) - v) + carry
    <3>1. x \in Int /\ 0 <= x /\ x <= W /\ (x = W <=> carry = 1 /\ v = 0)
      BY <1>1, <2>1, <2>2
    <3> HIDE DEF x
    <3>2. CASE x = W
      <4>1. x % W = 0
        BY <1>1, <3>2, Wraps
      <4> QED BY <1>1, <2>4, <3>1, <3>2, <4>1 DEF x
    <3>3. CASE x < W
      <4>1. x % W = x
        BY <1>1, <3>1, <3>3, Wraps
      <4>2. x \in 0..W-1
        BY <1>1, <3>1, <3>3
      <4>3. high = x /\ ~(carry = 1 /\ v = 0)
        BY <1>1, <2>4, <3>1, <3>3, <4>1 DEF x
      <4> QED BY <4>2, <4>3 DEF x
    <3> QED BY <1>1, <3>1, <3>2, <3>3
  <2>6. <<low, high>> \in Numbers(2)
    BY <1>1, <1>3, <2>5, Tuples
  <2>7. Unsigned(<<low, high>>) = low + W * high
    BY DEF Unsigned
  <2>8. Unsigned(n) = n[1] + W * v /\ Span(L) = W * W
    BY <1>2, <1>5, <2>1 DEF Span
  <2>9. CASE n[1] = 0
    <3>1. CASE v = 0
      BY <1>1, <1>3, <1>5, <2>2, <2>3, <2>5, <2>6, <2>7, <2>8, <2>9, <3>1
    <3>2. CASE v >= 1
      <4>1. high = W - v /\ low = 0
        BY <1>1, <1>3, <2>1, <2>2, <2>5, <2>9, <3>2
      <4>2. W * high = W * W - W * v /\ W * v >= W
        BY <1>1, <2>1, <3>2, <4>1
      <4>3. W * W \in Int /\ W * v \in Int
        BY <1>1, <2>1
      <4> QED BY <1>1, <1>5, <2>3, <2>6, <2>7, <2>8, <2>9, <4>1, <4>2, <4>3
    <3> QED BY <2>1, <3>1, <3>2
  <2>10. CASE n[1] # 0
    <3>1. high = (W - 1) - v /\ low = W - n[1] /\ n[1] \in Nat /\ n[1] >= 1
      BY <1>1, <1>2, <1>3, <2>1, <2>2, <2>5, <2>10
    <3>2. W * high = (W * W - W) - W * v
      BY <1>1, <2>1, <3>1
    <3>3. W * W \in Int /\ W * v \in Nat
      BY <1>1, <2>1
    <3> QED BY <1>1, <1>5, <2>3, <2>6, <2>7, <2>8, <3>1, <3>2, <3>3
  <2> QED BY <2>9, <2>10
<1> QED BY <1>4, <1>5 DEF Lengths

(***************************************************************************)
(* Powers of two and the bits of a quotient.                               *)
(***************************************************************************)

\* The exponents that the routines reach.
Exponents == 0..(2 * XLEN)

\* A power of two is positive, and twice the one before it.
LEMMA Powers ==
  ASSUME MulDivAssumption, NEW c \in Exponents
  PROVE  2^c \in Nat /\ 2^c >= 1 /\ 2^(c + 1) = 2 * 2^c
BY DEF MulDivAssumption, PowersOfTwo, Exponents

\* A product of powers of two.
LEMMA PowerProduct ==
  ASSUME MulDivAssumption, NEW k \in Exponents, NEW n \in Exponents, k + n \in Exponents
  PROVE  2^(k + n) = 2^k * 2^n
<1>1. XLEN \in Nat /\ PowersOfTwo
  BY DEF MulDivAssumption
<1>2. k \in 0..(2 * XLEN) /\ n \in 0..(2 * XLEN - k)
  BY <1>1 DEF Exponents
<1> QED BY <1>1, <1>2, PowerSum

\* Numbers of L words lie below 2^(L * XLEN).
LEMMA SpanIsPower ==
  ASSUME MulDivAssumption, NEW L \in Lengths
  PROVE  L * XLEN \in Exponents /\ L * XLEN >= 1 /\ Span(L) = 2^(L * XLEN)
<1>1. XLEN \in Nat /\ XLEN >= 1 /\ W = 2^XLEN
  BY DEF MulDivAssumption, W
<1>2. CASE L = 1
  BY <1>1, <1>2 DEF Exponents, Span
<1>3. CASE L = 2
  <2>1. XLEN \in Exponents /\ XLEN + XLEN \in Exponents /\ XLEN + XLEN = L * XLEN
    BY <1>1, <1>3 DEF Exponents
  <2>2. 2^(XLEN + XLEN) = 2^XLEN * 2^XLEN
    BY <2>1, PowerProduct
  <2> QED BY <1>1, <1>3, <2>1, <2>2 DEF Span
<1> QED BY <1>2, <1>3 DEF Lengths

\* A power of two that divides a number from its lower half up: the number
\* leaves room for it.
LEMMA Room ==
  ASSUME NEW v \in Nat, v >= 1, NEW q \in Nat, NEW r \in Nat, q * (2 * v) < r * (2 * v)
  PROVE  /\ ((q * (2 * v)) \div v) % 2 = 0
         /\ q * (2 * v) + v < r * (2 * v)
<1>1. q < r
  <2> SUFFICES ASSUME r <= q PROVE FALSE
    OBVIOUS
  <2>1. r * (2 * v) <= q * (2 * v)
    OBVIOUS
  <2>2. r * (2 * v) \in Int /\ q * (2 * v) \in Int
    OBVIOUS
  <2> QED BY <2>1, <2>2
<1>2. q * (2 * v) + 2 * v <= r * (2 * v)
  <2>1. (q + 1) * (2 * v) <= r * (2 * v)
    BY <1>1
  <2>2. (q + 1) * (2 * v) = q * (2 * v) + 2 * v
    OBVIOUS
  <2> QED BY <2>1, <2>2
<1>3. q * (2 * v) + v < r * (2 * v)
  <2>1. q * (2 * v) \in Int /\ r * (2 * v) \in Int
    OBVIOUS
  <2> QED BY <1>2, <2>1
<1>4. (q * (2 * v)) \div v = 2 * q
  <2> DEFINE m == q * (2 * v)
  <2>1. m = v * (2 * q) + 0 /\ m \in Int
    OBVIOUS
  <2> HIDE DEF m
  <2>2. m \div v = 2 * q
    BY <2>1, Division
  <2> QED BY <2>2 DEF m
<1>5. (2 * q) % 2 = 0
  <2> DEFINE m == 2 * q
  <2>1. m = 2 * q + 0 /\ m \in Int
    OBVIOUS
  <2> HIDE DEF m
  <2>2. m % 2 = 0
    BY <2>1, Division
  <2> QED BY <2>2 DEF m
<1> QED BY <1>3, <1>4, <1>5

\* The bit of a register is a power of two, in one word of it.
LEMMA BitWords ==
  ASSUME MulDivAssumption, NEW c \in Nat, c < Length(call.fn) * XLEN
  PROVE  /\ c \in Exponents /\ c + 1 \in Exponents
         /\ Length(call.fn) = 1 => BitAt(c) = <<2^c>> /\ 2^c < W
         /\ Length(call.fn) = 2 /\ c < XLEN => BitAt(c) = <<2^c, 0>> /\ 2^c < W
         /\ Length(call.fn) = 2 /\ c >= XLEN =>
              \E k \in Exponents : /\ k < XLEN /\ c = XLEN + k
                                   /\ BitAt(c) = <<0, 2^k>> /\ 2^k < W
<1>1. XLEN \in Nat /\ XLEN >= 1 /\ W = 2^XLEN
  BY DEF MulDivAssumption, W
<1>2. Length(call.fn) \in {1, 2}
  BY DEF Length
<1>3. c \in Exponents /\ c + 1 \in Exponents
  BY <1>1, <1>2 DEF Exponents
<1>4. ASSUME NEW k \in Nat, k < XLEN
      PROVE  k \in Exponents /\ k % XLEN = k /\ 2^k < W
  <2>1. k \in Exponents /\ XLEN - k \in Exponents /\ k + (XLEN - k) = XLEN
    BY <1>1, <1>4 DEF Exponents
  <2>2. k + (XLEN - k) \in Exponents
    BY <1>1, <2>1 DEF Exponents
  <2>3. 2^(k + (XLEN - k)) = 2^k * 2^(XLEN - k)
    BY <2>1, <2>2, PowerProduct
  <2>4. 2^(XLEN - k) >= 2
    <3> DEFINE e == XLEN - k - 1
    <3>1. e \in Exponents /\ XLEN - k = e + 1
      BY <1>1, <1>4 DEF Exponents
    <3> HIDE DEF e
    <3>2. 2^e \in Nat /\ 2^e >= 1 /\ 2^(e + 1) = 2 * 2^e
      BY <3>1, Powers
    <3> QED BY <3>1, <3>2
  <2>5. k % XLEN = k
    BY <1>1, <1>4, Wraps
  <2>6. 2^k \in Nat /\ 2^k >= 1 /\ 2^(XLEN - k) \in Nat
    BY <2>1, Powers
  <2>7. 2^k < 2^k * 2^(XLEN - k)
    <3> DEFINE u == 2^k
               v == 2^(XLEN - k)
    <3>1. u \in Nat /\ u >= 1 /\ v \in Nat /\ v >= 2
      BY <2>4, <2>6
    <3> HIDE DEF u, v
    <3>2. u * 2 <= u * v /\ u * v \in Nat
      BY <3>1
    <3>3. u < u * v
      BY <3>1, <3>2
    <3> QED BY <3>3 DEF u, v
  <2> QED BY <1>1, <2>1, <2>3, <2>5, <2>7
<1>5. CASE Length(call.fn) = 1
  <2>1. c % XLEN = c /\ 2^c < W
    BY <1>1, <1>4, <1>5
  <2> QED BY <1>3, <1>5, <2>1 DEF BitAt
<1>6. CASE Length(call.fn) = 2 /\ c < XLEN
  BY <1>1, <1>3, <1>4, <1>6 DEF BitAt
<1>7. CASE Length(call.fn) = 2 /\ c >= XLEN
  <2> DEFINE k == c - XLEN
  <2>1. k \in Nat /\ k < XLEN /\ c = XLEN + k
    BY <1>1, <1>7
  <2>2. k \in Exponents /\ k % XLEN = k /\ 2^k < W
    BY <1>4, <2>1
  <2>3. BitAt(c) = <<0, 2^k>>
    BY <1>1, <1>7, <2>1, <2>2 DEF BitAt
  <2> QED BY <1>1, <1>3, <1>7, <2>1, <2>2, <2>3
<1> QED BY <1>1, <1>2, <1>5, <1>6, <1>7

\* The bit at place c is the number 2^c.
LEMMA BitValue ==
  ASSUME MulDivAssumption, NEW c \in Nat, c < Length(call.fn) * XLEN
  PROVE  BitAt(c) \in Numbers(Length(call.fn)) /\ Unsigned(BitAt(c)) = 2^c
<1>1. XLEN \in Nat /\ W \in Nat /\ W >= 2 /\ W = 2^XLEN /\ XLEN \in Exponents
  BY Words DEF MulDivAssumption, Exponents
<1>2. Length(call.fn) \in {1, 2}
  BY DEF Length
<1> HIDE DEF W
<1>3. CASE Length(call.fn) = 1
  <2> DEFINE u == 2^c
  <2>1. BitAt(c) = <<u>> /\ u \in 0..W-1
    BY <1>1, <1>3, BitWords, Powers
  <2> HIDE DEF u
  <2>2. <<u>> \in Numbers(1)
    BY <1>1, <2>1, Tuples
  <2>3. Unsigned(<<u>>) = u
    BY DEF Unsigned
  <2> QED BY <1>3, <2>1, <2>2, <2>3 DEF u
<1>4. CASE Length(call.fn) = 2 /\ c < XLEN
  <2> DEFINE u == 2^c
  <2>1. BitAt(c) = <<u, 0>> /\ u \in 0..W-1
    BY <1>1, <1>4, BitWords, Powers
  <2> HIDE DEF u
  <2>2. <<u, 0>> \in Numbers(2)
    <3>1. 0 \in 0..W-1
      BY <1>1
    <3> QED BY <1>1, <2>1, <3>1, Tuples
  <2>3. Unsigned(<<u, 0>>) = u + W * 0
    BY DEF Unsigned
  <2>4. Unsigned(<<u, 0>>) = u
    BY <1>1, <2>1, <2>3
  <2> QED BY <1>4, <2>1, <2>2, <2>4 DEF u
<1>5. CASE Length(call.fn) = 2 /\ c >= XLEN
  <2>1. PICK k \in Exponents : /\ c = XLEN + k
                               /\ BitAt(c) = <<0, 2^k>> /\ 2^k < W
    BY <1>1, <1>5, BitWords
  <2> DEFINE u == 2^k
  <2>2. c \in Exponents /\ 2^c = W * u /\ u \in 0..W-1
    <3>1. c \in Exponents
      BY BitWords
    <3>2. 2^(XLEN + k) = 2^XLEN * 2^k
      BY <1>1, <2>1, <3>1, PowerProduct
    <3>3. 2^k \in Nat
      BY Powers
    <3> QED BY <1>1, <2>1, <3>1, <3>2, <3>3
  <2>3. BitAt(c) = <<0, u>>
    BY <2>1
  <2> HIDE DEF u
  <2>4. <<0, u>> \in Numbers(2)
    <3>1. 0 \in 0..W-1
      BY <1>1
    <3> QED BY <1>1, <2>2, <3>1, Tuples
  <2>5. Unsigned(<<0, u>>) = 0 + W * u
    BY DEF Unsigned
  <2>6. W * u \in Nat
    BY <1>1, <2>2
  <2> QED BY <1>5, <2>2, <2>3, <2>4, <2>5, <2>6
<1> QED BY <1>1, <1>2, <1>3, <1>4, <1>5

\* Numbers of one value are one number.
LEMMA SameNumber ==
  ASSUME MulDivAssumption, NEW L \in Lengths,
         NEW m \in Numbers(L), NEW n \in Numbers(L), Unsigned(m) = Unsigned(n)
  PROVE  m = n
<1>1. W \in Nat
  BY Words
<1> HIDE DEF W
<1>2. ~Below(m, n) /\ ~Below(n, m)
  BY BelowIsLess, UnsignedValue
<1>3. /\ Len(m) = L /\ m[1] \in 0..W-1 /\ (L = 2 => m[2] \in 0..W-1)
      /\ (L = 1 => m = <<m[1]>>) /\ (L = 2 => m = <<m[1], m[2]>>)
  BY <1>1, Parts
<1>4. /\ Len(n) = L /\ n[1] \in 0..W-1 /\ (L = 2 => n[2] \in 0..W-1)
      /\ (L = 1 => n = <<n[1]>>) /\ (L = 2 => n = <<n[1], n[2]>>)
  BY <1>1, Parts
<1>5. m[1] = n[1] /\ (L = 2 => m[2] = n[2])
  BY <1>1, <1>2, <1>3, <1>4 DEF Below, Lengths
<1> QED BY <1>3, <1>4, <1>5 DEF Lengths

\* The mask moves to the next bit.
LEMMA NextBit ==
  ASSUME MulDivAssumption, NEW c \in Nat, c >= 1, c < Length(call.fn) * XLEN
  PROVE  ShiftRight(BitAt(c)) = BitAt(c - 1)
<1> DEFINE L == Length(call.fn)
           e == c - 1
<1>1. XLEN \in Nat /\ L \in Lengths
  BY DEF MulDivAssumption, Length, Lengths
<1>2. e \in Nat /\ c = e + 1 /\ e < L * XLEN
  BY <1>1 DEF Lengths
<1> HIDE DEF L, e
<1>3. BitAt(c) \in Numbers(L) /\ Unsigned(BitAt(c)) = 2^c
  BY BitValue DEF L
<1>4. BitAt(e) \in Numbers(L) /\ Unsigned(BitAt(e)) = 2^e
  BY <1>2, BitValue DEF L
<1>5. e \in Exponents
  BY <1>2, BitWords DEF L
<1>6. 2^e \in Nat /\ 2^c = 2 * 2^e
  BY <1>2, <1>5, Powers
<1> DEFINE n == BitAt(c)
           s == ShiftRight(n)
           p == n[1] % 2
           u == Unsigned(s)
<1>7. s \in Numbers(L) /\ p \in {0, 1} /\ Unsigned(n) = 2 * u + p /\ u \in Nat
  <2>1. s \in Numbers(L) /\ p \in {0, 1} /\ Unsigned(n) = 2 * u + p
    BY <1>1, <1>3, Halved
  <2>2. u \in Nat
    BY <1>1, <2>1, UnsignedValue
  <2> QED BY <2>1, <2>2
<1>8. u = 2^e
  <2> DEFINE v == 2^e
  <2>1. v \in Nat /\ 2 * v = 2 * u + p
    BY <1>3, <1>6, <1>7
  <2> HIDE DEF v, u, p
  <2>2. u = v
    BY <1>7, <2>1
  <2> QED BY <2>2 DEF v
<1>9. s = BitAt(e)
  BY <1>1, <1>4, <1>7, <1>8, SameNumber
<1> QED BY <1>9 DEF e

\* Setting a bit of a quotient that has none at or below it adds its value.
LEMMA BitSet ==
  ASSUME MulDivAssumption, NEW c \in Nat, c < Length(call.fn) * XLEN,
         NEW n \in Numbers(Length(call.fn)), NEW q \in Nat,
         Unsigned(n) = q * 2^(c + 1)
  PROVE  /\ WithBit(n, BitAt(c)) \in Numbers(Length(call.fn))
         /\ Unsigned(WithBit(n, BitAt(c))) = Unsigned(n) + 2^c
<1> DEFINE L == Length(call.fn)
<1>1. XLEN \in Nat /\ W \in Nat /\ W >= 2 /\ W = 2^XLEN /\ XLEN \in Exponents
  BY Words DEF MulDivAssumption, Exponents
<1>2. L \in Lengths
  BY DEF Length, Lengths
<1> HIDE DEF W, L
<1>3. /\ Len(n) = L /\ DOMAIN n = 1..L /\ n[1] \in 0..W-1
      /\ (L = 2 => n[2] \in 0..W-1)
      /\ Unsigned(n) = IF L = 1 THEN n[1] ELSE n[1] + W * n[2]
  BY <1>1, <1>2, Parts, UnsignedValue DEF L
<1>4. c \in Exponents /\ c + 1 \in Exponents /\ 2^c \in Nat /\ 2^c >= 1 /\ 2^(c + 1) = 2 * 2^c
  BY BitWords, Powers
\* A word of 2^XLEN is a multiple of every power of two below it.
<1>5. ASSUME NEW k \in Exponents, k < XLEN
      PROVE  \E r \in Nat : W = r * (2 * 2^k)
  <2> DEFINE e == XLEN - (k + 1)
  <2>1. e \in Exponents /\ k + 1 \in Exponents /\ e + (k + 1) = XLEN
    BY <1>1, <1>5 DEF Exponents
  <2> HIDE DEF e
  <2>2. 2^(e + (k + 1)) = 2^e * 2^(k + 1)
    BY <1>1, <2>1, PowerProduct
  <2>3. 2^e \in Nat /\ 2^(k + 1) = 2 * 2^k
    BY <2>1, Powers
  <2> QED BY <1>1, <2>1, <2>2, <2>3
<1>6. CASE L = 1
  <2> DEFINE v == 2^c
             w == WithBit(n, BitAt(c))
  <2>1. BitAt(c) = <<v>> /\ c < XLEN
    BY <1>1, <1>6, BitWords DEF L
  <2>2. PICK r \in Nat : W = r * (2 * v)
    BY <1>4, <1>5, <2>1
  <2>3. n[1] = q * (2 * v) /\ v \in Nat /\ v >= 1
    BY <1>3, <1>4, <1>6
  <2>4. w = [i \in 1..1 |->
               IF v = 0 \/ (n[1] \div v) % 2 = 1 THEN n[1] ELSE n[1] + v]
    BY <1>3, <1>6, <2>1 DEF WithBit
  <2> HIDE DEF v, w
  <2>5. (n[1] \div v) % 2 = 0 /\ n[1] + v < W
    <3>1. q * (2 * v) < r * (2 * v)
      BY <1>1, <1>3, <2>2, <2>3
    <3> QED BY <2>2, <2>3, <3>1, Room
  <2>6. w = <<n[1] + v>>
    BY <2>3, <2>4, <2>5
  <2>7. n[1] + v \in 0..W-1
    BY <1>1, <1>3, <2>3, <2>5
  <2>8. <<n[1] + v>> \in Numbers(1)
    BY <1>1, <2>7, Tuples
  <2>9. Unsigned(<<n[1] + v>>) = n[1] + v
    BY DEF Unsigned
  <2> QED BY <1>3, <1>6, <2>6, <2>8, <2>9 DEF v, w, L
<1>7. CASE L = 2 /\ c < XLEN
  <2> DEFINE v == 2^c
             w == WithBit(n, BitAt(c))
  <2>1. BitAt(c) = <<v, 0>>
    BY <1>1, <1>7, BitWords DEF L
  <2>2. PICK r \in Nat : W = r * (2 * v)
    BY <1>4, <1>5, <1>7
  <2>3. v \in Nat /\ v >= 1 /\ n[1] + W * n[2] = q * (2 * v)
    BY <1>3, <1>4, <1>7
  <2>4. w = [i \in 1..2 |-> IF i = 1
               THEN IF v = 0 \/ (n[1] \div v) % 2 = 1 THEN n[1] ELSE n[1] + v
               ELSE n[2]]
    BY <1>3, <1>7, <2>1 DEF WithBit
  <2> HIDE DEF v, w
  <2>5. PICK p \in Nat : n[1] = p * (2 * v)
    <3> DEFINE h == n[2]
               m == 2 * v
               p == q - r * h
    <3>1. h \in Nat /\ m \in Nat /\ m >= 1 /\ n[1] \in Nat
      BY <1>1, <1>3, <1>7, <2>3
    <3>2. n[1] + (r * m) * h = q * m
      BY <2>2, <2>3
    <3> HIDE DEF h, m
    <3>3. (r * m) * h = (r * h) * m /\ r * h \in Nat /\ p \in Int
      BY <3>1
    <3>4. p * m = q * m - (r * h) * m
      BY <3>1, <3>3
    <3>5. n[1] = p * m
      <4>1. (r * h) * m \in Int /\ q * m \in Int
        BY <3>1, <3>3
      <4> QED BY <3>1, <3>2, <3>3, <3>4, <4>1
    <3> HIDE DEF p
    <3>6. p >= 0
      <4> SUFFICES ASSUME p <= -1 PROVE FALSE
        BY <3>3
      <4>1. p * m <= (-1) * m
        BY <3>1, <3>3
      <4> QED BY <3>1, <3>5, <4>1
    <3>7. p \in Nat
      BY <3>3, <3>6
    <3> QED BY <3>5, <3>7 DEF m
  <2>6. (n[1] \div v) % 2 = 0 /\ n[1] + v < W
    <3>1. p * (2 * v) < r * (2 * v)
      BY <1>1, <1>3, <2>2, <2>5
    <3> QED BY <2>2, <2>3, <2>5, <3>1, Room
  <2>7. w = <<n[1] + v, n[2]>>
    BY <2>3, <2>4, <2>6
  <2>8. n[1] + v \in 0..W-1 /\ n[2] \in 0..W-1
    BY <1>1, <1>3, <1>7, <2>3, <2>6
  <2>9. <<n[1] + v, n[2]>> \in Numbers(2)
    BY <1>1, <2>8, Tuples
  <2>10. Unsigned(<<n[1] + v, n[2]>>) = n[1] + v + W * n[2]
    BY DEF Unsigned
  <2>11. n[1] \in Int /\ W * n[2] \in Int
    BY <1>1, <1>3, <1>7
  <2>12. Unsigned(w) = Unsigned(n) + v
    BY <1>3, <1>7, <2>3, <2>7, <2>10, <2>11
  <2> QED BY <1>7, <2>7, <2>9, <2>12 DEF v, w, L
<1>8. CASE L = 2 /\ c >= XLEN
  <2>1. PICK k \in Exponents : /\ k < XLEN /\ c = XLEN + k
                               /\ BitAt(c) = <<0, 2^k>> /\ 2^k < W
    BY <1>1, <1>8, BitWords DEF L
  <2> DEFINE v == 2^k
             w == WithBit(n, BitAt(c))
  <2>2. PICK r \in Nat : W = r * (2 * v)
    BY <1>5, <2>1
  <2>3. v \in Nat /\ v >= 1 /\ 2^c = W * v
    <3>1. 2^(XLEN + k) = 2^XLEN * 2^k
      BY <1>1, <1>4, <2>1, PowerProduct
    <3> QED BY <1>1, <2>1, <3>1, Powers
  <2>4. w = [i \in 1..2 |-> IF i = 1 THEN n[1] ELSE
               IF v = 0 \/ (n[2] \div v) % 2 = 1 THEN n[2] ELSE n[2] + v]
    BY <1>3, <1>8, <2>1 DEF WithBit
  <2>5. n[1] + W * n[2] = q * (2 * (W * v))
    BY <1>3, <1>4, <1>8, <2>3
  <2> HIDE DEF v, w
  <2>6. n[1] = 0 /\ n[2] = q * (2 * v)
    <3> DEFINE h == n[2]
               l == n[1]
               t == q * (2 * v)
    <3>1. h \in Nat /\ l \in Nat /\ l < W /\ t \in Nat
      BY <1>1, <1>3, <1>8, <2>3
    <3>2. q * (2 * (W * v)) = W * t
      BY <1>1, <2>3
    <3>3. l + W * h = W * t
      BY <2>5, <3>2
    <3> HIDE DEF h, t, l
    <3>4. W * h + l = W * t + 0
      BY <1>1, <3>1, <3>3
    <3>5. h = t /\ l = 0
      BY <1>1, <3>1, <3>4, OneDivision
    <3> QED BY <3>5 DEF h, t, l
  <2>7. (n[2] \div v) % 2 = 0 /\ n[2] + v < W
    <3>1. q * (2 * v) < r * (2 * v)
      BY <1>1, <1>3, <1>8, <2>2, <2>6
    <3> QED BY <2>2, <2>3, <2>6, <3>1, Room
  <2>8. w = <<n[1], n[2] + v>>
    BY <2>3, <2>4, <2>7
  <2>9. n[1] \in 0..W-1 /\ n[2] + v \in 0..W-1
    BY <1>1, <1>3, <1>8, <2>3, <2>7
  <2>10. <<n[1], n[2] + v>> \in Numbers(2)
    BY <1>1, <2>9, Tuples
  <2>11. Unsigned(<<n[1], n[2] + v>>) = n[1] + W * (n[2] + v)
    BY DEF Unsigned
  <2>12. W * (n[2] + v) = W * n[2] + W * v /\ W * n[2] \in Int /\ W * v \in Int
    <3>1. n[2] \in Int
      BY <1>1, <1>3, <1>8
    <3> QED BY <1>1, <2>3, <3>1
  <2>13. Unsigned(w) = Unsigned(n) + W * v
    BY <1>1, <1>3, <1>8, <2>8, <2>11, <2>12
  <2> QED BY <1>8, <2>3, <2>8, <2>10, <2>13 DEF w, L
<1> QED BY <1>1, <1>2, <1>6, <1>7, <1>8 DEF L, Lengths

(***************************************************************************)
(* The inductive invariant.                                                *)
(***************************************************************************)

Modulus   == Span(Length(call.fn))
Dividing  == label \in {"align", "divide"}
Dividend  == Abs(Value(call.x))
Divisor   == Abs(Value(call.y))

\* The type invariant: a routine works on numbers of its own length.
MulDivTypes ==
  /\ call.fn \in Routines
  /\ {call.x, call.y, a, b, quot, mask} \subseteq Numbers(Length(call.fn))
  /\ label \in {"entry", "align", "divide", "multiply", "done"}
  /\ count \in 0..(Length(call.fn) * XLEN)
  /\ sign \in BOOLEAN

\* A routine starts with its arguments and with nothing else.
Entered ==
  label = "entry" => /\ a = call.x /\ b = call.y /\ count = 0
                     /\ Unsigned(quot) = 0

\* The divisor is shifted by count, which loses none of its bits, and the sign
\* of the result is kept.
Aligned ==
  Dividing =>
    /\ call.fn \notin Products
    /\ Divisor >= 1
    /\ count < Length(call.fn) * XLEN
    /\ Unsigned(b) = Divisor * 2^count
    /\ call.fn \in Signed \cap Quotients =>
         sign = ((Value(call.x) < 0) # (Value(call.y) < 0))
    /\ call.fn \in Signed \cap Remainders => sign = (Value(call.x) < 0)

\* The quotient so far, all of it above the bit that the next pass decides.
QuotientSoFar ==
  Dividing /\ call.fn \in Quotients =>
    /\ Dividend = Unsigned(quot) * Divisor + Unsigned(a)
    /\ label = "align" => Unsigned(quot) = 0
    /\ label = "divide" => /\ mask = BitAt(count)
                           /\ Unsigned(quot) % (2^count) = 0

\* What is left of the dividend.
RemainderSoFar ==
  Dividing /\ call.fn \in Remainders => Dividend % Divisor = Unsigned(a) % Divisor

\* What is left is below the shifted divisor.
Reduced == label = "divide" => Unsigned(a) < Unsigned(b)

\* The product so far and what is still to be added to it.
ProductSoFar ==
  label = "multiply" =>
    /\ call.fn \in Products
    /\ (Unsigned(quot) + Unsigned(a) * Unsigned(b)) % Modulus
         = (Unsigned(call.x) * Unsigned(call.y)) % Modulus
    /\ Unsigned(a) < 2^count

MulDivInv ==
  /\ MulDivTypes
  /\ Entered
  /\ Aligned
  /\ QuotientSoFar
  /\ RemainderSoFar
  /\ Reduced
  /\ ProductSoFar
  /\ ResultRight

-----------------------------------------------------------------------------
(* Values of the arguments. *)

\* The types that the invariant gives, and the modulus.
LEMMA Typed ==
  ASSUME MulDivAssumption, MulDivTypes
  PROVE  /\ Length(call.fn) \in Lengths
         /\ call.x \in Numbers(Length(call.fn)) /\ call.y \in Numbers(Length(call.fn))
         /\ a \in Numbers(Length(call.fn)) /\ b \in Numbers(Length(call.fn))
         /\ quot \in Numbers(Length(call.fn)) /\ mask \in Numbers(Length(call.fn))
         /\ count \in Nat /\ count \in Exponents /\ XLEN \in Nat
         /\ Modulus \in Nat /\ Modulus >= 2
<1>1. Length(call.fn) \in Lengths
  BY DEF Length, Lengths
<1>2. a \in Numbers(Length(call.fn))
  BY DEF MulDivTypes
<1>3. Modulus \in Nat /\ Modulus >= 2
  BY <1>1, <1>2, UnsignedValue DEF Modulus
<1>4. XLEN \in Nat
  BY DEF MulDivAssumption
<1>5. count \in Nat /\ count \in Exponents
  BY <1>1, <1>4 DEF MulDivTypes, Lengths, Exponents
<1> QED BY <1>1, <1>3, <1>4, <1>5 DEF MulDivTypes

\* The integer that a number stands for, and its magnitude.
LEMMA IntegerValue ==
  ASSUME MulDivAssumption, NEW L \in Lengths, NEW n \in Numbers(L)
  PROVE  /\ Integer(n) \in Int
         /\ Negative(n) <=> Integer(n) < 0
         /\ Integer(n) = 0 <=> Unsigned(n) = 0
         /\ Integer(n) % Span(L) = Unsigned(n)
         /\ Magnitude(n) \in Numbers(L)
         /\ Unsigned(Magnitude(n)) = Abs(Integer(n))
<1> DEFINE u == Unsigned(n)
           s == Span(L)
           i == Integer(n)
<1>1. u \in Nat /\ u < s /\ s \in Nat /\ s >= 2 /\ Size(n) = s
  BY Words, Parts, UnsignedValue
<1>2. i = IF Negative(n) THEN u - s ELSE u
  BY <1>1 DEF Integer
<1>3. Negative(n) <=> 2 * u >= s
  BY ZeroAndNegative
<1>4. Negate(n) \in Numbers(L) /\ Unsigned(Negate(n)) = IF u = 0 THEN 0 ELSE s - u
  BY Negated
<1> HIDE DEF u, s, i
<1>5. i \in Int /\ (Negative(n) <=> i < 0) /\ (i = 0 <=> u = 0)
  BY <1>1, <1>2, <1>3
<1>6. i % s = u
  <2>1. CASE Negative(n)
    <3>1. i = u - s /\ -s <= i /\ i < 0
      BY <1>1, <1>2, <1>5, <2>1
    <3>2. i % s = i + s
      BY <1>1, <1>5, <3>1, Wraps
    <3> QED BY <1>1, <3>1, <3>2
  <2>2. CASE ~Negative(n)
    <3>1. i = u
      BY <1>2, <2>2
    <3> QED BY <1>1, <3>1, Wraps
  <2> QED BY <2>1, <2>2
<1>7. Magnitude(n) \in Numbers(L) /\ Unsigned(Magnitude(n)) = Abs(i)
  <2>1. CASE Negative(n)
    <3>1. Magnitude(n) = Negate(n) /\ u # 0 /\ i = u - s
      BY <1>1, <1>2, <1>3, <2>1 DEF Magnitude
    <3> QED BY <1>1, <1>4, <1>5, <2>1, <3>1 DEF Abs
  <2>2. CASE ~Negative(n)
    <3>1. Magnitude(n) = n /\ i = u
      BY <1>2, <2>2 DEF Magnitude
    <3> QED BY <1>5, <2>2, <3>1 DEF Abs, u
  <2> QED BY <2>1, <2>2
<1> QED BY <1>5, <1>6, <1>7 DEF u, s, i

\* The value of an argument, whichever way its routine reads it.
LEMMA ArgumentValue ==
  ASSUME MulDivAssumption, MulDivTypes, NEW n \in Numbers(Length(call.fn))
  PROVE  /\ Value(n) \in Int
         /\ Value(n) = 0 <=> Unsigned(n) = 0
         /\ Value(n) % Modulus = Unsigned(n)
         /\ Abs(Value(n)) \in Nat
         /\ Abs(Value(n)) >= 1 <=> ~IsZero(n)
         /\ call.fn \notin Signed => /\ Value(n) = Unsigned(n)
                                     /\ Abs(Value(n)) = Unsigned(n)
<1>1. Length(call.fn) \in Lengths
  BY Typed
<1>2. /\ Unsigned(n) \in Nat /\ Unsigned(n) < Modulus /\ Modulus \in Nat /\ Modulus >= 2
      /\ (IsZero(n) <=> Unsigned(n) = 0)
  BY <1>1, UnsignedValue, ZeroAndNegative DEF Modulus
<1>3. CASE call.fn \in Signed
  <2>1. /\ Value(n) \in Int /\ (Value(n) = 0 <=> Unsigned(n) = 0)
        /\ Value(n) % Modulus = Unsigned(n)
    BY <1>1, <1>3, IntegerValue DEF Value, Modulus
  <2> DEFINE v == Value(n)
  <2>2. Abs(v) \in Nat /\ (Abs(v) >= 1 <=> v # 0)
    <3> HIDE DEF v
    <3>1. v \in Int
      BY <2>1 DEF v
    <3> QED BY <3>1 DEF Abs
  <2> QED BY <1>2, <1>3, <2>1, <2>2
<1>4. CASE call.fn \notin Signed
  <2>1. Value(n) = Unsigned(n)
    BY <1>4 DEF Value
  <2>2. Unsigned(n) % Modulus = Unsigned(n)
    BY <1>2, Wraps
  <2>3. Abs(Unsigned(n)) = Unsigned(n)
    BY <1>2 DEF Abs
  <2> QED BY <1>2, <1>4, <2>1, <2>2, <2>3
<1> QED BY <1>3, <1>4

\* What the answer is, routine by routine.
LEMMA Answers ==
  ASSUME MulDivAssumption, MulDivTypes
  PROVE  /\ call.fn \in Products => Answer = Unsigned(call.x) * Unsigned(call.y)
         /\ call.fn \in Quotients =>
              Answer = IF Value(call.y) = 0 THEN -1
                       ELSE Quotient(Value(call.x), Value(call.y))
         /\ call.fn \in Remainders =>
              Answer = IF Value(call.y) = 0 THEN Value(call.x)
                       ELSE Remainder(Value(call.x), Value(call.y))
<1>1. CASE call.fn \in Products
  <2>1. call.fn \notin Quotients /\ call.fn \notin Remainders /\ call.fn \notin Signed
    BY <1>1 DEF Products, Quotients, Remainders, Signed
  <2> QED BY <1>1, <2>1 DEF Answer, Value
<1>2. CASE call.fn \in Quotients
  <2>1. call.fn \notin Products /\ call.fn \notin Remainders
    BY <1>2 DEF Products, Quotients, Remainders
  <2> QED BY <1>2, <2>1 DEF Answer
<1>3. CASE call.fn \in Remainders
  <2>1. call.fn \notin Products /\ call.fn \notin Quotients
    BY <1>3 DEF Products, Quotients, Remainders
  <2> QED BY <1>3, <2>1 DEF Answer
<1> QED BY <1>1, <1>2, <1>3

(***************************************************************************)
(* The steps.                                                              *)
(***************************************************************************)

\* A routine is never called anew while it runs, and neither its length nor
\* what it is to compute changes.
LEMMA SameCall ==
  ASSUME UNCHANGED call
  PROVE  /\ Length(call.fn)' = Length(call.fn) /\ Modulus' = Modulus
         /\ Dividend' = Dividend /\ Divisor' = Divisor /\ Answer' = Answer
         /\ Value(call.x)' = Value(call.x) /\ Value(call.y)' = Value(call.y)
<1>1. Length(call.fn)' = Length(call.fn)
  OBVIOUS
<1>2. Modulus' = Modulus
  BY <1>1 DEF Modulus
<1>3. Value(call.x)' = Value(call.x) /\ Value(call.y)' = Value(call.y)
  BY DEF Value
<1>4. Dividend' = Dividend /\ Divisor' = Divisor
  BY <1>3 DEF Dividend, Divisor
<1>5. Answer' = Answer
  BY <1>3 DEF Answer
<1> QED BY <1>1, <1>2, <1>3, <1>4, <1>5

\* Returning the right result.
LEMMA ReturnStep ==
  ASSUME MulDivAssumption, MulDivInv, NEW value \in Numbers(Length(call.fn)),
         Return(value), Unsigned(value) = Answer % Modulus
  PROVE  MulDivInv'
<1>1. /\ a' = value /\ label' = "done" /\ UNCHANGED call
      /\ UNCHANGED <<b, quot, mask, count, sign>>
  BY DEF Return
<1>2. Length(call.fn)' = Length(call.fn) /\ Answer' = Answer
  BY <1>1, SameCall
<1>3. MulDivTypes'
  BY <1>1 DEF MulDivInv, MulDivTypes
<1>4. ResultRight'
  <2>1. Length(call.fn) \in Lengths /\ W \in Nat
    BY Typed, Words DEF MulDivInv
  <2>2. Size(value) = Modulus
    BY <2>1, Parts DEF Modulus
  <2>3. Unsigned(a)' = Unsigned(value) /\ Size(a)' = Size(value)
    BY <1>1 DEF Unsigned, Size
  <2> QED BY <1>2, <2>2, <2>3 DEF ResultRight
<1> QED
  BY <1>1, <1>3, <1>4 DEF MulDivInv, Entered, Dividing, Aligned, QuotientSoFar,
     RemainderSoFar, Reduced, ProductSoFar

\* Dividing by zero: all ones, or the dividend.
LEMMA ZeroDivisorStep ==
  ASSUME MulDivAssumption, MulDivInv,
         \/ call.fn \in Quotients /\ ZeroDivisor(AllOnes)
         \/ call.fn \in Remainders /\ ZeroDivisor(a)
  PROVE  MulDivInv'
<1>1. MulDivTypes /\ label = "entry" /\ IsZero(b) /\ a = call.x /\ b = call.y
  BY DEF MulDivInv, Entered, ZeroDivisor
<1>2. Length(call.fn) \in Lengths /\ b \in Numbers(Length(call.fn))
  BY <1>1, Typed
<1>3. Value(call.y) = 0
  BY <1>1, <1>2, ArgumentValue, ZeroAndNegative
<1>4. CASE call.fn \in Quotients /\ ZeroDivisor(AllOnes)
  <2>1. W \in Nat /\ W >= 2 /\ W - 1 \in 0..W-1
    BY Words
  <2>2. AllOnes \in Numbers(Length(call.fn)) /\ Unsigned(AllOnes) = Modulus - 1
    <3> HIDE DEF W
    <3>1. CASE Length(call.fn) = 1
      <4>1. AllOnes = <<W - 1>>
        BY <3>1 DEF AllOnes
      <4>2. <<W - 1>> \in Numbers(1)
        BY <2>1, Tuples
      <4>3. Unsigned(<<W - 1>>) = W - 1
        BY DEF Unsigned
      <4> QED BY <3>1, <4>1, <4>2, <4>3 DEF Modulus, Span
    <3>2. CASE Length(call.fn) = 2
      <4>1. AllOnes = <<W - 1, W - 1>>
        BY <3>2 DEF AllOnes
      <4>2. <<W - 1, W - 1>> \in Numbers(2)
        BY <2>1, Tuples
      <4>3. Unsigned(<<W - 1, W - 1>>) = W - 1 + W * (W - 1)
        BY DEF Unsigned
      <4>4. W * (W - 1) = W * W - W /\ W * W \in Int
        BY <2>1
      <4>5. Unsigned(<<W - 1, W - 1>>) = W * W - 1
        BY <2>1, <4>3, <4>4
      <4> QED BY <3>2, <4>1, <4>2, <4>5 DEF Modulus, Span
    <3> QED BY <1>2, <3>1, <3>2 DEF Lengths
  <2>3. Answer = -1
    BY <1>1, <1>3, <1>4, Answers
  <2>4. Answer % Modulus = Modulus - 1
    <3>1. Modulus \in Nat /\ Modulus >= 2
      BY <1>1, Typed
    <3>2. (-1) % Modulus = (-1) + Modulus
      BY <3>1, Wraps
    <3> QED BY <2>3, <3>1, <3>2
  <2>5. Return(AllOnes)
    BY <1>4 DEF ZeroDivisor
  <2> QED BY <2>2, <2>4, <2>5, ReturnStep
<1>5. CASE call.fn \in Remainders /\ ZeroDivisor(a)
  <2>1. Answer = Value(call.x)
    BY <1>1, <1>3, <1>5, Answers
  <2>2. Answer % Modulus = Unsigned(a) /\ a \in Numbers(Length(call.fn))
    BY <1>1, <2>1, ArgumentValue, Typed
  <2>3. Return(a)
    BY <1>5 DEF ZeroDivisor
  <2> QED BY <2>2, <2>3, ReturnStep
<1> QED BY <1>4, <1>5

\* Beginning a division: of the arguments, or of their magnitudes with the
\* sign of the result set aside.
LEMMA EnterStep ==
  ASSUME MulDivAssumption, MulDivInv, call.fn \notin Products,
         \/ call.fn \notin Signed /\ EnterUnsigned
         \/ call.fn \in Signed \cap Quotients /\ EnterSigned(Negative(a) # Negative(b))
         \/ call.fn \in Signed \cap Remainders /\ EnterSigned(Negative(a))
  PROVE  MulDivInv'
<1>1. /\ MulDivTypes /\ label = "entry" /\ ~IsZero(b) /\ a = call.x /\ b = call.y
      /\ count = 0 /\ Unsigned(quot) = 0
      /\ label' = "align" /\ UNCHANGED <<call, quot, mask, count>>
  BY DEF MulDivInv, Entered, EnterUnsigned, EnterSigned
<1>2. /\ Length(call.fn) \in Lengths /\ XLEN \in Nat /\ XLEN >= 1
      /\ a \in Numbers(Length(call.fn)) /\ b \in Numbers(Length(call.fn))
  BY <1>1, Typed DEF MulDivAssumption
<1>3. /\ Length(call.fn)' = Length(call.fn) /\ Modulus' = Modulus
      /\ Dividend' = Dividend /\ Divisor' = Divisor
      /\ Value(call.x)' = Value(call.x) /\ Value(call.y)' = Value(call.y)
  BY <1>1, SameCall
<1>4. /\ a' \in Numbers(Length(call.fn)) /\ Unsigned(a') = Dividend
      /\ b' \in Numbers(Length(call.fn)) /\ Unsigned(b') = Divisor
      /\ sign' \in BOOLEAN
  <2>1. CASE call.fn \notin Signed
    <3>1. a' = a /\ b' = b /\ sign' = sign
      BY <2>1 DEF EnterUnsigned
    <3>2. Unsigned(a) = Dividend /\ Unsigned(b) = Divisor
      BY <1>1, <1>2, <2>1, ArgumentValue DEF Dividend, Divisor
    <3> QED BY <1>1, <1>2, <3>1, <3>2 DEF MulDivTypes
  <2>2. CASE call.fn \in Signed
    <3>1. a' = Magnitude(a) /\ b' = Magnitude(b) /\ sign' \in BOOLEAN
      <4>1. \/ EnterSigned(Negative(a) # Negative(b))
            \/ EnterSigned(Negative(a))
        BY <2>2
      <4>2. Negative(a) \in BOOLEAN
        BY DEF Negative
      <4> QED BY <4>1, <4>2 DEF EnterSigned
    <3>2. /\ Magnitude(a) \in Numbers(Length(call.fn))
          /\ Magnitude(b) \in Numbers(Length(call.fn))
          /\ Unsigned(Magnitude(a)) = Abs(Integer(a))
          /\ Unsigned(Magnitude(b)) = Abs(Integer(b))
      BY <1>2, IntegerValue
    <3>3. Dividend = Abs(Integer(a)) /\ Divisor = Abs(Integer(b))
      BY <1>1, <2>2 DEF Dividend, Divisor, Value
    <3> QED BY <3>1, <3>2, <3>3
  <2> QED BY <2>1, <2>2
<1>5. Dividend \in Nat /\ Divisor \in Nat /\ Divisor >= 1
  BY <1>1, <1>2, ArgumentValue DEF Dividend, Divisor
<1>6. /\ call.fn \in Signed \cap Quotients =>
           sign' = ((Value(call.x) < 0) # (Value(call.y) < 0))
      /\ call.fn \in Signed \cap Remainders => sign' = (Value(call.x) < 0)
  <2>1. CASE call.fn \in Signed
    <3>1. Value(call.x) = Integer(a) /\ Value(call.y) = Integer(b)
      BY <1>1, <2>1 DEF Value
    <3>2. /\ Negative(a) = (Integer(a) < 0)
          /\ Negative(b) = (Integer(b) < 0)
      <4>1. /\ Negative(a) <=> Integer(a) < 0
            /\ Negative(b) <=> Integer(b) < 0
        BY <1>2, IntegerValue
      <4> QED BY <4>1 DEF Negative
    <3>3. call.fn \in Quotients => call.fn \notin Remainders
      BY DEF Quotients, Remainders
    <3>4. /\ call.fn \in Quotients => sign' = (Negative(a) # Negative(b))
          /\ call.fn \in Remainders => sign' = Negative(a)
      BY <2>1, <3>3 DEF EnterSigned
    <3> QED BY <3>1, <3>2, <3>4
  <2> QED BY <2>1
<1>7. MulDivTypes'
  BY <1>1, <1>4 DEF MulDivTypes
<1>8. 2^count = 1
  BY <1>1 DEF MulDivAssumption, PowersOfTwo
<1>9. Aligned'
  <2>1. Divisor * 2^count = Unsigned(b') /\ 0 < Length(call.fn) * XLEN
    BY <1>2, <1>4, <1>5, <1>8 DEF Lengths
  <2>2. Unsigned(b)' = Unsigned(b')
    BY DEF Unsigned
  <2> QED BY <1>1, <1>3, <1>5, <1>6, <2>1, <2>2 DEF Aligned
<1>10. QuotientSoFar'
  <2>1. Dividend = 0 * Divisor + Unsigned(a')
    BY <1>4, <1>5
  <2>2. Unsigned(a)' = Unsigned(a') /\ Unsigned(quot)' = 0
    BY <1>1 DEF Unsigned
  <2> QED BY <1>1, <1>3, <2>1, <2>2 DEF QuotientSoFar
<1>11. RemainderSoFar'
  <2>1. Unsigned(a)' = Unsigned(a')
    BY DEF Unsigned
  <2> QED BY <1>3, <1>4, <2>1 DEF RemainderSoFar
<1> QED
  BY <1>1, <1>7, <1>9, <1>10, <1>11 DEF MulDivInv, Entered, Reduced, ProductSoFar,
     ResultRight

\* The facts of a division that its steps start from.
LEMMA DivisionFacts ==
  ASSUME MulDivAssumption, MulDivInv, Dividing
  PROVE  /\ call.fn \notin Products
         /\ Dividend \in Nat /\ Divisor \in Nat /\ Divisor >= 1
         /\ count < Length(call.fn) * XLEN
         /\ 2^count \in Nat /\ 2^count >= 1
         /\ Unsigned(b) = Divisor * 2^count
         /\ Unsigned(a) \in Nat /\ Unsigned(b) \in Nat /\ Unsigned(quot) \in Nat
         /\ Unsigned(b) < Modulus
<1>1. MulDivTypes
  BY DEF MulDivInv
<1>2. /\ Unsigned(a) \in Nat /\ Unsigned(b) \in Nat /\ Unsigned(quot) \in Nat
      /\ Unsigned(b) < Modulus
  BY <1>1, Typed, UnsignedValue DEF Modulus
<1>3. Dividend \in Nat /\ Divisor \in Nat
  BY <1>1, Typed, ArgumentValue DEF Dividend, Divisor
<1>4. 2^count \in Nat /\ 2^count >= 1
  BY <1>1, Typed, Powers
<1> QED BY <1>2, <1>3, <1>4 DEF MulDivInv, Aligned

\* Shifting the divisor to the left: its top bit is clear, so nothing of it is
\* lost and the shift stays within the register.
LEMMA AlignShiftStep ==
  ASSUME MulDivAssumption, MulDivInv, AlignShift
  PROVE  MulDivInv'
<1> DEFINE L == Length(call.fn)
<1>1. /\ label = "align" /\ label' = "align" /\ Dividing /\ ~Negative(b)
      /\ b' = ShiftLeft(b) /\ count' = count + 1
      /\ UNCHANGED <<call, a, quot, mask, sign>>
  BY DEF AlignShift, Dividing
<1>2. MulDivTypes /\ L \in Lengths /\ XLEN \in Nat /\ count \in Nat /\ count \in Exponents
  BY Typed DEF MulDivInv
<1>3. /\ L' = L /\ Modulus' = Modulus /\ Dividend' = Dividend /\ Divisor' = Divisor
      /\ Value(call.x)' = Value(call.x) /\ Value(call.y)' = Value(call.y)
  BY <1>1, SameCall
<1>4. /\ Divisor \in Nat /\ Divisor >= 1 /\ count < L * XLEN
      /\ Unsigned(b) = Divisor * 2^count /\ Unsigned(b) \in Nat
  BY <1>1, DivisionFacts
<1>5. b' \in Numbers(L) /\ Unsigned(b') = 2 * Unsigned(b) /\ 2 * Unsigned(b) < Modulus
  <2>1. b \in Numbers(L) /\ Modulus \in Nat
    BY <1>2, Typed
  <2>2. ~(2 * Unsigned(b) >= Modulus)
    BY <1>1, <1>2, <2>1, ZeroAndNegative DEF Modulus
  <2>3. ShiftLeft(b) \in Numbers(L) /\ Unsigned(ShiftLeft(b)) = 2 * Unsigned(b) - 0
    BY <1>1, <1>2, <2>1, Doubled
  <2> QED BY <1>1, <1>4, <2>1, <2>2, <2>3
<1>6. 2^count \in Nat /\ 2^count >= 1 /\ 2^(count + 1) = 2 * 2^count
  BY <1>2, Powers
<1>7. Unsigned(b') = Divisor * 2^(count + 1)
  <2> DEFINE p == 2^count
  <2>1. p \in Nat /\ 2^(count + 1) = 2 * p /\ Unsigned(b') = 2 * (Divisor * p)
    BY <1>4, <1>5, <1>6
  <2> HIDE DEF p
  <2> QED BY <1>4, <2>1
<1>8. count + 1 < L * XLEN
  <2>1. L * XLEN \in Nat /\ Modulus = 2^(L * XLEN)
    BY <1>2, SpanIsPower DEF Modulus, Exponents
  <2>2. count + 1 # L * XLEN
    <3> SUFFICES ASSUME count + 1 = L * XLEN PROVE FALSE
      OBVIOUS
    <3> DEFINE m == 2^(count + 1)
    <3>1. m = Modulus /\ m \in Nat
      BY <1>6, <2>1
    <3>2. Divisor * m < m
      BY <1>5, <1>7, <3>1
    <3> HIDE DEF m
    <3>3. Divisor * m >= 1 * m
      BY <1>4, <3>1
    <3> QED BY <1>4, <3>1, <3>2, <3>3
  <2> QED BY <1>2, <1>4, <2>1, <2>2
<1> HIDE DEF L
<1>9. MulDivTypes'
  BY <1>1, <1>2, <1>5, <1>8 DEF MulDivTypes, L, Lengths
<1>10. Unsigned(b)' = Unsigned(b') /\ Unsigned(a)' = Unsigned(a)
       /\ Unsigned(quot)' = Unsigned(quot)
  BY <1>1 DEF Unsigned
<1>11. Aligned'
  <2>1. /\ call.fn \notin Products
        /\ call.fn \in Signed \cap Quotients =>
             sign = ((Value(call.x) < 0) # (Value(call.y) < 0))
        /\ call.fn \in Signed \cap Remainders => sign = (Value(call.x) < 0)
    BY <1>1 DEF MulDivInv, Aligned
  <2> QED BY <1>1, <1>3, <1>4, <1>7, <1>8, <1>10, <2>1 DEF Aligned, L
<1>12. QuotientSoFar'
  BY <1>1, <1>3, <1>10 DEF MulDivInv, QuotientSoFar, Dividing
<1>13. RemainderSoFar'
  BY <1>1, <1>3, <1>10 DEF MulDivInv, RemainderSoFar, Dividing
<1> QED
  BY <1>1, <1>9, <1>11, <1>12, <1>13 DEF MulDivInv, Entered, Reduced, ProductSoFar,
     ResultRight

\* The remaining steps of a division leave the divisor shifted by some count,
\* and the sign alone.
LEMMA StillAligned ==
  ASSUME MulDivAssumption, MulDivInv, Dividing, UNCHANGED <<call, sign>>,
         count' \in Nat, count' < Length(call.fn) * XLEN,
         Unsigned(b)' = Divisor * 2^(count')
  PROVE  Aligned'
<1>1. /\ Length(call.fn)' = Length(call.fn) /\ Divisor' = Divisor
      /\ Value(call.x)' = Value(call.x) /\ Value(call.y)' = Value(call.y)
  BY SameCall
<1>2. /\ call.fn \notin Products /\ Divisor >= 1
      /\ call.fn \in Signed \cap Quotients =>
           sign = ((Value(call.x) < 0) # (Value(call.y) < 0))
      /\ call.fn \in Signed \cap Remainders => sign = (Value(call.x) < 0)
  BY DEF MulDivInv, Aligned
<1> QED BY <1>1, <1>2 DEF Aligned

\* Subtracting a multiple of the divisor leaves the remainder as it was.
LEMMA SameRemainder ==
  ASSUME NEW d \in Nat, d >= 1, NEW p \in Nat, NEW u \in Int,
         NEW v \in Int, v = u - d * p
  PROVE  v % d = u % d
<1> DEFINE k == -p
<1>1. k \in Int /\ v = u + d * k
  OBVIOUS
<1> HIDE DEF k
<1>2. (u + d * k) % d = u % d
  BY <1>1, Congruent
<1> QED BY <1>1, <1>2

\* The divisor cannot be shifted further: the first bit is decided at once,
\* and what is left is below the divisor, whose top bit is set.
LEMMA AlignSubtractStep ==
  ASSUME MulDivAssumption, MulDivInv, AlignSubtract
  PROVE  MulDivInv'
<1> DEFINE L == Length(call.fn)
<1>1. /\ label = "align" /\ label' = "divide" /\ Dividing /\ Negative(b) /\ ~Below(a, b)
      /\ a' = Minus(a, b)
      /\ quot' = (IF call.fn \in Quotients THEN BitAt(count) ELSE quot)
      /\ mask' = (IF call.fn \in Quotients THEN BitAt(count) ELSE mask)
      /\ UNCHANGED <<call, b, count, sign>>
  BY DEF AlignSubtract, Dividing
<1>2. /\ MulDivTypes /\ L \in Lengths /\ count \in Nat
      /\ a \in Numbers(L) /\ b \in Numbers(L)
  BY Typed DEF MulDivInv
<1>3. /\ L' = L /\ Dividend' = Dividend /\ Divisor' = Divisor
  BY <1>1, SameCall
<1>4. /\ Dividend \in Nat /\ Divisor \in Nat /\ Divisor >= 1 /\ count < L * XLEN
      /\ 2^count \in Nat /\ 2^count >= 1
      /\ Unsigned(b) = Divisor * 2^count /\ Unsigned(a) \in Nat /\ Unsigned(b) \in Nat
  BY <1>1, DivisionFacts
<1>5. a' \in Numbers(L) /\ Unsigned(a') = Unsigned(a) - Unsigned(b)
  BY <1>1, <1>2, Difference
<1>6. Unsigned(a') < Unsigned(b)
  <2>1. 2 * Unsigned(b) >= Span(L) /\ Unsigned(a) < Span(L) /\ Span(L) \in Nat
    BY <1>1, <1>2, ZeroAndNegative, UnsignedValue
  <2> QED BY <1>4, <1>5, <2>1
<1>7. BitAt(count) \in Numbers(L) /\ Unsigned(BitAt(count)) = 2^count
  BY <1>2, <1>4, BitValue
<1>8. Unsigned(b)' = Unsigned(b) /\ Unsigned(a)' = Unsigned(a')
      /\ Unsigned(quot)' = Unsigned(quot')
  BY <1>1 DEF Unsigned
<1>9. MulDivTypes'
  <2>1. quot' \in Numbers(L) /\ mask' \in Numbers(L)
    BY <1>1, <1>2, <1>7 DEF MulDivTypes
  <2> QED BY <1>1, <1>2, <1>5, <2>1 DEF MulDivTypes
<1>10. Aligned'
  BY <1>1, <1>2, <1>4, <1>8, StillAligned
<1>11. QuotientSoFar'
  <2> SUFFICES ASSUME call.fn \in Quotients PROVE QuotientSoFar'
    BY <1>1 DEF QuotientSoFar
  <2>1. Unsigned(quot) = 0 /\ Dividend = Unsigned(quot) * Divisor + Unsigned(a)
    BY <1>1 DEF MulDivInv, QuotientSoFar
  <2>2. Unsigned(quot') = 2^count
    BY <1>1, <1>7
  <2>3. Dividend = Unsigned(quot') * Divisor + Unsigned(a')
    <3> DEFINE p == 2^count
    <3>1. /\ p \in Nat /\ Unsigned(b) = Divisor * p /\ Unsigned(quot') = p
          /\ Unsigned(a') = Unsigned(a) - Divisor * p
      BY <1>4, <1>5, <2>2
    <3> HIDE DEF p
    <3>2. Dividend = Unsigned(a) /\ p * Divisor = Divisor * p /\ Divisor * p \in Nat
      BY <1>4, <2>1, <3>1
    <3> QED BY <1>4, <3>1, <3>2
  <2>4. (2^count) % (2^count) = 0
    <3> DEFINE p == 2^count
    <3>1. p \in Nat /\ p >= 1
      BY <1>4
    <3> HIDE DEF p
    <3>2. p = p * 1 + 0
      BY <3>1
    <3>3. p % p = 0
      BY <3>1, <3>2, Division
    <3> QED BY <3>3 DEF p
  <2>5. mask' = BitAt(count)' /\ (2^count)' = 2^count
    BY <1>1 DEF BitAt, Length
  <2> QED BY <1>1, <1>3, <1>8, <2>2, <2>3, <2>4, <2>5 DEF QuotientSoFar
<1>12. RemainderSoFar'
  <2> SUFFICES ASSUME call.fn \in Remainders PROVE RemainderSoFar'
    BY <1>1 DEF RemainderSoFar
  <2>1. Dividend % Divisor = Unsigned(a) % Divisor
    BY <1>1 DEF MulDivInv, RemainderSoFar
  <2>2. Unsigned(a') % Divisor = Unsigned(a) % Divisor
    <3> DEFINE p == 2^count
    <3>1. /\ p \in Nat /\ Unsigned(a') = Unsigned(a) - Divisor * p
          /\ Unsigned(a) \in Int /\ Unsigned(a') \in Int
      BY <1>4, <1>5
    <3> HIDE DEF p
    <3> QED BY <1>4, <3>1, SameRemainder
  <2> QED BY <1>3, <1>8, <2>1, <2>2 DEF RemainderSoFar
<1> QED
  BY <1>1, <1>6, <1>8, <1>9, <1>10, <1>11, <1>12 DEF MulDivInv, Entered, Reduced,
     ProductSoFar, ResultRight

\* The divisor is above what is left: the division begins.
LEMMA AlignDoneStep ==
  ASSUME MulDivAssumption, MulDivInv, AlignDone
  PROVE  MulDivInv'
<1> DEFINE L == Length(call.fn)
<1>1. /\ label = "align" /\ label' = "divide" /\ Dividing /\ Below(a, b)
      /\ mask' = (IF call.fn \in Quotients THEN BitAt(count) ELSE mask)
      /\ UNCHANGED <<call, a, b, quot, count, sign>>
  BY DEF AlignDone, Dividing
<1>2. /\ MulDivTypes /\ L \in Lengths /\ count \in Nat
      /\ a \in Numbers(L) /\ b \in Numbers(L)
  BY Typed DEF MulDivInv
<1>3. /\ L' = L /\ Dividend' = Dividend /\ Divisor' = Divisor
  BY <1>1, SameCall
<1>4. /\ count < L * XLEN /\ 2^count \in Nat /\ 2^count >= 1
      /\ Unsigned(b) = Divisor * 2^count
  BY <1>1, DivisionFacts
<1>5. Unsigned(b)' = Unsigned(b) /\ Unsigned(a)' = Unsigned(a)
      /\ Unsigned(quot)' = Unsigned(quot)
  BY <1>1 DEF Unsigned
<1>6. MulDivTypes'
  <2>1. BitAt(count) \in Numbers(L)
    BY <1>2, <1>4, BitValue
  <2>2. mask' \in Numbers(L)
    BY <1>1, <1>2, <2>1 DEF MulDivTypes
  <2> QED BY <1>1, <1>2, <2>2 DEF MulDivTypes
<1>7. Aligned'
  BY <1>1, <1>2, <1>4, <1>5, StillAligned
<1>8. QuotientSoFar'
  <2> SUFFICES ASSUME call.fn \in Quotients PROVE QuotientSoFar'
    BY <1>1 DEF QuotientSoFar
  <2>1. Unsigned(quot) = 0 /\ Dividend = Unsigned(quot) * Divisor + Unsigned(a)
    BY <1>1 DEF MulDivInv, QuotientSoFar
  <2>2. 0 % (2^count) = 0
    <3> DEFINE p == 2^count
    <3>1. p \in Nat /\ p >= 1
      BY <1>4
    <3> HIDE DEF p
    <3>2. 0 % p = 0
      BY <3>1, Wraps
    <3> QED BY <3>2 DEF p
  <2>3. mask' = BitAt(count)' /\ (2^count)' = 2^count
    BY <1>1 DEF BitAt, Length
  <2> QED BY <1>1, <1>3, <1>5, <2>1, <2>2, <2>3 DEF QuotientSoFar
<1>9. RemainderSoFar'
  BY <1>1, <1>3, <1>5 DEF MulDivInv, RemainderSoFar, Dividing
<1>10. Unsigned(a) < Unsigned(b)
  BY <1>1, <1>2, BelowIsLess
<1> QED
  BY <1>1, <1>5, <1>6, <1>7, <1>8, <1>9, <1>10 DEF MulDivInv, Entered, Reduced,
     ProductSoFar, ResultRight

\* A pass of the long division, which goes on with the next pass or, in two
\* routines, with the alignment.
LEMMA DivideStep ==
  ASSUME MulDivAssumption, MulDivInv, NEW back, Divide(back),
         back = "divide" \/ (back = "align" /\ call.fn \in Remainders)
  PROVE  MulDivInv'
<1> DEFINE L == Length(call.fn)
           e == count - 1
<1>1. /\ label = "divide" /\ label' = back /\ Dividing /\ count # 0
      /\ b' = ShiftRight(b) /\ count' = e /\ mask' = ShiftRight(mask)
      /\ UNCHANGED <<call, sign>>
  BY DEF Divide, Dividing
<1>2. /\ MulDivTypes /\ L \in Lengths /\ count \in Nat /\ XLEN \in Nat
      /\ a \in Numbers(L) /\ b \in Numbers(L) /\ quot \in Numbers(L) /\ mask \in Numbers(L)
  BY Typed DEF MulDivInv
<1>3. /\ L' = L /\ Dividend' = Dividend /\ Divisor' = Divisor
  BY <1>1, SameCall
<1>4. /\ Dividend \in Nat /\ Divisor \in Nat /\ Divisor >= 1 /\ count < L * XLEN
      /\ Unsigned(b) = Divisor * 2^count
      /\ Unsigned(a) \in Nat /\ Unsigned(b) \in Nat /\ Unsigned(quot) \in Nat
  BY <1>1, DivisionFacts
<1>5. e \in Nat /\ e < L * XLEN /\ count = e + 1
  BY <1>1, <1>2, <1>4 DEF Lengths
<1>A. /\ e \in 0..(L * XLEN) /\ back \in {"align", "divide"}
       /\ call' = call /\ sign' = sign /\ call.fn \in Routines /\ sign \in BOOLEAN
  BY <1>1, <1>2, <1>5 DEF MulDivTypes, Lengths
<1> HIDE DEF L, e
<1>6. 2^e \in Nat /\ 2^e >= 1 /\ 2^(e + 1) = 2 * 2^e
  <2>1. e \in Exponents
    BY <1>5, BitWords DEF L
  <2> QED BY <2>1, Powers
<1>7. b' \in Numbers(L) /\ mask' \in Numbers(L)
  BY <1>1, <1>2, Halved
<1>8. Unsigned(b') = Divisor * 2^e /\ Unsigned(b) = 2 * Unsigned(b') /\ Unsigned(b') \in Nat
  <2> DEFINE p == 2^e
             m == Divisor * p
             odd == b[1] % 2
             u == Unsigned(b')
  <2>1. odd \in {0, 1} /\ Unsigned(b) = 2 * u + odd /\ u \in Nat
    BY <1>1, <1>2, <1>7, Halved, UnsignedValue
  <2>2. m \in Nat /\ Unsigned(b) = 2 * m
    <3>1. p \in Nat /\ 2^count = 2 * p
      BY <1>5, <1>6
    <3> HIDE DEF p
    <3>2. Divisor * (2 * p) = 2 * (Divisor * p)
      BY <1>4, <3>1
    <3> QED BY <1>4, <3>1, <3>2
  <2> HIDE DEF m, odd, u
  <2>3. u = m /\ Unsigned(b) = 2 * u
    BY <2>1, <2>2
  <2> QED BY <2>1, <2>3 DEF m, u
<1>9. Unsigned(a) < Unsigned(b)
  BY <1>1 DEF MulDivInv, Reduced
<1>10. Unsigned(b)' = Unsigned(b') /\ Unsigned(a)' = Unsigned(a')
       /\ Unsigned(quot)' = Unsigned(quot')
  BY DEF Unsigned
<1>11. Aligned'
  BY <1>1, <1>5, <1>8, <1>10, StillAligned DEF L
\* The quotient of a quotient routine, and the bit that this pass decides.
<1>12. ASSUME call.fn \in Quotients
       PROVE  /\ mask' = BitAt(e)
              /\ Dividend = Unsigned(quot) * Divisor + Unsigned(a)
              /\ \E q \in Nat : Unsigned(quot) = q * 2^(e + 1)
  <2>1. /\ mask = BitAt(count) /\ Unsigned(quot) % (2^count) = 0
        /\ Dividend = Unsigned(quot) * Divisor + Unsigned(a)
    BY <1>1, <1>12 DEF MulDivInv, QuotientSoFar
  <2>2. mask' = BitAt(e)
    <3>1. count - 1 = e /\ count >= 1
      BY <1>5
    <3>2. ShiftRight(BitAt(count)) = BitAt(count - 1)
      BY <1>2, <1>4, <3>1, NextBit DEF L
    <3> QED BY <1>1, <2>1, <3>1, <3>2
  <2>3. \E q \in Nat : Unsigned(quot) = q * 2^(e + 1)
    <3> DEFINE p == 2^(e + 1)
               u == Unsigned(quot)
               q == u \div p
    <3>1. p \in Nat /\ p >= 1 /\ u \in Nat /\ u % p = 0
      BY <1>4, <1>5, <1>6, <2>1
    <3> HIDE DEF p, u
    <3>2. q \in Nat /\ u = p * q + (u % p)
      BY <3>1, Divided
    <3> HIDE DEF q
    <3>3. u = q * p
      BY <3>1, <3>2
    <3> QED BY <3>2, <3>3 DEF p, u
  <2> QED BY <2>1, <2>2, <2>3
\* Whether the divisor was subtracted or not, what is left is below it.
<1>13. CASE Below(a, b')
  <2>1. a' = a /\ quot' = quot
    BY <1>13 DEF Divide
  <2>2. MulDivTypes'
    BY <1>1, <1>2, <1>A, <1>7, <2>1 DEF MulDivTypes, L
  <2>3. Unsigned(a') < Unsigned(b')
    BY <1>2, <1>7, <1>13, <2>1, BelowIsLess
  <2>4. QuotientSoFar'
    <3> SUFFICES ASSUME call.fn \in Quotients PROVE QuotientSoFar'
      BY <1>1 DEF QuotientSoFar
    <3>1. PICK q \in Nat : Unsigned(quot) = q * 2^(e + 1)
      BY <1>12
    <3>2. Unsigned(quot) % (2^e) = 0
      <4> DEFINE p == 2^e
                 u == Unsigned(quot)
      <4>1. p \in Nat /\ p >= 1 /\ u \in Nat /\ u = q * (2 * p)
        BY <1>4, <1>6, <3>1
      <4> HIDE DEF p, u
      <4>2. u = p * (2 * q) + 0
        BY <4>1
      <4>3. u % p = 0
        BY <4>1, <4>2, Division
      <4> QED BY <4>3 DEF p, u
    <3>3. mask' = BitAt(count)' /\ (2^count)' = 2^e /\ label' = "divide"
      <4>1. BitAt(count)' = BitAt(e)
        BY <1>1 DEF BitAt, Length
      <4>2. label' = "divide"
        BY <1>1 DEF Quotients, Remainders
      <4> QED BY <1>1, <1>12, <4>1, <4>2
    <3> QED BY <1>3, <1>10, <1>12, <2>1, <3>2, <3>3 DEF QuotientSoFar
  <2>5. RemainderSoFar'
    BY <1>1, <1>3, <1>10, <2>1 DEF MulDivInv, RemainderSoFar
  <2> QED
    BY <1>1, <1>10, <1>11, <2>2, <2>3, <2>4, <2>5 DEF MulDivInv, Entered, Reduced,
       ProductSoFar, ResultRight
<1>14. CASE ~Below(a, b')
  <2>1. /\ a' = Minus(a, b')
        /\ quot' = (IF call.fn \in Quotients THEN WithBit(quot, mask') ELSE quot)
    BY <1>14 DEF Divide
  <2>2. a' \in Numbers(L) /\ Unsigned(a') = Unsigned(a) - Unsigned(b')
    BY <1>2, <1>7, <1>14, <2>1, Difference
  <2>3. Unsigned(a') < Unsigned(b')
    BY <1>4, <1>8, <1>9, <2>2
  <2>4. ASSUME call.fn \in Quotients
        PROVE  quot' \in Numbers(L) /\ Unsigned(quot') = Unsigned(quot) + 2^e
    <3>1. PICK q \in Nat : Unsigned(quot) = q * 2^(e + 1)
      BY <1>12, <2>4
    <3>2. quot' = WithBit(quot, BitAt(e))
      BY <1>12, <2>1, <2>4
    <3> QED BY <1>2, <1>5, <3>1, <3>2, BitSet DEF L
  <2>5. MulDivTypes'
    <3>1. quot' \in Numbers(L)
      BY <1>2, <2>1, <2>4
    <3> QED BY <1>1, <1>2, <1>A, <1>7, <2>2, <3>1 DEF MulDivTypes, L
  <2>6. QuotientSoFar'
    <3> SUFFICES ASSUME call.fn \in Quotients PROVE QuotientSoFar'
      BY <1>1 DEF QuotientSoFar
    <3>1. PICK q \in Nat : Unsigned(quot) = q * 2^(e + 1)
      BY <1>12
    <3> DEFINE p == 2^e
               u == Unsigned(quot)
               v == Unsigned(quot')
    <3>2. /\ p \in Nat /\ p >= 1 /\ u \in Nat /\ u = q * (2 * p) /\ v = u + p
          /\ Dividend = u * Divisor + Unsigned(a)
          /\ Unsigned(a') = Unsigned(a) - Divisor * p
      BY <1>4, <1>6, <1>8, <1>12, <2>2, <2>4, <3>1
    <3>3. mask' = BitAt(count)' /\ (2^count)' = p /\ label' = "divide"
      <4>1. BitAt(count)' = BitAt(e)
        BY <1>1 DEF BitAt, Length
      <4>2. label' = "divide"
        BY <1>1 DEF Quotients, Remainders
      <4> QED BY <1>1, <1>12, <4>1, <4>2
    <3> HIDE DEF p, u, v
    <3>4. Dividend = v * Divisor + Unsigned(a')
      <4>1. v * Divisor = u * Divisor + Divisor * p
        BY <1>4, <3>2
      <4>2. u * Divisor \in Int /\ Divisor * p \in Int
        BY <1>4, <3>2
      <4> QED BY <1>4, <3>2, <4>1, <4>2
    <3>5. v % p = 0
      <4>1. v = p * (2 * q + 1) + 0 /\ v \in Int
        BY <3>2
      <4> QED BY <3>2, <4>1, Division
    <3> QED BY <1>3, <1>10, <3>3, <3>4, <3>5 DEF QuotientSoFar, v
  <2>7. RemainderSoFar'
    <3> SUFFICES ASSUME call.fn \in Remainders PROVE RemainderSoFar'
      BY <1>1 DEF RemainderSoFar
    <3>1. Dividend % Divisor = Unsigned(a) % Divisor
      BY <1>1 DEF MulDivInv, RemainderSoFar
    <3>2. Unsigned(a') % Divisor = Unsigned(a) % Divisor
      <4> DEFINE p == 2^e
      <4>1. /\ p \in Nat /\ Unsigned(a') = Unsigned(a) - Divisor * p
            /\ Unsigned(a) \in Int /\ Unsigned(a') \in Int
        BY <1>4, <1>6, <1>8, <2>2
      <4> HIDE DEF p
      <4> QED BY <1>4, <4>1, SameRemainder
    <3> QED BY <1>3, <1>10, <3>1, <3>2 DEF RemainderSoFar
  <2> QED
    BY <1>1, <1>10, <1>11, <2>3, <2>5, <2>6, <2>7 DEF MulDivInv, Entered, Reduced,
       ProductSoFar, ResultRight
<1> QED BY <1>13, <1>14

\* The number that stands for minus the value of another.
LEMMA NegatedValue ==
  ASSUME MulDivAssumption, NEW L \in Lengths, NEW n \in Numbers(L)
  PROVE  Negate(n) \in Numbers(L) /\ Unsigned(Negate(n)) = (-Unsigned(n)) % Span(L)
<1> DEFINE u == Unsigned(n)
           s == Span(L)
           m == -u
<1>1. u \in Nat /\ u < s /\ s \in Nat /\ s >= 2
  BY UnsignedValue
<1>2. Negate(n) \in Numbers(L) /\ Unsigned(Negate(n)) = IF u = 0 THEN 0 ELSE s - u
  BY Negated
<1> HIDE DEF u, s
<1>3. m \in Int /\ (u = 0 => m = 0) /\ (u # 0 => -s <= m /\ m < 0 /\ m + s = s - u)
  BY <1>1
<1> HIDE DEF m
<1>4. m % s = IF u = 0 THEN 0 ELSE s - u
  <2>1. CASE u = 0
    <3>1. m % s = m
      BY <1>1, <1>3, <2>1, Wraps
    <3> QED BY <1>3, <2>1, <3>1
  <2>2. CASE u # 0
    <3>1. m % s = m + s
      BY <1>1, <1>3, <2>2, Wraps
    <3> QED BY <1>3, <2>2, <3>1
  <2> QED BY <2>1, <2>2
<1> QED BY <1>2, <1>4 DEF u, s, m

\* A number with the sign that was set aside.
LEMMA FixedSign ==
  ASSUME MulDivAssumption, MulDivTypes, NEW n \in Numbers(Length(call.fn)),
         NEW i \in Int, i = IF sign THEN -Unsigned(n) ELSE Unsigned(n)
  PROVE  /\ FixSign(n) \in Numbers(Length(call.fn))
         /\ Unsigned(FixSign(n)) = i % Modulus
<1>1. Length(call.fn) \in Lengths
  BY Typed
<1>2. CASE sign
  <2>1. FixSign(n) = Negate(n) /\ i = -Unsigned(n)
    BY <1>2 DEF FixSign
  <2> QED BY <1>1, <2>1, NegatedValue DEF Modulus
<1>3. CASE ~sign
  <2>1. FixSign(n) = n /\ i = Unsigned(n)
    BY <1>3 DEF FixSign
  <2>2. Unsigned(n) % Modulus = Unsigned(n)
    <3>1. Unsigned(n) \in Nat /\ Unsigned(n) < Modulus /\ Modulus \in Nat
      BY <1>1, UnsignedValue DEF Modulus
    <3> QED BY <3>1, Wraps
  <2> QED BY <2>1, <2>2
<1> QED BY <1>2, <1>3

\* The end of a division: the quotient is whole and what is left is below the
\* divisor.
LEMMA FinishStep ==
  ASSUME MulDivAssumption, MulDivInv, Dividing,
         \/ call.fn \in Quotients \cap Signed /\ Finish(FixSign(quot))
         \/ call.fn \in Quotients \ Signed /\ Finish(quot)
         \/ call.fn \in Remainders \cap Signed /\ Finish(FixSign(a))
         \/ call.fn \in Remainders \ Signed /\ Finish(a)
  PROVE  MulDivInv'
<1> DEFINE L == Length(call.fn)
           result == IF call.fn \in Quotients THEN quot ELSE a
           u == Unsigned(result)
           i == Value(call.x)
           j == Value(call.y)
<1>1. MulDivTypes /\ L \in Lengths /\ quot \in Numbers(L) /\ a \in Numbers(L)
  BY Typed DEF MulDivInv
<1>2. label = "divide" /\ count = 0
  BY DEF Finish
<1>3. /\ call.fn \notin Products /\ Dividend \in Nat /\ Divisor \in Nat /\ Divisor >= 1
      /\ Unsigned(b) = Divisor
      /\ Unsigned(a) \in Nat /\ Unsigned(quot) \in Nat /\ Unsigned(a) < Divisor
  <2>1. 2^count = 1
    BY <1>2 DEF MulDivAssumption, PowersOfTwo
  <2>2. Unsigned(a) < Unsigned(b)
    BY <1>2 DEF MulDivInv, Reduced
  <2> QED BY <2>1, <2>2, DivisionFacts
<1>4. call.fn \in Quotients => call.fn \notin Remainders
  BY DEF Quotients, Remainders
\* The magnitude of the result.
<1>5. /\ call.fn \in Quotients => u = Abs(i) \div Abs(j)
      /\ call.fn \in Remainders => u = Abs(i) % Abs(j)
  <2>1. CASE call.fn \in Quotients
    <3>1. Dividend = Unsigned(quot) * Divisor + Unsigned(a)
      BY <1>2, <2>1 DEF MulDivInv, QuotientSoFar, Dividing
    <3>2. Dividend = Divisor * Unsigned(quot) + Unsigned(a)
      BY <1>3, <3>1
    <3>3. Dividend \div Divisor = Unsigned(quot)
      <4> DEFINE q == Unsigned(quot)
                 l == Unsigned(a)
      <4>1. q \in Int /\ l \in Nat /\ l < Divisor /\ Dividend = Divisor * q + l
        BY <1>3, <3>2
      <4> HIDE DEF q, l
      <4>2. Dividend \in Int /\ Divisor \in Nat
        BY <1>3
      <4>3. Dividend \div Divisor = q
        BY <4>1, <4>2, Division
      <4> QED BY <4>3 DEF q
    <3> QED BY <1>4, <2>1, <3>3 DEF Dividend, Divisor
  <2>2. CASE call.fn \in Remainders
    <3>1. Dividend % Divisor = Unsigned(a) % Divisor
      BY <1>2, <2>2 DEF MulDivInv, RemainderSoFar, Dividing
    <3>2. Unsigned(a) % Divisor = Unsigned(a)
      BY <1>3, Wraps
    <3> QED BY <1>4, <2>2, <3>1, <3>2 DEF Dividend, Divisor
  <2> QED BY <2>1, <2>2
<1>6. /\ i \in Int /\ j \in Int /\ j # 0
      /\ call.fn \notin Signed => 0 <= i /\ 0 <= j
  <2>1. call.x \in Numbers(L) /\ call.y \in Numbers(L)
    BY <1>1, Typed
  <2>2. i \in Int /\ j \in Int
    BY <1>1, <2>1, ArgumentValue
  <2>3. j # 0
    BY <1>3 DEF Divisor, Abs
  <2>4. call.fn \notin Signed => i = Unsigned(call.x) /\ j = Unsigned(call.y)
    BY <1>1, <2>1, ArgumentValue
  <2>5. Unsigned(call.x) \in Nat /\ Unsigned(call.y) \in Nat
    BY <1>1, <2>1, UnsignedValue
  <2> QED BY <2>2, <2>3, <2>4, <2>5
<1>7. /\ call.fn \in Signed \cap Quotients => sign = ((i < 0) # (j < 0))
      /\ call.fn \in Signed \cap Remainders => sign = (i < 0)
  BY DEF MulDivInv, Aligned
<1>8. result \in Numbers(L) /\ u \in Nat
  BY <1>1, <1>3
<1>9. /\ call.fn \in Quotients => Answer = Quotient(i, j)
      /\ call.fn \in Remainders => Answer = Remainder(i, j)
  BY <1>1, <1>6, Answers
<1> HIDE DEF L, result, u, i, j
<1>10. CASE call.fn \in Signed
  <2>1. Answer = IF sign THEN -u ELSE u
    <3>1. CASE call.fn \in Quotients
      <4>1. Answer = IF (i < 0) = (j < 0) THEN u ELSE -u
        BY <1>5, <1>9, <3>1 DEF Quotient
      <4>2. sign = ((i < 0) # (j < 0))
        BY <1>7, <1>10, <3>1
      <4> QED BY <4>1, <4>2
    <3>2. CASE call.fn \in Remainders
      <4>1. Answer = IF i < 0 THEN -u ELSE u
        BY <1>5, <1>9, <3>2 DEF Remainder
      <4>2. sign = (i < 0)
        BY <1>7, <1>10, <3>2
      <4> QED BY <4>1, <4>2
    <3> QED BY <3>1, <3>2
  <2>2. Answer \in Int
    BY <1>8, <2>1
  <2>3. /\ FixSign(result) \in Numbers(L)
        /\ Unsigned(FixSign(result)) = Answer % Modulus
    BY <1>1, <1>8, <2>1, <2>2, FixedSign DEF L, u
  <2>4. Return(FixSign(result))
    BY <1>4, <1>10 DEF Finish, result
  <2> QED BY <2>3, <2>4, ReturnStep DEF L
<1>11. CASE call.fn \notin Signed
  <2>1. Answer = u
    <3>1. (i < 0) = FALSE /\ (j < 0) = FALSE
      BY <1>6, <1>11
    <3>2. CASE call.fn \in Quotients
      BY <1>5, <1>9, <3>1, <3>2 DEF Quotient
    <3>3. CASE call.fn \in Remainders
      BY <1>5, <1>9, <3>1, <3>3 DEF Remainder
    <3> QED BY <3>2, <3>3
  <2>2. u % Modulus = u
    <3>1. u < Modulus /\ Modulus \in Nat
      BY <1>1, <1>8, UnsignedValue DEF u, L, Modulus
    <3> QED BY <1>8, <3>1, Wraps
  <2>3. Return(result)
    BY <1>4, <1>11 DEF Finish, result
  <2> QED BY <1>8, <2>1, <2>2, <2>3, ReturnStep DEF L, u
<1> QED BY <1>10, <1>11

\* Beginning a multiplication.
LEMMA EnterMultiplyStep ==
  ASSUME MulDivAssumption, MulDivInv, call.fn \in Products,
         NEW bits, bits = Length(call.fn) * XLEN, EnterMultiply(bits)
  PROVE  MulDivInv'
<1> DEFINE L == Length(call.fn)
<1>1. /\ label = "entry" /\ label' = "multiply" /\ count' = bits
      /\ UNCHANGED <<call, a, b, quot, mask, sign>>
  BY DEF EnterMultiply
<1>2. MulDivTypes /\ L \in Lengths /\ a \in Numbers(L) /\ b \in Numbers(L)
  BY Typed DEF MulDivInv
<1>3. a = call.x /\ b = call.y /\ Unsigned(quot) = 0
  BY <1>1 DEF MulDivInv, Entered
<1>4. bits \in 0..(L * XLEN) /\ Unsigned(a) < 2^bits
  <2>1. L * XLEN \in Nat /\ Span(L) = 2^(L * XLEN)
    BY <1>2, SpanIsPower DEF Exponents
  <2>2. Unsigned(a) < Span(L)
    BY <1>2, UnsignedValue
  <2> QED BY <2>1, <2>2
<1>5. MulDivTypes'
  BY <1>1, <1>2, <1>4 DEF MulDivTypes
<1>6. ProductSoFar'
  <2>1. Unsigned(quot) + Unsigned(a) * Unsigned(b) = Unsigned(call.x) * Unsigned(call.y)
    <3>1. Unsigned(a) \in Nat /\ Unsigned(b) \in Nat
      BY <1>2, UnsignedValue
    <3> DEFINE p == Unsigned(a) * Unsigned(b)
    <3>2. p \in Nat
      BY <3>1
    <3> HIDE DEF p
    <3>3. Unsigned(quot) + p = p
      BY <1>3, <3>2
    <3> QED BY <1>3, <3>3 DEF p
  <2>2. Unsigned(quot)' = Unsigned(quot) /\ Unsigned(a)' = Unsigned(a)
        /\ Unsigned(b)' = Unsigned(b) /\ Modulus' = Modulus
        /\ Unsigned(call.x)' = Unsigned(call.x) /\ Unsigned(call.y)' = Unsigned(call.y)
        /\ (2^count)' = 2^bits
    BY <1>1, SameCall DEF Unsigned
  <2> QED BY <1>1, <1>4, <2>1, <2>2 DEF ProductSoFar
<1> QED
  BY <1>1, <1>5, <1>6 DEF MulDivInv, Entered, Dividing, Aligned, QuotientSoFar,
     RemainderSoFar, Reduced, ResultRight

\* A pass of the multiplication: whatever falls out of the registers is a
\* multiple of the modulus.
LEMMA MultiplyStep ==
  ASSUME MulDivAssumption, MulDivInv, Multiply
  PROVE  MulDivInv'
<1> DEFINE L == Length(call.fn)
           e == count - 1
           odd == a[1] % 2
<1>1. /\ label = "multiply" /\ label' = "multiply" /\ count # 0 /\ count' = e
      /\ a' = ShiftRight(a) /\ b' = ShiftLeft(b)
      /\ quot' = (IF odd = 1 THEN Plus(quot, b) ELSE quot)
      /\ UNCHANGED <<call, mask, sign>>
  BY DEF Multiply
<1>2. /\ MulDivTypes /\ L \in Lengths /\ count \in Nat /\ count \in Exponents
      /\ a \in Numbers(L) /\ b \in Numbers(L) /\ quot \in Numbers(L)
      /\ Modulus \in Nat /\ Modulus >= 2 /\ Modulus = Span(L)
  BY Typed DEF MulDivInv, Modulus
<1>3. e \in Nat /\ count = e + 1 /\ e \in Exponents /\ e \in 0..(L * XLEN)
  <2>1. count \in 0..(L * XLEN) /\ L * XLEN \in Nat /\ XLEN \in Nat
    BY <1>2, SpanIsPower, Typed DEF MulDivTypes, Exponents
  <2> QED BY <1>1, <1>2, <2>1 DEF Exponents
<1>4. /\ call.fn \in Products
      /\ (Unsigned(quot) + Unsigned(a) * Unsigned(b)) % Modulus
           = (Unsigned(call.x) * Unsigned(call.y)) % Modulus
      /\ Unsigned(a) < 2^count
  BY <1>1 DEF MulDivInv, ProductSoFar
<1>5. /\ a' \in Numbers(L) /\ odd \in {0, 1} /\ Unsigned(a) = 2 * Unsigned(a') + odd
      /\ Unsigned(a') \in Nat
  BY <1>1, <1>2, Halved, UnsignedValue
<1> HIDE DEF odd, e
<1>6. PICK k \in {0, 1} : /\ b' \in Numbers(L)
                          /\ Unsigned(b') = 2 * Unsigned(b) - Modulus * k
  <2>1. ShiftLeft(b) \in Numbers(L) /\ Unsigned(ShiftLeft(b)) =
          2 * Unsigned(b) - (IF Negative(b) THEN Modulus ELSE 0)
    BY <1>2, Doubled
  <2>2. CASE Negative(b)
    <3>1. Unsigned(b') = 2 * Unsigned(b) - Modulus * 1
      BY <1>1, <1>2, <2>1, <2>2
    <3> QED BY <1>1, <2>1, <3>1
  <2>3. CASE ~Negative(b)
    <3>1. Unsigned(b') = 2 * Unsigned(b) - Modulus * 0
      BY <1>1, <1>2, <2>1, <2>3
    <3> QED BY <1>1, <2>1, <3>1
  <2> QED BY <2>2, <2>3
<1>7. PICK h \in {0, 1} : /\ quot' \in Numbers(L)
                          /\ Unsigned(quot') =
                               Unsigned(quot) + odd * Unsigned(b) - Modulus * h
  <2>1. Unsigned(quot) \in Nat /\ Unsigned(b) \in Nat
    BY <1>2, UnsignedValue
  <2>2. CASE odd = 1
    <3>1. /\ Plus(quot, b) \in Numbers(L)
          /\ \E h \in {0, 1} :
               Unsigned(Plus(quot, b)) = Unsigned(quot) + Unsigned(b) - Modulus * h
      BY <1>2, Sum
    <3>2. odd * Unsigned(b) = Unsigned(b)
      BY <2>1, <2>2
    <3> QED BY <1>1, <2>2, <3>1, <3>2
  <2>3. CASE odd = 0
    <3>1. odd * Unsigned(b) = 0 /\ Modulus * 0 = 0
      BY <1>2, <2>1, <2>3
    <3>2. Unsigned(quot') = Unsigned(quot) + odd * Unsigned(b) - Modulus * 0
      BY <1>1, <1>2, <2>1, <2>3, <3>1
    <3> QED BY <1>1, <1>2, <2>3, <3>2
  <2> QED BY <1>5, <2>2, <2>3
<1>8. Unsigned(quot)' = Unsigned(quot') /\ Unsigned(a)' = Unsigned(a')
      /\ Unsigned(b)' = Unsigned(b') /\ Modulus' = Modulus
      /\ Unsigned(call.x)' = Unsigned(call.x) /\ Unsigned(call.y)' = Unsigned(call.y)
      /\ (2^count)' = 2^e
  BY <1>1, SameCall DEF Unsigned
<1>9. (Unsigned(quot') + Unsigned(a') * Unsigned(b')) % Modulus
        = (Unsigned(quot) + Unsigned(a) * Unsigned(b)) % Modulus
  <2> DEFINE q == Unsigned(quot)
             u == Unsigned(a')
             v == Unsigned(b)
             m == Modulus
             old == q + Unsigned(a) * v
             new == Unsigned(quot') + u * Unsigned(b')
             lost == -(h + u * k)
  <2>1. /\ q \in Nat /\ u \in Nat /\ v \in Nat /\ m \in Nat /\ m >= 1
        /\ h \in Nat /\ k \in Nat /\ odd \in Nat
        /\ Unsigned(a) = 2 * u + odd
        /\ Unsigned(b') = 2 * v - m * k
        /\ Unsigned(quot') = q + odd * v - m * h
    BY <1>2, <1>5, <1>6, <1>7, UnsignedValue
  <2> HIDE DEF q, u, v, m
  <2>2. old = q + (2 * u + odd) * v /\ new = (q + odd * v - m * h) + u * (2 * v - m * k)
    BY <2>1
  <2>3. (2 * u + odd) * v = 2 * (u * v) + odd * v
    BY <2>1
  <2>4. u * (2 * v - m * k) = 2 * (u * v) - m * (u * k)
    BY <2>1
  <2>5. m * lost = -(m * h) - m * (u * k)
    BY <2>1
  <2>6. /\ u * v \in Int /\ odd * v \in Int /\ m * h \in Int /\ m * (u * k) \in Int
        /\ lost \in Int
    BY <2>1
  <2>7. new = old + m * lost /\ old \in Int
    BY <2>1, <2>2, <2>3, <2>4, <2>5, <2>6
  <2> HIDE DEF old, new, lost
  <2>8. (old + m * lost) % m = old % m
    BY <2>1, <2>6, <2>7, Congruent
  <2> QED BY <2>7, <2>8 DEF old, new, q, u, v, m
<1>10. Unsigned(a') < 2^e
  <2>1. 2^e \in Nat /\ 2^count = 2 * 2^e
    BY <1>3, Powers
  <2> DEFINE p == 2^e
             u == Unsigned(a')
  <2>2. p \in Nat /\ u \in Nat /\ odd \in Nat /\ 2 * u + odd < 2 * p
    BY <1>4, <1>5, <2>1
  <2> HIDE DEF p, u
  <2>3. u < p
    BY <2>2
  <2> QED BY <2>3 DEF p, u
<1>11. ProductSoFar'
  BY <1>1, <1>4, <1>8, <1>9, <1>10 DEF ProductSoFar
<1>12. MulDivTypes'
  BY <1>1, <1>2, <1>3, <1>5, <1>6, <1>7 DEF MulDivTypes
<1> QED
  BY <1>1, <1>11, <1>12 DEF MulDivInv, Entered, Dividing, Aligned, QuotientSoFar,
     RemainderSoFar, Reduced, ResultRight

\* The end of a multiplication: nothing is left to be added.
LEMMA MultiplyDoneStep ==
  ASSUME MulDivAssumption, MulDivInv, MultiplyDone
  PROVE  MulDivInv'
<1> DEFINE L == Length(call.fn)
<1>1. label = "multiply" /\ (IsZero(a) \/ IsZero(b) \/ count = 0) /\ Return(quot)
  BY DEF MultiplyDone
<1>2. /\ MulDivTypes /\ L \in Lengths
      /\ a \in Numbers(L) /\ b \in Numbers(L) /\ quot \in Numbers(L)
      /\ Modulus \in Nat /\ Modulus = Span(L)
  BY Typed DEF MulDivInv, Modulus
<1>3. /\ call.fn \in Products
      /\ (Unsigned(quot) + Unsigned(a) * Unsigned(b)) % Modulus
           = (Unsigned(call.x) * Unsigned(call.y)) % Modulus
      /\ Unsigned(a) < 2^count
  BY <1>1 DEF MulDivInv, ProductSoFar
<1>4. /\ Unsigned(a) \in Nat /\ Unsigned(b) \in Nat /\ Unsigned(quot) \in Nat
      /\ Unsigned(quot) < Modulus
  BY <1>2, UnsignedValue
<1>5. Unsigned(a) = 0 \/ Unsigned(b) = 0
  <2>1. CASE count = 0
    <3>1. 2^count = 1
      BY <2>1 DEF MulDivAssumption, PowersOfTwo
    <3> QED BY <1>3, <1>4, <3>1
  <2> QED BY <1>1, <1>2, <2>1, ZeroAndNegative
<1>6. Unsigned(quot) + Unsigned(a) * Unsigned(b) = Unsigned(quot)
  <2>1. Unsigned(a) * Unsigned(b) = 0
    BY <1>4, <1>5
  <2> QED BY <1>4, <2>1
<1>7. Unsigned(quot) % Modulus = Unsigned(quot)
  BY <1>2, <1>4, Wraps
<1>8. Answer = Unsigned(call.x) * Unsigned(call.y)
  BY <1>2, <1>3, Answers
<1> QED BY <1>1, <1>2, <1>3, <1>6, <1>7, <1>8, ReturnStep

(***************************************************************************)
(* The theorems.                                                           *)
(***************************************************************************)

\* A call enters the invariant.
LEMMA InitMulDivInv ==
  ASSUME MulDivAssumption, Init
  PROVE  MulDivInv
<1>A. PICK fn \in Routines : \E x, y \in Numbers(Length(fn)) : Call(fn, x, y)
  BY DEF Init
<1>1. PICK x, y \in Numbers(Length(fn)) : Call(fn, x, y)
  BY <1>A
<1>2. /\ call.fn = fn /\ call.x = x /\ call.y = y /\ a = x /\ b = y /\ label = "entry"
      /\ quot = [k \in DOMAIN x |-> 0] /\ mask = [k \in DOMAIN x |-> 0]
      /\ count = 0 /\ sign = FALSE
  BY <1>1 DEF Call
<1>3. Length(fn) \in Lengths /\ W \in Nat /\ W >= 2 /\ XLEN \in Nat
  BY Words DEF Length, Lengths, MulDivAssumption
<1>4. DOMAIN x = 1..Length(fn)
  BY DEF Numbers
<1>5. quot \in Numbers(Length(fn)) /\ mask \in Numbers(Length(fn))
  BY <1>2, <1>3, <1>4 DEF Numbers
<1>6. MulDivTypes
  <2>1. 0 \in 0..(Length(fn) * XLEN)
    BY <1>3 DEF Lengths
  <2>2. Length(call.fn) = Length(fn)
    BY <1>2
  <2> QED BY <1>2, <1>5, <2>1, <2>2 DEF MulDivTypes
<1>7. Unsigned(quot) = 0
  <2>1. IsZero(quot)
    BY <1>2, <1>4 DEF IsZero
  <2> QED BY <1>3, <1>5, <2>1, ZeroAndNegative
<1> QED
  BY <1>2, <1>6, <1>7 DEF MulDivInv, Entered, Dividing, Aligned, QuotientSoFar,
     RemainderSoFar, Reduced, ProductSoFar, ResultRight

\* The steps that routines are made of, and the routines that take them.
LEMMA Stages ==
  ASSUME MulDivAssumption, Next
  PROVE  \/ /\ call.fn \in Products
            /\ \/ EnterMultiply(Length(call.fn) * XLEN)
               \/ Multiply
               \/ MultiplyDone
         \/ /\ call.fn \notin Products
            /\ \/ call.fn \in Quotients /\ ZeroDivisor(AllOnes)
               \/ call.fn \in Remainders /\ ZeroDivisor(a)
               \/ call.fn \notin Signed /\ EnterUnsigned
               \/ call.fn \in Signed \cap Quotients /\ EnterSigned(Negative(a) # Negative(b))
               \/ call.fn \in Signed \cap Remainders /\ EnterSigned(Negative(a))
               \/ AlignShift
               \/ AlignSubtract
               \/ AlignDone
               \/ Divide("divide")
               \/ call.fn \in Remainders /\ Divide("align")
               \/ call.fn \in Quotients \cap Signed /\ Finish(FixSign(quot))
               \/ call.fn \in Quotients \ Signed /\ Finish(quot)
               \/ call.fn \in Remainders \cap Signed /\ Finish(FixSign(a))
               \/ call.fn \in Remainders \ Signed /\ Finish(a)
<1> USE DEF Products, Quotients, Remainders, Signed
<1>1. CASE SINGLE_MUL
  <2>1. Length(call.fn) * XLEN = XLEN
    BY <1>1 DEF SINGLE_MUL, Length, Doubles, MulDivAssumption
  <2> QED BY <1>1, <2>1 DEF SINGLE_MUL
<1>2. CASE DOUBLE_MUL
  BY <1>2 DEF DOUBLE_MUL, Length, Doubles
<1>3. CASE SINGLE_DIV \/ DOUBLE_DIV
  BY <1>3 DEF SINGLE_DIV, DOUBLE_DIV, Align
<1>4. CASE SINGLE_UDIV \/ DOUBLE_UDIV
  BY <1>4 DEF SINGLE_UDIV, DOUBLE_UDIV, Align
<1>5. CASE SINGLE_MOD \/ DOUBLE_MOD
  BY <1>5 DEF SINGLE_MOD, DOUBLE_MOD, Align
<1>6. CASE SINGLE_UMOD \/ DOUBLE_UMOD
  BY <1>6 DEF SINGLE_UMOD, DOUBLE_UMOD, Align
<1> QED BY <1>1, <1>2, <1>3, <1>4, <1>5, <1>6 DEF Next

\* Every step keeps the invariant.
LEMMA NextMulDivInv ==
  ASSUME MulDivAssumption, MulDivInv, [Next]_vars
  PROVE  MulDivInv'
<1>1. CASE UNCHANGED vars
  BY <1>1 DEF vars, MulDivInv, MulDivTypes, Entered, Dividing, Aligned, QuotientSoFar,
     RemainderSoFar, Reduced, ProductSoFar, ResultRight, Modulus, Dividend, Divisor,
     Value, Answer, Unsigned, Size, BitAt, Length
<1>2. CASE Next /\ call.fn \in Products
  <2>1. \/ EnterMultiply(Length(call.fn) * XLEN) \/ Multiply \/ MultiplyDone
    BY <1>2, Stages
  <2> QED BY <1>2, <2>1, EnterMultiplyStep, MultiplyStep, MultiplyDoneStep
<1>3. CASE Next /\ call.fn \notin Products
  <2>1. CASE \/ call.fn \in Quotients /\ ZeroDivisor(AllOnes)
             \/ call.fn \in Remainders /\ ZeroDivisor(a)
    BY <2>1, ZeroDivisorStep
  <2>2. CASE \/ call.fn \notin Signed /\ EnterUnsigned
             \/ call.fn \in Signed \cap Quotients /\ EnterSigned(Negative(a) # Negative(b))
             \/ call.fn \in Signed \cap Remainders /\ EnterSigned(Negative(a))
    BY <1>3, <2>2, EnterStep
  <2>3. CASE AlignShift \/ AlignSubtract \/ AlignDone
    BY <2>3, AlignShiftStep, AlignSubtractStep, AlignDoneStep
  <2>4. CASE Divide("divide") \/ (call.fn \in Remainders /\ Divide("align"))
    BY <2>4, DivideStep
  <2>5. CASE \/ call.fn \in Quotients \cap Signed /\ Finish(FixSign(quot))
             \/ call.fn \in Quotients \ Signed /\ Finish(quot)
             \/ call.fn \in Remainders \cap Signed /\ Finish(FixSign(a))
             \/ call.fn \in Remainders \ Signed /\ Finish(a)
    <3>1. Dividing
      BY <2>5 DEF Finish, Dividing
    <3> QED BY <2>5, <3>1, FinishStep
  <2> QED BY <1>3, <2>1, <2>2, <2>3, <2>4, <2>5, Stages
<1> QED BY <1>1, <1>2, <1>3

\* What the registers of a routine hold at every pass of its loops, for
\* registers of every width and for every argument.
THEOREM MulDivInvariant ==
  ASSUME MulDivAssumption
  PROVE  Spec => []MulDivInv
BY InitMulDivInv, NextMulDivInv, PTL DEF Spec

\* Between two passes of its loops a routine that divides is in a long division.
LEMMA InvIsLong ==
  ASSUME MulDivAssumption, MulDivInv
  PROVE  LongDivision
<1> SUFFICES ASSUME Dividing PROVE LongDivision
  BY DEF LongDivision, Dividing
<1>1. Unsigned(b) = Divisor * 2^count
  BY DivisionFacts
<1>2. label = "divide" => Below(a, b)
  BY Typed, BelowIsLess DEF MulDivInv, Reduced
<1> QED
  BY <1>1, <1>2 DEF LongDivision, MulDivInv, QuotientSoFar, RemainderSoFar, Dividend,
     Divisor

\* LongDivision, for registers of every width: no bit of the divisor is lost,
\* the dividend is the quotient so far times the divisor plus what is left, and
\* what is left is below the divisor.
THEOREM DivisionsAreLong ==
  ASSUME MulDivAssumption
  PROVE  Spec => []LongDivision
BY InvIsLong, MulDivInvariant, PTL

\* ResultRight, for registers of every width: a routine that returns has the
\* product, the quotient or the remainder of its arguments, signed or unsigned,
\* modulo 2^width, and what the instruction gives for a divisor of zero.
THEOREM ResultsAreRight ==
  ASSUME MulDivAssumption
  PROVE  Spec => []ResultRight
<1>1. MulDivInv => ResultRight
  BY DEF MulDivInv
<1> QED BY <1>1, MulDivInvariant, PTL

=============================================================================
