--------------------------- MODULE KmallocProofs ---------------------------
(***************************************************************************)
(* Proofs about the heap of memalloc.c, for every size of a word, place of *)
(* the block and series of calls.                                          *)
(*                                                                         *)
(* What the loop of kmalloc finds is proved from the least number          *)
(* principle: the section furthest down the list on which a claim fails    *)
(* has a successor on which it holds.                                      *)
(***************************************************************************)
EXTENDS Kmalloc, WellFoundedInduction, TLAPS

(***************************************************************************)
(* Arithmetic.                                                             *)
(***************************************************************************)

\* A set of numbers that is not empty has a least one.
LEMMA Least ==
  ASSUME NEW T \in SUBSET Nat, T # {}
  PROVE  \E x \in T : \A y \in T : x <= y
<1>1. IsWellFoundedOn(OpToRel(<, Nat), Nat)
  BY NatLessThanWellFounded
<1>2. PICK x \in T : \A y \in T : ~(<<y, x>> \in OpToRel(<, Nat))
  BY <1>1, WFMin
<1>3. \A y \in T : ~(y < x)
  BY <1>2 DEF OpToRel
<1> QED BY <1>3

\* A size_t that does not wrap, that wraps once, and one below zero.
LEMMA Wraps ==
  ASSUME NEW m \in Nat, NEW x \in Int
  PROVE  /\ 0 <= x /\ x < m => (x % m) = x
         /\ m <= x /\ x < 2 * m => (x % m) = x - m
         /\ -m <= x /\ x < 0 => (x % m) = x + m
OBVIOUS

\* The sum of two of them.
LEMMA WrapsOnce ==
  ASSUME NEW m \in Nat, NEW x \in Nat, NEW y \in Nat, x < m, y < m
  PROVE  /\ x + y < m => ((x + y) % m) = x + y
         /\ x + y >= m => ((x + y) % m) = x + y - m
<1> DEFINE z == x + y
<1>1. z \in Int /\ 0 <= z /\ z < 2 * m
  OBVIOUS
<1> HIDE DEF z
<1>2. /\ z < m => (z % m) = z
      /\ z >= m => (z % m) = z - m
  BY <1>1, Wraps
<1> QED BY <1>2 DEF z

\* A number is a multiple of another, and what is left.
LEMMA Divided ==
  ASSUME NEW m \in Nat \ {0}, NEW x \in Int
  PROVE  (x % m) \in 0..(m - 1) /\ \E q \in Int : x = m * q + (x % m)
<1>1. x \div m \in Int /\ x = m * (x \div m) + (x % m)
  OBVIOUS
<1>2. (x % m) \in 0..(m - 1)
  OBVIOUS
<1>3. \E q \in Int : x = m * q + (x % m)
  BY <1>1
<1> QED BY <1>2, <1>3

\* What is left of a multiple and a bit more.
LEMMA LeftOver ==
  ASSUME NEW m \in Nat \ {0}, NEW q \in Int, NEW r \in 0..(m - 1)
  PROVE  ((m * q + r) % m) = r
OBVIOUS

\* The multiple, when what is left is known.
LEMMA Quotient ==
  ASSUME NEW m \in Nat \ {0}, NEW q \in Int, NEW r \in 0..(m - 1), NEW x \in Int,
         x = m * q + r
  PROVE  x \div m = q
OBVIOUS

\* Products of sums.
LEMMA Distributes ==
  ASSUME NEW m \in Int, NEW q \in Int, NEW r \in Int
  PROVE  m * (q + r) = m * q + m * r /\ m * (q - r) = m * q - m * r
OBVIOUS

\* Sums and differences of aligned addresses are aligned.
LEMMA AlignedSum ==
  ASSUME NEW m \in Nat \ {0}, NEW x \in Int, NEW y \in Int, (x % m) = 0, (y % m) = 0
  PROVE  ((x + y) % m) = 0 /\ ((x - y) % m) = 0
<1>1. PICK q \in Int : x = m * q + (x % m)
  BY Divided
<1>2. PICK r \in Int : y = m * r + (y % m)
  BY Divided
<1>3. x + y = m * (q + r) + 0 /\ x - y = m * (q - r) + 0
  BY <1>1, <1>2, Distributes
<1>4. ((m * (q + r) + 0) % m) = 0 /\ ((m * (q - r) + 0) % m) = 0
  BY LeftOver
<1> QED BY <1>3, <1>4

\* What is aligned to 16 bytes is aligned to words.
LEMMA AlignedMore ==
  ASSUME NEW m \in Nat \ {0}, NEW k \in Nat \ {0}, NEW x \in Int,
         (k % m) = 0, (x % k) = 0
  PROVE  (x % m) = 0
<1>1. PICK q \in Int : k = m * q + (k % m)
  <2>1. k \in Int
    OBVIOUS
  <2> QED BY <2>1, Divided
<1>2. PICK r \in Int : x = k * r + (x % k)
  BY Divided
<1>3. x = m * (q * r) + 0
  BY <1>1, <1>2
<1>4. q * r \in Int
  OBVIOUS
<1> QED BY <1>3, <1>4, LeftOver

\* Both ways to round up to a multiple.
LEMMA RoundedUp ==
  ASSUME NEW m \in Nat \ {0}, NEW n \in Nat
  PROVE  LET up == IF (n % m) = 0 THEN n ELSE n + m - (n % m) IN
         /\ up \in Nat /\ n <= up /\ up < n + m
         /\ (up % m) = 0
         /\ ((n + m - 1) \div m) * m = up
<1>1. n \in Int /\ (n % m) \in 0..(m - 1)
  BY Divided
<1>2. PICK q \in Int : n = m * q + (n % m)
  BY <1>1, Divided
<1>3. CASE (n % m) = 0
  <2>1. n + m - 1 = m * q + (m - 1)
    BY <1>2, <1>3
  <2>2. (n + m - 1) \div m = q
    BY <2>1
  <2> QED BY <1>1, <1>2, <1>3, <2>2
<1>4. CASE (n % m) # 0
  <2>1. n + m - 1 = m * (q + 1) + ((n % m) - 1)
    BY <1>2
  <2> DEFINE r == (n % m) - 1
  <2>2. (n + m - 1) \div m = q + 1
    <3>1. r \in 0..(m - 1) /\ n + m - 1 = m * (q + 1) + r
      BY <1>1, <1>4, <2>1
    <3> HIDE DEF r
    <3>2. q + 1 \in Int
      OBVIOUS
    <3> QED BY <3>1, <3>2, Quotient
  <2>3. n + m - (n % m) = m * (q + 1) + 0
    BY <1>2
  <2>4. ((m * (q + 1) + 0) % m) = 0
    BY LeftOver
  <2> QED BY <1>1, <1>2, <1>4, <2>2, <2>3, <2>4
<1> QED BY <1>3, <1>4

\* The block of memory and its header.
LEMMA Block ==
  /\ Word \in Nat \ {0} /\ Header \in Nat /\ Header = 2 * Word /\ Word <= 16
  /\ Modulus \in Nat \ {0}
  /\ mem_block_start \in Nat \ {0} /\ mem_block_end \in Nat
  /\ mem_block_start + Header <= mem_block_end
  /\ mem_block_end + Header <= Modulus
  /\ mem_block_end <= 2 * mem_block_start
  /\ (mem_block_start % Word) = 0 /\ (Header % Word) = 0 /\ (Modulus % Word) = 0
<1>1. (mem_block_start % Word) = 0
  BY AlignedMore, KmallocAssumption
<1>2. (Header % Word) = 0
  <2>1. Header = Word * 2 + 0
    BY KmallocAssumption DEF Header
  <2> QED BY <2>1, LeftOver, KmallocAssumption
<1>3. Word <= 16
  <2>1. CASE Word > 16
    <3>1. (16 % Word) = 16
      BY <2>1, Wraps, KmallocAssumption
    <3> QED BY <3>1, KmallocAssumption
  <2> QED BY <2>1, KmallocAssumption
<1> QED BY <1>1, <1>2, <1>3, KmallocAssumption DEF Header

-----------------------------------------------------------------------------
(***************************************************************************)
(* The list, and the loop of kmalloc.                                      *)
(***************************************************************************)

\* Where the room behind a section ends.
Limit(h, a) == IF h[a].next = 0 THEN mem_block_end ELSE h[a].next

\* A list of sections of the block: headers at aligned addresses, in the order
\* of the addresses, and none of size 0 but the first.
Listed(h) ==
  /\ h \in [DOMAIN h -> [size : Nat, next : Nat]]
  /\ DOMAIN h \subseteq mem_block_start..(mem_block_end - 1)
  /\ mem_block_start \in DOMAIN h

Aligned(h) ==
  \A a \in DOMAIN h :
    /\ (a % Word) = 0 /\ (h[a].size % Word) = 0
    /\ h[a].size >= Header + Word \/ (a = mem_block_start /\ h[a].size = 0)

Chained(h) ==
  \A a \in DOMAIN h :
    /\ a + h[a].size <= Limit(h, a)
    /\ IF h[a].next = 0
         THEN \A b \in DOMAIN h : b <= a
         ELSE /\ h[a].next \in DOMAIN h /\ a < h[a].next
              /\ \A b \in DOMAIN h : b <= a \/ h[a].next <= b

Ordered(h) == Listed(h) /\ Aligned(h) /\ Chained(h)

\* The types of what a list says of a section.
LEMMA SectionType ==
  ASSUME NEW h, Ordered(h), NEW a \in DOMAIN h
  PROVE  /\ a \in Nat /\ mem_block_start <= a /\ a < mem_block_end /\ a # 0
         /\ h[a].size \in Nat /\ h[a].next \in Nat /\ Limit(h, a) \in Nat
         /\ h[a] = Section(h[a].size, h[a].next)
         /\ a + h[a].size <= Limit(h, a) /\ Limit(h, a) <= mem_block_end
<1>1. a \in mem_block_start..(mem_block_end - 1) /\ h[a] \in [size : Nat, next : Nat]
  BY DEF Ordered, Listed
<1>2. a \in Nat /\ mem_block_start <= a /\ a < mem_block_end /\ a # 0
  BY <1>1, Block
<1>3. h[a] = Section(h[a].size, h[a].next) /\ h[a].size \in Nat /\ h[a].next \in Nat
  BY <1>1 DEF Section
<1>4. h[a].next # 0 => h[a].next \in mem_block_start..(mem_block_end - 1)
  BY DEF Ordered, Listed, Chained
<1>5. Limit(h, a) \in Nat /\ Limit(h, a) <= mem_block_end
  BY <1>3, <1>4, Block DEF Limit
<1> QED BY <1>2, <1>3, <1>5 DEF Ordered, Chained

\* A section ends before the next ones begin.
LEMMA Apart ==
  ASSUME NEW h, Ordered(h), NEW a \in DOMAIN h, NEW b \in DOMAIN h, a < b
  PROVE  h[a].next # 0 /\ h[a].next <= b /\ a + h[a].size <= b
<1>1. a \in Nat /\ b \in Nat /\ h[a].size \in Nat /\ h[a].next \in Nat
  BY SectionType
<1>2. h[a].next # 0 /\ h[a].next <= b
  BY <1>1 DEF Ordered, Chained
<1>3. a + h[a].size <= h[a].next
  BY <1>2 DEF Ordered, Chained, Limit
<1> QED BY <1>1, <1>2, <1>3

\* The last section at or below an address.
LEMMA Floor ==
  ASSUME NEW h, Ordered(h), NEW p \in Nat, mem_block_start <= p
  PROVE  \E a \in DOMAIN h : a <= p /\ \A b \in DOMAIN h : b <= a \/ p < b
<1>1. \A a \in DOMAIN h : a \in Nat
  BY SectionType
<1> DEFINE T == {p - a : a \in {b \in DOMAIN h : b <= p}}
<1>2. T \in SUBSET Nat
  BY <1>1
<1>3. p - mem_block_start \in T
  BY DEF Ordered, Listed
<1>4. PICK x \in T : \A y \in T : x <= y
  BY <1>2, <1>3, Least
<1>5. PICK a \in DOMAIN h : a <= p /\ x = p - a
  BY <1>4
<1>6. ASSUME NEW b \in DOMAIN h, b <= p PROVE b <= a
  <2>1. p - b \in T
    BY <1>6
  <2>2. p - a <= p - b
    BY <1>4, <1>5, <2>1
  <2> QED BY <1>1, <2>2
<1>7. \A b \in DOMAIN h : b <= a \/ p < b
  BY <1>1, <1>6
<1> QED BY <1>5, <1>7

\* The list has a last section, which nothing follows.
LEMMA LastSection ==
  ASSUME NEW h, Ordered(h)
  PROVE  \E a \in DOMAIN h : h[a].next = 0 /\ \A b \in DOMAIN h : b <= a
<1>1. PICK a \in DOMAIN h : \A b \in DOMAIN h : b <= a \/ mem_block_end < b
  BY Floor, Block
<1>2. \A b \in DOMAIN h : b \in Nat /\ b < mem_block_end
  BY SectionType
<1>3. \A b \in DOMAIN h : b <= a
  BY <1>1, <1>2, Block
<1>4. h[a].next = 0
  BY <1>2, <1>3 DEF Ordered, Chained
<1> QED BY <1>3, <1>4

\* The checks of the loop tell exactly whether the sum wraps, and if not,
\* whether there is room: no section is as long as its address.
LEMMA Checks ==
  ASSUME NEW h, Ordered(h), NEW a \in DOMAIN h, NEW size \in 0..(Modulus - 1)
  PROVE  /\ Overflows(h, a, size) <=> a + h[a].size + size >= Modulus
         /\ ~Overflows(h, a, size) =>
              (Fits(h, a, size) <=> a + h[a].size + size <= Limit(h, a))
<1>1. /\ a \in Nat /\ h[a].size \in Nat /\ size \in Nat /\ Modulus \in Nat
      /\ mem_block_start \in Nat /\ mem_block_end \in Nat
      /\ mem_block_start <= a /\ a + h[a].size <= mem_block_end
      /\ mem_block_end < Modulus /\ mem_block_end <= 2 * mem_block_start
      /\ size < Modulus
  BY SectionType, Block
<1> DEFINE s == a + h[a].size + size
           t == a + size
<1>2. /\ t < Modulus => (t % Modulus) = t
      /\ t >= Modulus => (t % Modulus) = t - Modulus
  <2>1. a < Modulus
    BY <1>1
  <2>2. t = a + size
    OBVIOUS
  <2> HIDE DEF t, s
  <2>3. /\ a + size < Modulus => ((a + size) % Modulus) = a + size
        /\ a + size >= Modulus => ((a + size) % Modulus) = a + size - Modulus
    BY <1>1, <2>1, WrapsOnce
  <2> QED BY <1>1, <2>1, <2>2, <2>3
<1>3. /\ s < Modulus => (s % Modulus) = s
      /\ s >= Modulus => (s % Modulus) = s - Modulus
  <2> DEFINE end == a + h[a].size
  <2>1. end \in Nat /\ end < Modulus
    BY <1>1
  <2>2. s = end + size
    OBVIOUS
  <2> HIDE DEF end, s
  <2>3. /\ end + size < Modulus => ((end + size) % Modulus) = end + size
        /\ end + size >= Modulus => ((end + size) % Modulus) = end + size - Modulus
    BY <1>1, <2>1, WrapsOnce
  <2> QED BY <1>1, <2>1, <2>2, <2>3
<1>4. h[a].size <= a
  BY <1>1
<1>5. Overflows(h, a, size) <=> (t % Modulus) < a \/ (s % Modulus) < a
  BY DEF Overflows
<1>6. CASE s < Modulus
  BY <1>1, <1>2, <1>3, <1>5, <1>6 DEF Fits, Limit
<1>7. CASE s >= Modulus /\ t < Modulus
  <2>1. (s % Modulus) = s - Modulus /\ s - Modulus < a
    BY <1>1, <1>3, <1>4, <1>7
  <2> QED BY <1>5, <1>7, <2>1
<1>8. CASE s >= Modulus /\ t >= Modulus
  <2>1. (t % Modulus) = t - Modulus /\ t - Modulus < a
    BY <1>1, <1>2, <1>8
  <2> QED BY <1>5, <1>8, <2>1
<1>9. s \in Nat /\ t \in Nat
  BY <1>1
<1> QED BY <1>1, <1>6, <1>7, <1>8, <1>9

\* Where the loop of kmalloc ends.
Ends(h, a, size) == Overflows(h, a, size) \/ Fits(h, a, size) \/ h[a].next = 0

\* The first section at or behind a where it ends.
IsFirstEnd(h, a, size, b) ==
  /\ b \in DOMAIN h /\ a <= b /\ Ends(h, b, size)
  /\ \A c \in DOMAIN h : a <= c /\ c < b => ~Ends(h, c, size)
FirstEnd(h, a, size) == CHOOSE b \in DOMAIN h : IsFirstEnd(h, a, size, b)

\* The loop ends somewhere, and if not here then where it ends from the next
\* section on.
LEMMA FirstEnds ==
  ASSUME NEW h, Ordered(h), NEW a \in DOMAIN h, NEW size
  PROVE  /\ IsFirstEnd(h, a, size, FirstEnd(h, a, size))
         /\ Ends(h, a, size) => FirstEnd(h, a, size) = a
         /\ ~Ends(h, a, size) =>
              /\ h[a].next \in DOMAIN h /\ a < h[a].next
              /\ FirstEnd(h, a, size) = FirstEnd(h, h[a].next, size)
<1>1. \A b \in DOMAIN h : b \in Nat
  BY SectionType
<1> DEFINE T == {b \in DOMAIN h : a <= b /\ Ends(h, b, size)}
<1>2. T # {}
  BY LastSection DEF Ends
<1>3. PICK x \in T : \A y \in T : x <= y
  BY <1>1, <1>2, Least
<1>4. IsFirstEnd(h, a, size, x)
  BY <1>1, <1>3 DEF IsFirstEnd
<1>5. IsFirstEnd(h, a, size, FirstEnd(h, a, size))
  BY <1>4 DEF FirstEnd, IsFirstEnd
<1>6. Ends(h, a, size) => FirstEnd(h, a, size) = a
  BY <1>1, <1>5 DEF IsFirstEnd
<1>7. ASSUME ~Ends(h, a, size)
      PROVE  /\ h[a].next \in DOMAIN h /\ a < h[a].next
             /\ FirstEnd(h, a, size) = FirstEnd(h, h[a].next, size)
  <2>1. /\ h[a].next \in DOMAIN h /\ a < h[a].next
        /\ \A b \in DOMAIN h : b <= a \/ h[a].next <= b
    BY <1>7 DEF Ends, Ordered, Chained
  <2>2. \A b \in DOMAIN h : a <= b /\ b # a <=> h[a].next <= b
    BY <1>1, <2>1
  <2>3. ASSUME NEW b \in DOMAIN h
        PROVE  IsFirstEnd(h, a, size, b) <=> IsFirstEnd(h, h[a].next, size, b)
    BY <1>7, <2>2 DEF IsFirstEnd
  <2>4. FirstEnd(h, a, size) = FirstEnd(h, h[a].next, size)
    BY <2>3 DEF FirstEnd
  <2> QED BY <2>1, <2>4
<1> QED BY <1>5, <1>6, <1>7

\* The loop of kmalloc ends at the first section that overflows, has room, or is
\* the last.
LEMMA WalkEnds ==
  ASSUME NEW h, Ordered(h), NEW size
  PROVE  /\ Walk(h, size) \in DOMAIN h /\ Ends(h, Walk(h, size), size)
         /\ \A a \in DOMAIN h : a < Walk(h, size) => ~Ends(h, a, size)
<1> DEFINE Step(from) ==
             [a \in DOMAIN h \cup {0} |->
                IF ~InBlock(a) THEN 0
                ELSE IF Overflows(h, a, size) \/ Fits(h, a, size) \/ h[a].next = 0
                  THEN a
                ELSE from[h[a].next]]
           f == CHOOSE from : from = Step(from)
           g == [a \in DOMAIN h \cup {0} |-> IF a = 0 THEN 0 ELSE FirstEnd(h, a, size)]
<1>1. Walk(h, size) = f[mem_block_start]
  BY DEF Walk
<1>2. \A a \in DOMAIN h : a \in Nat /\ a # 0 /\ InBlock(a)
  BY SectionType DEF InBlock
<1>3. ~InBlock(0)
  BY Block DEF InBlock
<1>4. \A from : \A a \in DOMAIN h :
        Step(from)[a] = IF Ends(h, a, size) THEN a ELSE from[h[a].next]
  BY <1>2 DEF Ends
<1>5. g = Step(g)
  <2>1. ASSUME NEW a \in DOMAIN h \cup {0} PROVE g[a] = Step(g)[a]
    <3>1. CASE a = 0
      BY <1>3, <3>1
    <3>2. CASE a \in DOMAIN h
      <4>1. g[a] = FirstEnd(h, a, size)
        BY <1>2, <3>2
      <4>2. CASE Ends(h, a, size)
        BY <1>4, <3>2, <4>1, <4>2, FirstEnds
      <4>3. CASE ~Ends(h, a, size)
        <5>1. h[a].next \in DOMAIN h /\ g[a] = FirstEnd(h, h[a].next, size)
          BY <3>2, <4>1, <4>3, FirstEnds
        <5>2. g[h[a].next] = FirstEnd(h, h[a].next, size)
          BY <1>2, <5>1
        <5> QED BY <1>4, <3>2, <4>3, <5>1, <5>2
      <4> QED BY <4>2, <4>3
    <3> QED BY <3>1, <3>2
  <2> QED BY <2>1
<1> HIDE DEF Step, g
<1>6. f = Step(f)
  BY <1>5
<1> HIDE DEF f
<1>7. \A a \in DOMAIN h : f[a] = IF Ends(h, a, size) THEN a ELSE f[h[a].next]
  BY <1>4, <1>6
<1> DEFINE T == {mem_block_end - a : a \in {b \in DOMAIN h : f[b] # FirstEnd(h, b, size)}}
<1>8. T = {}
  <2> SUFFICES ASSUME T # {} PROVE FALSE
    OBVIOUS
  <2>1. T \in SUBSET Nat
    BY SectionType, Block
  <2>2. PICK x \in T : \A y \in T : x <= y
    BY <2>1, Least
  <2>3. PICK a \in DOMAIN h : f[a] # FirstEnd(h, a, size) /\ x = mem_block_end - a
    BY <2>2
  <2>4. ~Ends(h, a, size)
    BY <1>7, <2>3, FirstEnds
  <2>5. /\ h[a].next \in DOMAIN h /\ a < h[a].next
        /\ FirstEnd(h, a, size) = FirstEnd(h, h[a].next, size)
    BY <2>4, FirstEnds
  <2>6. f[h[a].next] # FirstEnd(h, h[a].next, size)
    BY <1>7, <2>3, <2>4, <2>5
  <2>7. mem_block_end - h[a].next \in T
    BY <2>5, <2>6
  <2>8. mem_block_end - a <= mem_block_end - h[a].next
    BY <2>2, <2>3, <2>7
  <2> QED BY <1>2, <2>5, <2>8, Block
<1>9. Walk(h, size) = FirstEnd(h, mem_block_start, size)
  BY <1>1, <1>8 DEF Ordered, Listed
<1>10. IsFirstEnd(h, mem_block_start, size, Walk(h, size))
  BY <1>9, FirstEnds DEF Ordered, Listed
<1>11. \A a \in DOMAIN h : mem_block_start <= a
  BY SectionType
<1> QED BY <1>10, <1>11 DEF IsFirstEnd

-----------------------------------------------------------------------------
(***************************************************************************)
(* What kmalloc does to the list.                                          *)
(***************************************************************************)

\* The size rounded up to whole words, before it wraps.
Rounded(n) == IF (n % Word) = 0 THEN n ELSE n + Word - (n % Word)

\* Rounding up gives whole words, of at least the size, or wraps to 0.
LEMMA RoundUpWraps ==
  ASSUME NEW n \in Nat
  PROVE  /\ Rounded(n) \in Nat /\ n <= Rounded(n) /\ (Rounded(n) % Word) = 0
         /\ n < Modulus => /\ Rounded(n) <= Modulus
                           /\ RoundUp(n) = IF Rounded(n) < Modulus THEN Rounded(n) ELSE 0
<1>1. /\ Rounded(n) \in Nat /\ n <= Rounded(n) /\ Rounded(n) < n + Word
      /\ (Rounded(n) % Word) = 0
  BY RoundedUp, Block DEF Rounded
<1>2. ASSUME n < Modulus
      PROVE  /\ Rounded(n) <= Modulus
             /\ RoundUp(n) = IF Rounded(n) < Modulus THEN Rounded(n) ELSE 0
  <2>1. CASE (n % Word) = 0
    <3>1. Rounded(n) = n /\ RoundUp(n) = n
      BY <2>1 DEF Rounded, RoundUp
    <3> QED BY <1>2, <3>1, Block
  <2>2. CASE (n % Word) # 0
    <3>1. Rounded(n) <= Modulus
      <4>1. PICK q \in Int : Rounded(n) = Word * q + (Rounded(n) % Word)
        <5>1. Rounded(n) \in Int
          BY <1>1
        <5> QED BY <5>1, Divided, Block
      <4>2. PICK r \in Int : Modulus = Word * r + (Modulus % Word)
        <5>1. Modulus \in Int
          BY Block
        <5> QED BY <5>1, Divided, Block
      <4>3. Rounded(n) = Word * q /\ Modulus = Word * r
        BY <1>1, <4>1, <4>2, Block
      <4>4. Word * q - Word * r < Word
        BY <1>1, <1>2, <4>3, Block
      <4>5. Word * (q - r) < Word * 1
        BY <4>4, Distributes, Block
      <4>6. q - r < 1
        BY <4>5, Block
      <4>7. q <= r
        BY <4>6
      <4>8. Word * q <= Word * r
        BY <4>7, Block
      <4> QED BY <4>3, <4>8
    <3>2. RoundUp(n) = (Rounded(n) % Modulus)
      BY <2>2 DEF Rounded, RoundUp
    <3>3. /\ Rounded(n) < Modulus => (Rounded(n) % Modulus) = Rounded(n)
          /\ Rounded(n) = Modulus => (Rounded(n) % Modulus) = 0
      <4>1. Rounded(n) \in Int /\ 0 <= Rounded(n) /\ Modulus \in Nat /\ Modulus < 2 * Modulus
        BY <1>1, Block
      <4>2. Rounded(n) = Modulus => Rounded(n) - Modulus = 0
        BY <4>1
      <4> QED BY <4>1, <4>2, Wraps
    <3> QED BY <1>1, <3>1, <3>2, <3>3, Block
  <2> QED BY <2>1, <2>2
<1> QED BY <1>1, <1>2

\* There is room for a section of size bytes behind section a.
HasRoom(h, a, size) == a + h[a].size + size <= Limit(h, a)

\* kmalloc gives out the room behind a section, or there is none at all.
LEMMA Finds ==
  ASSUME NEW h, Ordered(h), NEW n \in 0..(Modulus - 1)
  PROVE  \/ /\ KmallocIn(h, n) = [heap |-> h, ptr |-> 0]
            /\ n = 0 \/ \A a \in DOMAIN h : ~HasRoom(h, a, Rounded(n) + Header)
         \/ \E a \in DOMAIN h :
              /\ n > 0 /\ RoundUp(n) = Rounded(n)
              /\ HasRoom(h, a, Rounded(n) + Header)
              /\ KmallocIn(h, n) = [heap |-> Insert(h, a, Rounded(n) + Header),
                                    ptr |-> a + h[a].size + Header]
<1> DEFINE size == RoundUp(n)
           full == (size + Header) % Modulus
           a == Walk(h, full)
           fails == size = 0 \/ full < size \/ a = 0 \/ Overflows(h, a, full)
                      \/ ~Fits(h, a, full)
<1>1. KmallocIn(h, n) = IF fails THEN [heap |-> h, ptr |-> 0]
                        ELSE [heap |-> Insert(h, a, full), ptr |-> a + h[a].size + Header]
  BY DEF KmallocIn
<1>2. /\ Rounded(n) \in Nat /\ n <= Rounded(n) /\ Rounded(n) <= Modulus
      /\ size = IF Rounded(n) < Modulus THEN Rounded(n) ELSE 0
  BY RoundUpWraps, Block
<1>3. size \in Nat /\ size < Modulus /\ Header \in Nat /\ 0 < Header /\ Header < Modulus
      /\ Modulus \in Nat /\ mem_block_end \in Nat /\ mem_block_end < Modulus
  BY <1>2, Block
<1>4. /\ size + Header < Modulus => full = size + Header
      /\ size + Header >= Modulus => full = size + Header - Modulus
  BY <1>3, WrapsOnce
<1>5. full \in 0..(Modulus - 1) /\ full \in Nat
  BY <1>3, <1>4
<1>6. \A c \in DOMAIN h : /\ c \in Nat /\ h[c].size \in Nat /\ Limit(h, c) \in Nat
                          /\ Limit(h, c) <= mem_block_end /\ c # 0
  BY SectionType
<1>7. CASE n = 0
  <2>1. size = 0
    BY <1>2, <1>7, Block DEF RoundUp
  <2> QED BY <1>1, <1>7, <2>1
<1>8. CASE n # 0 /\ Rounded(n) + Header >= Modulus
  <2>1. fails
    BY <1>2, <1>3, <1>4, <1>8
  <2>2. \A c \in DOMAIN h : ~HasRoom(h, c, Rounded(n) + Header)
    <3> SUFFICES ASSUME NEW c \in DOMAIN h, HasRoom(h, c, Rounded(n) + Header) PROVE FALSE
      OBVIOUS
    <3>1. c + h[c].size + (Rounded(n) + Header) <= Limit(h, c)
      BY DEF HasRoom
    <3> QED BY <1>2, <1>3, <1>6, <1>8, <3>1
  <2> QED BY <1>1, <2>1, <2>2
<1>9. CASE n # 0 /\ Rounded(n) + Header < Modulus
  <2>1. size = Rounded(n) /\ size > 0 /\ full = size + Header /\ n > 0
    BY <1>2, <1>3, <1>4, <1>9
  <2>2. /\ a \in DOMAIN h /\ Ends(h, a, full)
        /\ \A c \in DOMAIN h : c < a => ~Ends(h, c, full)
    BY WalkEnds
  <2> HIDE DEF a, full, size
  <2>3. fails <=> Overflows(h, a, full) \/ ~Fits(h, a, full)
    BY <1>3, <1>6, <2>1, <2>2
  <2>4. /\ Overflows(h, a, full) <=> a + h[a].size + full >= Modulus
        /\ ~Overflows(h, a, full) => (Fits(h, a, full) <=> HasRoom(h, a, full))
    BY <1>5, <2>2, Checks DEF HasRoom
  <2>5. CASE ~fails
    <3>1. /\ n > 0 /\ RoundUp(n) = Rounded(n) /\ full = Rounded(n) + Header
          /\ HasRoom(h, a, full)
      BY <2>1, <2>3, <2>4, <2>5 DEF size
    <3>2. KmallocIn(h, n) = [heap |-> Insert(h, a, full), ptr |-> a + h[a].size + Header]
      BY <1>1, <2>5
    <3> QED BY <2>2, <3>1, <3>2
  <2>6. CASE fails
    <3>1. ASSUME NEW c \in DOMAIN h, HasRoom(h, c, full) PROVE FALSE
      <4>1. c + h[c].size + full <= Limit(h, c) /\ c + h[c].size + full < Modulus
        BY <1>3, <1>5, <1>6, <3>1 DEF HasRoom
      <4>2. ~Overflows(h, c, full) /\ Fits(h, c, full)
        BY <1>3, <1>5, <1>6, <4>1, Checks
      <4>3. ~(c < a)
        BY <2>2, <4>2 DEF Ends
      <4>4. CASE a = c
        BY <2>3, <2>6, <4>2, <4>4
      <4>5. CASE a < c
        <5>1. h[a].next # 0 /\ a + h[a].size <= c
          BY <2>2, <4>5, Apart
        <5>2. a + h[a].size + full < Modulus
          BY <1>3, <1>5, <1>6, <2>2, <4>1, <5>1
        <5>3. ~Overflows(h, a, full)
          BY <1>3, <1>5, <1>6, <2>2, <2>4, <5>2
        <5> QED BY <2>2, <2>3, <2>6, <5>1, <5>3 DEF Ends
      <4> QED BY <1>6, <2>2, <4>3, <4>4, <4>5
    <3> QED BY <1>1, <2>1, <2>6, <3>1
  <2> QED BY <2>5, <2>6
<1> QED BY <1>2, <1>3, <1>7, <1>8, <1>9

\* The block of the caller in section a, and all of them.
BlockAt(h, a) == [ptr |-> a + Header, len |-> h[a].size - Header]
Owned(h) == {BlockAt(h, a) : a \in {b \in DOMAIN h : h[b].size # 0}}

\* What Insert leaves, and what it makes: if the first section is free it takes
\* the room, otherwise a section between two others does.
LEMMA Inserted ==
  ASSUME NEW h, Ordered(h), NEW a \in DOMAIN h, NEW size \in Nat, size > 0,
         HasRoom(h, a, size)
  PROVE  LET new == a + h[a].size
             i   == Insert(h, a, size) IN
         /\ new \in Nat /\ new < Limit(h, a)
         /\ DOMAIN i = DOMAIN h \cup {new}
         /\ i[new] = Section(size, h[a].next)
         /\ new # a => new \notin DOMAIN h /\ i[a] = Section(h[a].size, new)
         /\ \A b \in DOMAIN h : b # a => i[b] = h[b]
<1> DEFINE new == a + h[a].size
           i == Insert(h, a, size)
           p == Put(h, a, Section(h[a].size, new))
<1>1. /\ a \in Nat /\ h[a].size \in Nat /\ Limit(h, a) \in Nat
      /\ new + size <= Limit(h, a)
  BY SectionType DEF HasRoom
<1>2. new \in Nat /\ new < Limit(h, a)
  BY <1>1
<1>3. i = Put(p, new, Section(size, h[a].next))
  BY DEF Insert
<1>4. DOMAIN p = DOMAIN h /\ p[a] = Section(h[a].size, new)
      /\ \A b \in DOMAIN h : b # a => p[b] = h[b]
  BY DEF Put
<1>5. DOMAIN i = DOMAIN h \cup {new} /\ i[new] = Section(size, h[a].next)
      /\ \A b \in DOMAIN h : b # new => i[b] = p[b]
  BY <1>3, <1>4 DEF Put
<1>6. ASSUME new # a PROVE new \notin DOMAIN h
  <2>1. SUFFICES ASSUME new \in DOMAIN h PROVE FALSE
    OBVIOUS
  <2>2. a < new
    BY <1>1, <1>6
  <2>3. h[a].next # 0 /\ h[a].next <= new
    BY <2>1, <2>2, Apart
  <2> QED BY <1>1, <1>2, <2>3, SectionType DEF Limit
<1> HIDE DEF i, p
<1>7. \A b \in DOMAIN h : b # a => b # new
  BY <1>6
<1> QED BY <1>2, <1>4, <1>5, <1>6, <1>7 DEF i

\* The list with one section more is a list.
LEMMA InsertOrdered ==
  ASSUME NEW h, Ordered(h), NEW a \in DOMAIN h, NEW size \in Nat, size >= Header + Word,
         (size % Word) = 0, HasRoom(h, a, size)
  PROVE  Ordered(Insert(h, a, size))
<1> DEFINE new == a + h[a].size
           i == Insert(h, a, size)
<1>1. size > 0 /\ Word \in Nat /\ Header \in Nat
  BY Block
<1>2. /\ new \in Nat /\ new < Limit(h, a)
      /\ DOMAIN i = DOMAIN h \cup {new}
      /\ i[new] = Section(size, h[a].next)
      /\ new # a => new \notin DOMAIN h /\ i[a] = Section(h[a].size, new)
      /\ \A b \in DOMAIN h : b # a => i[b] = h[b]
  BY <1>1, Inserted
<1>3. /\ a \in Nat /\ h[a].size \in Nat /\ h[a].next \in Nat /\ Limit(h, a) \in Nat
      /\ Limit(h, a) <= mem_block_end /\ mem_block_start <= a
  BY SectionType
<1>4. new + size <= Limit(h, a)
  BY DEF HasRoom
<1>5. \A b \in DOMAIN h : b \in Nat /\ h[b] \in [size : Nat, next : Nat]
  BY SectionType DEF Ordered, Listed
<1> HIDE DEF new
<1>6. i[new].size = size /\ i[new].next = h[a].next
      /\ (new # a => i[a].size = h[a].size /\ i[a].next = new)
  BY <1>2 DEF Section
<1>7. Listed(i)
  <2>1. i = [b \in DOMAIN i |-> i[b]]
    BY DEF Insert, Put
  <2>2. \A b \in DOMAIN i : i[b] \in [size : Nat, next : Nat]
    <3>1. i[new] \in [size : Nat, next : Nat] /\ i[a] \in [size : Nat, next : Nat]
      BY <1>2, <1>3 DEF Section
    <3> QED BY <1>2, <1>5, <3>1
  <2>3. new \in mem_block_start..(mem_block_end - 1)
    BY <1>2, <1>3, Block DEF new
  <2> HIDE DEF i
  <2> QED BY <1>2, <2>1, <2>2, <2>3 DEF Ordered, Listed
<1> HIDE DEF i
<1>8. Aligned(i)
  <2>1. (new % Word) = 0
    <3>1. a \in Int /\ h[a].size \in Int /\ (a % Word) = 0 /\ (h[a].size % Word) = 0
      BY <1>3 DEF Ordered, Aligned
    <3> QED BY <3>1, AlignedSum, Block DEF new
  <2>2. ASSUME NEW b \in DOMAIN i
        PROVE  /\ (b % Word) = 0 /\ (i[b].size % Word) = 0
               /\ i[b].size >= Header + Word \/ (b = mem_block_start /\ i[b].size = 0)
    <3>1. CASE b = new
      <4>1. i[b].size = size
        BY <1>6, <3>1
      <4>2. (i[b].size % Word) = 0
        BY <4>1
      <4>3. (b % Word) = 0
        BY <2>1, <3>1
      <4>4. i[b].size >= Header + Word
        BY <1>1, <4>1
      <4> QED BY <4>2, <4>3, <4>4
    <3>2. CASE b = a /\ new # a
      BY <1>6, <3>2 DEF Ordered, Aligned
    <3>3. CASE b \in DOMAIN h /\ b # a
      BY <1>2, <3>3 DEF Ordered, Aligned
    <3> QED BY <1>2, <3>1, <3>2, <3>3
  <2> QED BY <2>2 DEF Aligned
<1>9. \A b \in DOMAIN h : b <= a \/ (h[a].next # 0 /\ h[a].next <= b)
  BY <1>5, Apart, SectionType
<1>10. Chained(i)
  <2> SUFFICES ASSUME NEW b \in DOMAIN i
               PROVE  /\ b + i[b].size <= Limit(i, b)
                      /\ IF i[b].next = 0
                           THEN \A c \in DOMAIN i : c <= b
                           ELSE /\ i[b].next \in DOMAIN i /\ b < i[b].next
                                /\ \A c \in DOMAIN i : c <= b \/ i[b].next <= c
    BY DEF Chained
  <2>1. a <= new /\ \A c \in DOMAIN h : c <= a \/ new < c
    <3>1. h[a].next # 0 => Limit(h, a) = h[a].next
      BY DEF Limit
    <3>2. a <= new
      BY <1>3 DEF new
    <3>3. ASSUME NEW c \in DOMAIN h, ~(c <= a) PROVE new < c
      <4>1. h[a].next # 0 /\ h[a].next <= c
        BY <1>9, <3>3
      <4> QED BY <1>2, <1>3, <1>5, <3>1, <4>1
    <3> QED BY <3>2, <3>3
  <2>2. CASE b = new
    <3>1. Limit(i, b) = Limit(h, a)
      BY <1>6, <2>2 DEF Limit
    <3>2. b + i[b].size <= Limit(i, b)
      BY <1>4, <1>6, <2>2, <3>1
    <3>3. CASE h[a].next = 0
      <4>1. \A c \in DOMAIN h : c <= a
        BY <1>9, <3>3
      <4> QED BY <1>2, <1>3, <1>5, <1>6, <2>1, <2>2, <3>2, <3>3, <4>1
    <3>4. CASE h[a].next # 0
      <4>1. h[a].next \in DOMAIN h /\ new < h[a].next
        BY <1>2, <3>4 DEF Ordered, Chained, Limit
      <4>2. \A c \in DOMAIN i : c <= new \/ h[a].next <= c
        BY <1>2, <1>3, <1>5, <1>9, <2>1
      <4> QED BY <1>2, <1>6, <2>2, <3>2, <3>4, <4>1, <4>2
    <3> QED BY <3>3, <3>4
  <2>3. CASE b = a /\ new # a
    <3>1. a < new /\ new # 0
      BY <1>2, <1>3, <2>1, <2>3
    <3>2. i[b].size = h[a].size /\ i[b].next = new /\ Limit(i, b) = new
      BY <1>6, <2>3, <3>1 DEF Limit
    <3>3. b + i[b].size <= Limit(i, b)
      BY <1>2, <2>3, <3>2 DEF new
    <3>4. \A c \in DOMAIN i : c <= a \/ new <= c
      BY <1>2, <1>5, <2>1
    <3> QED BY <1>2, <2>3, <3>1, <3>2, <3>3, <3>4
  <2>4. CASE b # a /\ b # new
    <3>1. b \in DOMAIN h /\ i[b] = h[b]
      BY <1>2, <2>4
    <3>2. b + i[b].size <= Limit(i, b)
      BY <3>1 DEF Ordered, Chained, Limit
    <3>3. CASE h[b].next = 0
      <4>1. \A c \in DOMAIN h : c <= b
        BY <3>1, <3>3 DEF Ordered, Chained
      <4>2. a < b
        BY <1>3, <1>5, <2>4, <3>1, <4>1
      <4>3. new < b
        BY <1>3, <1>5, <2>1, <3>1, <4>2
      <4> QED BY <1>2, <1>5, <3>1, <3>2, <3>3, <4>1, <4>3
    <3>4. CASE h[b].next # 0
      <4>1. /\ h[b].next \in DOMAIN h /\ b < h[b].next
            /\ \A c \in DOMAIN h : c <= b \/ h[b].next <= c
        BY <3>1, <3>4 DEF Ordered, Chained
      <4>2. new <= b \/ h[b].next <= new
        <5>1. CASE a <= b
          BY <1>2, <1>3, <1>5, <2>1, <2>4, <3>1, <5>1
        <5>2. CASE ~(a <= b)
          BY <1>2, <1>3, <1>5, <2>1, <3>1, <4>1, <5>2
        <5> QED BY <5>1, <5>2
      <4> QED BY <1>2, <3>1, <3>2, <3>4, <4>1, <4>2
    <3> QED BY <3>3, <3>4
  <2> QED BY <2>2, <2>3, <2>4
<1> QED BY <1>7, <1>8, <1>10 DEF Ordered, i

\* The caller owns one block more, and no other had its address.
LEMMA InsertOwned ==
  ASSUME NEW h, Ordered(h), NEW a \in DOMAIN h, NEW size \in Nat, size > Header,
         HasRoom(h, a, size)
  PROVE  LET ptr == a + h[a].size + Header IN
         /\ Owned(Insert(h, a, size)) = Owned(h) \cup {[ptr |-> ptr, len |-> size - Header]}
         /\ \A b \in Owned(h) : b.ptr # ptr
<1> DEFINE new == a + h[a].size
           i == Insert(h, a, size)
<1>1. size > 0 /\ Header \in Nat
  BY Block
<1>2. /\ new \in Nat
      /\ DOMAIN i = DOMAIN h \cup {new}
      /\ i[new] = Section(size, h[a].next)
      /\ new # a => new \notin DOMAIN h /\ i[a] = Section(h[a].size, new)
      /\ \A b \in DOMAIN h : b # a => i[b] = h[b]
  BY <1>1, Inserted
<1>3. a \in Nat /\ h[a].size \in Nat /\ (new = a <=> h[a].size = 0)
  BY SectionType
<1> HIDE DEF i, new
<1>4. i[new].size = size /\ (new # a => i[a].size = h[a].size)
  BY <1>2 DEF Section
<1>5. \A b \in DOMAIN h : b # new => i[b].size = h[b].size
  BY <1>2, <1>4
<1>6. new \in DOMAIN h => h[new].size = 0
  BY <1>2, <1>3
<1> DEFINE x == [ptr |-> new + Header, len |-> size - Header]
<1>7. BlockAt(i, new) = x
  BY <1>4 DEF BlockAt
<1>8. \A b \in DOMAIN h : b # new => BlockAt(i, b) = BlockAt(h, b)
  BY <1>5 DEF BlockAt
<1>9. Owned(i) = Owned(h) \cup {x}
  <2>1. ASSUME NEW y \in Owned(i) PROVE y \in Owned(h) \cup {x}
    <3>1. PICK b \in DOMAIN i : i[b].size # 0 /\ y = BlockAt(i, b)
      BY DEF Owned
    <3>2. CASE b = new
      BY <1>7, <3>1, <3>2
    <3>3. CASE b # new
      <4>1. b \in DOMAIN h /\ h[b].size # 0 /\ y = BlockAt(h, b)
        BY <1>2, <1>5, <1>8, <3>1, <3>3
      <4> QED BY <4>1 DEF Owned
    <3> QED BY <3>2, <3>3
  <2>2. ASSUME NEW y \in Owned(h) PROVE y \in Owned(i)
    <3>1. PICK b \in DOMAIN h : h[b].size # 0 /\ y = BlockAt(h, b)
      BY DEF Owned
    <3>2. b # new
      BY <1>6, <3>1
    <3>3. b \in DOMAIN i /\ i[b].size # 0 /\ y = BlockAt(i, b)
      BY <1>2, <1>5, <1>8, <3>1, <3>2
    <3> QED BY <3>3 DEF Owned
  <2>3. x \in Owned(i)
    BY <1>1, <1>2, <1>4, <1>7 DEF Owned
  <2> QED BY <2>1, <2>2, <2>3
<1>10. ASSUME NEW b \in Owned(h) PROVE b.ptr # new + Header
  <2>1. PICK c \in DOMAIN h : h[c].size # 0 /\ b = BlockAt(h, c)
    BY DEF Owned
  <2>2. c # new /\ c \in Nat
    BY <1>6, <2>1, SectionType
  <2>3. b.ptr = c + Header
    BY <2>1 DEF BlockAt
  <2> QED BY <1>1, <1>2, <2>2, <2>3
<1> QED BY <1>9, <1>10 DEF i, new

-----------------------------------------------------------------------------
(***************************************************************************)
(* What kfree does to the list.                                            *)
(***************************************************************************)

\* The list without the section a.
Without(h, a) ==
  IF a = mem_block_start THEN Put(h, a, Section(0, h[a].next))
  ELSE LET prev == CHOOSE b \in DOMAIN h : h[b].next = a IN
         Drop(Put(h, prev, Section(h[prev].size, h[a].next)), a)

\* A section that is not the first has one before it.
LEMMA Previous ==
  ASSUME NEW h, Ordered(h), NEW a \in DOMAIN h, a # mem_block_start
  PROVE  \E b \in DOMAIN h :
           /\ h[b].next = a /\ b < a
           /\ b = CHOOSE c \in DOMAIN h : h[c].next = a
           /\ \A c \in DOMAIN h : c <= b \/ a <= c
<1>1. a \in Nat /\ mem_block_start < a /\ a # 0
  BY SectionType, Block
<1>2. a - 1 \in Nat /\ mem_block_start <= a - 1
  BY <1>1, Block
<1>3. PICK b \in DOMAIN h : b <= a - 1 /\ \A c \in DOMAIN h : c <= b \/ a - 1 < c
  BY <1>2, Floor
<1>4. \A c \in DOMAIN h : c \in Nat /\ h[c].next \in Nat
  BY SectionType
<1>5. b < a /\ \A c \in DOMAIN h : c <= b \/ a <= c
  BY <1>1, <1>3, <1>4
<1>6. h[b].next # 0 /\ h[b].next \in DOMAIN h /\ b < h[b].next /\ h[b].next <= a
  BY <1>1, <1>4, <1>5 DEF Ordered, Chained
<1>7. h[b].next = a
  BY <1>1, <1>4, <1>5, <1>6
<1> DEFINE prev == CHOOSE c \in DOMAIN h : h[c].next = a
<1>8. prev \in DOMAIN h /\ h[prev].next = a
  BY <1>7
<1> HIDE DEF prev
<1>9. prev < a /\ \A c \in DOMAIN h : c <= prev \/ a <= c
  BY <1>1, <1>8 DEF Ordered, Chained
<1>10. prev = b
  BY <1>1, <1>4, <1>5, <1>8, <1>9
<1> QED BY <1>5, <1>7, <1>10 DEF prev

\* The first section becomes free; another one goes, and the section before it
\* takes over what comes next.
FirstFreed(h, w) ==
  /\ DOMAIN w = DOMAIN h /\ w[mem_block_start] = Section(0, h[mem_block_start].next)
  /\ \A b \in DOMAIN h : b # mem_block_start => w[b] = h[b]

LaterFreed(h, a, w) ==
  /\ DOMAIN w = DOMAIN h \ {a}
  /\ \E b \in DOMAIN h :
       /\ b < a /\ h[b].next = a
       /\ \A c \in DOMAIN h : c <= b \/ a <= c
       /\ w[b] = Section(h[b].size, h[a].next)
       /\ \A c \in DOMAIN h : c # a /\ c # b => w[c] = h[c]

\* What kfree leaves of the list.
LEMMA Freed ==
  ASSUME NEW h, Ordered(h), NEW a \in DOMAIN h, NEW w, w = Without(h, a)
  PROVE  /\ w \in [DOMAIN w -> [size : Nat, next : Nat]]
         /\ a = mem_block_start => FirstFreed(h, w)
         /\ a # mem_block_start => LaterFreed(h, a, w)
<1>1. \A b \in DOMAIN h : /\ h[b] \in [size : Nat, next : Nat]
                          /\ h[b].size \in Nat /\ h[b].next \in Nat /\ b \in Nat
  BY SectionType DEF Ordered, Listed
<1>2. \A n \in Nat : \A m \in Nat : Section(n, m) \in [size : Nat, next : Nat]
  BY DEF Section
<1>3. CASE a = mem_block_start
  <2>1. w = Put(h, a, Section(0, h[a].next))
    BY <1>3 DEF Without
  <2>2. /\ DOMAIN w = DOMAIN h /\ w[a] = Section(0, h[a].next)
        /\ \A b \in DOMAIN h : b # a => w[b] = h[b]
    BY <2>1 DEF Put
  <2>3. w = [b \in DOMAIN w |-> w[b]]
    BY <2>1 DEF Put
  <2>4. 0 \in Nat
    OBVIOUS
  <2>5. w \in [DOMAIN w -> [size : Nat, next : Nat]]
    BY <1>1, <1>2, <2>2, <2>3, <2>4
  <2> QED BY <1>3, <2>2, <2>5 DEF FirstFreed
<1>4. CASE a # mem_block_start
  <2>1. PICK b \in DOMAIN h :
          /\ h[b].next = a /\ b < a
          /\ b = CHOOSE c \in DOMAIN h : h[c].next = a
          /\ \A c \in DOMAIN h : c <= b \/ a <= c
    BY <1>4, Previous
  <2>2. w = Drop(Put(h, b, Section(h[b].size, h[a].next)), a)
    BY <1>4, <2>1 DEF Without
  <2>3. b # a
    <3>1. a \in Nat /\ b \in Nat
      BY <1>1
    <3>2. b < a
      BY <2>1
    <3> QED BY <3>1, <3>2
  <2>4. /\ DOMAIN w = DOMAIN h \ {a} /\ w[b] = Section(h[b].size, h[a].next)
        /\ \A c \in DOMAIN h : c # a /\ c # b => w[c] = h[c]
    BY <2>2, <2>3 DEF Put, Drop
  <2>5. w = [c \in DOMAIN w |-> w[c]]
    BY <2>2 DEF Drop
  <2>6. w \in [DOMAIN w -> [size : Nat, next : Nat]]
    BY <1>1, <1>2, <2>4, <2>5
  <2> QED BY <1>4, <2>1, <2>4, <2>6 DEF LaterFreed
<1> QED BY <1>3, <1>4

\* The list with one section less is a list.
LEMMA FreedOrdered ==
  ASSUME NEW h, Ordered(h), NEW a \in DOMAIN h
  PROVE  Ordered(Without(h, a))
<1> DEFINE w == Without(h, a)
<1>1. \A b \in DOMAIN h : /\ b \in Nat /\ h[b].size \in Nat /\ h[b].next \in Nat
                          /\ b # 0 /\ b + h[b].size <= Limit(h, b)
  BY SectionType
<1>2. w \in [DOMAIN w -> [size : Nat, next : Nat]]
  BY Freed
<1>3. (0 % Word) = 0 /\ mem_block_start \in Nat
  BY Wraps, Block
<1>4. CASE a = mem_block_start
  <2>1. /\ DOMAIN w = DOMAIN h /\ w[a] = Section(0, h[a].next)
        /\ \A b \in DOMAIN h : b # a => w[b] = h[b]
    BY <1>4, Freed DEF FirstFreed
  <2>2. w[a].size = 0 /\ \A b \in DOMAIN h : w[b].next = h[b].next
    BY <2>1 DEF Section
  <2> HIDE DEF w
  <2>3. Listed(w)
    BY <1>2, <2>1 DEF Ordered, Listed
  <2>4. Aligned(w)
    BY <1>3, <1>4, <2>1, <2>2 DEF Ordered, Aligned
  <2>5. Chained(w)
    <3>1. ASSUME NEW b \in DOMAIN w PROVE b + w[b].size <= Limit(w, b)
      <4>1. Limit(w, b) = Limit(h, b)
        BY <2>1, <2>2 DEF Limit
      <4>2. w[b].size = h[b].size \/ w[b].size = 0
        BY <2>1, <2>2
      <4>3. b + 0 <= b + h[b].size /\ b + h[b].size <= Limit(h, b) /\ Limit(h, b) \in Nat
        BY <1>1, <2>1, SectionType
      <4> QED BY <1>1, <2>1, <4>1, <4>2, <4>3
    <3> QED BY <2>1, <2>2, <3>1 DEF Ordered, Chained
  <2> QED BY <2>3, <2>4, <2>5 DEF Ordered, w
<1>5. CASE a # mem_block_start
  <2>0. LaterFreed(h, a, w)
    BY <1>5, Freed
  <2>1. DOMAIN w = DOMAIN h \ {a}
    BY <2>0 DEF LaterFreed
  <2>2. PICK b \in DOMAIN h :
          /\ b < a /\ h[b].next = a
          /\ \A c \in DOMAIN h : c <= b \/ a <= c
          /\ w[b] = Section(h[b].size, h[a].next)
          /\ \A c \in DOMAIN h : c # a /\ c # b => w[c] = h[c]
    BY <2>0 DEF LaterFreed
  <2>3. /\ b # a /\ b \in DOMAIN w /\ w[b].size = h[b].size /\ w[b].next = h[a].next
        /\ \A c \in DOMAIN w : c \in DOMAIN h /\ w[c].size = h[c].size
    BY <1>1, <2>1, <2>2 DEF Section
  <2> HIDE DEF w
  <2>4. Listed(w)
    BY <1>2, <1>5, <2>1 DEF Ordered, Listed
  <2>5. Aligned(w)
    BY <2>3 DEF Ordered, Aligned
  <2>6. Chained(w)
    <3> SUFFICES ASSUME NEW c \in DOMAIN w
                 PROVE  /\ c + w[c].size <= Limit(w, c)
                        /\ IF w[c].next = 0
                             THEN \A d \in DOMAIN w : d <= c
                             ELSE /\ w[c].next \in DOMAIN w /\ c < w[c].next
                                  /\ \A d \in DOMAIN w : d <= c \/ w[c].next <= d
      BY DEF Chained
    <3>1. CASE c = b
      <4>1. b + h[b].size <= a
        BY <1>1, <2>2, Apart
      <4>2. CASE h[a].next = 0
        <5>1. \A d \in DOMAIN h : d <= a
          BY <4>2 DEF Ordered, Chained
        <5>2. \A d \in DOMAIN w : d <= b
          BY <1>1, <2>1, <2>2, <2>3, <5>1
        <5>3. Limit(w, b) = Limit(h, a) /\ a <= Limit(h, a)
          BY <1>1, <2>3, SectionType DEF Limit
        <5>4. b + w[b].size <= Limit(w, b)
          BY <1>1, <2>3, <4>1, <5>3, SectionType
        <5> QED BY <2>3, <3>1, <4>2, <5>2, <5>4
      <4>3. CASE h[a].next # 0
        <5>1. /\ h[a].next \in DOMAIN h /\ a < h[a].next
              /\ \A d \in DOMAIN h : d <= a \/ h[a].next <= d
          BY <4>3 DEF Ordered, Chained
        <5>2. h[a].next \in DOMAIN w /\ b < h[a].next
          BY <1>1, <2>1, <2>2, <5>1
        <5>3. \A d \in DOMAIN w : d <= b \/ h[a].next <= d
          BY <1>1, <2>1, <2>2, <2>3, <5>1
        <5>4. b + w[b].size <= Limit(w, b)
          BY <1>1, <2>3, <4>1, <4>3, <5>1 DEF Limit
        <5> QED BY <2>3, <3>1, <4>3, <5>2, <5>3, <5>4
      <4> QED BY <4>2, <4>3
    <3>2. CASE c # b
      <4>1. c \in DOMAIN h /\ c # a /\ w[c] = h[c] /\ Limit(w, c) = Limit(h, c)
        BY <2>1, <2>2, <2>3, <3>2 DEF Limit
      <4>2. h[c].next # a
        <5>1. SUFFICES ASSUME h[c].next = a PROVE FALSE
          OBVIOUS
        <5>2. c < a /\ \A d \in DOMAIN h : d <= c \/ a <= d
          BY <1>1, <4>1, <5>1 DEF Ordered, Chained
        <5> QED BY <1>1, <2>2, <3>2, <4>1, <5>2
      <4> QED BY <2>1, <2>3, <4>1, <4>2 DEF Ordered, Chained
    <3> QED BY <3>1, <3>2
  <2> QED BY <2>4, <2>5, <2>6 DEF Ordered, w
<1> QED BY <1>4, <1>5

\* Exactly the block at the section is taken from the caller.
LEMMA FreedOwned ==
  ASSUME NEW h, Ordered(h), NEW a \in DOMAIN h, h[a].size # 0
  PROVE  Owned(Without(h, a)) = {b \in Owned(h) : b.ptr # a + Header}
<1> DEFINE w == Without(h, a)
<1>1. \A b \in DOMAIN h : b \in Nat /\ h[b].size \in Nat
  BY SectionType
<1>2. /\ DOMAIN w \subseteq DOMAIN h
      /\ a \in DOMAIN w => w[a].size = 0
      /\ \A b \in DOMAIN h : b # a => b \in DOMAIN w /\ w[b].size = h[b].size
  <2>1. CASE a = mem_block_start
    <3>1. /\ DOMAIN w = DOMAIN h /\ w[a] = Section(0, h[a].next)
          /\ \A b \in DOMAIN h : b # a => w[b] = h[b]
      BY <2>1, Freed DEF FirstFreed
    <3> HIDE DEF w
    <3> QED BY <3>1 DEF Section
  <2>2. CASE a # mem_block_start
    <3>0. LaterFreed(h, a, w)
      BY <2>2, Freed
    <3>1. DOMAIN w = DOMAIN h \ {a}
      BY <3>0 DEF LaterFreed
    <3>2. PICK b \in DOMAIN h :
            /\ w[b] = Section(h[b].size, h[a].next)
            /\ \A c \in DOMAIN h : c # a /\ c # b => w[c] = h[c]
      BY <3>0 DEF LaterFreed
    <3> HIDE DEF w
    <3> QED BY <3>1, <3>2 DEF Section
  <2> QED BY <2>1, <2>2
<1> HIDE DEF w
<1>3. \A b \in DOMAIN h : b # a => BlockAt(w, b) = BlockAt(h, b)
  BY <1>2 DEF BlockAt
<1>4. \A b \in DOMAIN h : BlockAt(h, b).ptr # a + Header <=> b # a
  BY <1>1, Block DEF BlockAt
<1>5. ASSUME NEW y \in Owned(w) PROVE y \in Owned(h) /\ y.ptr # a + Header
  <2>1. PICK b \in DOMAIN w : w[b].size # 0 /\ y = BlockAt(w, b)
    BY DEF Owned
  <2>2. b \in DOMAIN h /\ b # a /\ h[b].size # 0 /\ y = BlockAt(h, b)
    BY <1>2, <1>3, <2>1
  <2> QED BY <1>4, <2>2 DEF Owned
<1>6. ASSUME NEW y \in Owned(h), y.ptr # a + Header PROVE y \in Owned(w)
  <2>1. PICK b \in DOMAIN h : h[b].size # 0 /\ y = BlockAt(h, b)
    BY DEF Owned
  <2>2. b # a
    BY <1>4, <1>6, <2>1
  <2>3. b \in DOMAIN w /\ w[b].size # 0 /\ y = BlockAt(w, b)
    BY <1>2, <1>3, <2>1, <2>2
  <2> QED BY <2>3 DEF Owned
<1> QED BY <1>5, <1>6 DEF w

-----------------------------------------------------------------------------
(***************************************************************************)
(* The invariant.                                                          *)
(***************************************************************************)

\* The list is a list, the caller owns what it says, and what kmalloc_stack
\* keeps above a stack is the address of a block.
HeapInv ==
  /\ Ordered(heap)
  /\ live = Owned(heap)
  /\ stacks \in [DOMAIN stacks -> Nat] /\ DOMAIN stacks \subseteq Nat
  /\ \A sp \in DOMAIN stacks : stacks[sp] \in Pointers

\* The size that is asked for is rounded, and a section as long as that lies
\* where there is room.
LEMMA Grants ==
  ASSUME NEW n \in 0..(Modulus - 1), Ordered(heap), live = Owned(heap)
  PROVE  LET r == KmallocIn(heap, n) IN
         \/ r.ptr = 0 /\ r.heap = heap
         \/ /\ r.ptr # 0 /\ r.ptr \in Pointers
            /\ Ordered(r.heap)
            /\ Owned(r.heap) = live \cup {[ptr |-> r.ptr, len |-> RoundUp(n)]}
            /\ \A b \in live : b.ptr # r.ptr
            /\ n > 0 /\ RoundUp(n) = Rounded(n)
<1> DEFINE r == KmallocIn(heap, n)
           full == Rounded(n) + Header
<1>1. CASE r = [heap |-> heap, ptr |-> 0]
  BY <1>1
<1>2. CASE \E a \in DOMAIN heap :
             /\ n > 0 /\ RoundUp(n) = Rounded(n)
             /\ HasRoom(heap, a, full)
             /\ r = [heap |-> Insert(heap, a, full), ptr |-> a + heap[a].size + Header]
  <2>1. PICK a \in DOMAIN heap :
          /\ n > 0 /\ RoundUp(n) = Rounded(n)
          /\ HasRoom(heap, a, full)
          /\ r = [heap |-> Insert(heap, a, full), ptr |-> a + heap[a].size + Header]
    BY <1>2
  <2>2. Rounded(n) \in Nat /\ n <= Rounded(n) /\ (Rounded(n) % Word) = 0
    BY RoundUpWraps
  <2>3. Header \in Nat /\ Word \in Nat /\ Word > 0
    BY Block
  <2>4. full \in Nat /\ full > Header /\ full - Header = Rounded(n)
    BY <2>1, <2>2, <2>3
  <2>5. full >= Header + Word
    <3>1. Rounded(n) >= Word
      <4>1. Rounded(n) < Word => (Rounded(n) % Word) = Rounded(n)
        BY <2>2, <2>3, Wraps
      <4> QED BY <2>1, <2>2, <2>3, <4>1
    <3> QED BY <2>2, <2>3, <3>1
  <2>6. (full % Word) = 0
    <3>1. Rounded(n) \in Int /\ Header \in Int
      BY <2>2, <2>3
    <3> QED BY <2>2, <3>1, AlignedSum, Block
  <2>7. /\ a \in Nat /\ heap[a].size \in Nat /\ mem_block_start <= a
        /\ Limit(heap, a) \in Nat /\ Limit(heap, a) <= mem_block_end
    BY SectionType
  <2>8. r.ptr = a + heap[a].size + Header /\ r.heap = Insert(heap, a, full)
    BY <2>1
  <2>9. r.ptr \in Pointers /\ r.ptr # 0
    <3>1. a + heap[a].size + full <= mem_block_end
      BY <2>1, <2>4, <2>7, Block DEF HasRoom
    <3>2. r.ptr \in mem_block_start..mem_block_end /\ r.ptr # 0
      BY <2>3, <2>4, <2>7, <2>8, <3>1, Block
    <3>3. a \in Int /\ heap[a].size \in Int /\ Header \in Int /\ a + heap[a].size \in Int
      BY <2>3, <2>7
    <3>4. (a % Word) = 0 /\ (heap[a].size % Word) = 0
      BY DEF Ordered, Aligned
    <3>5. ((a + heap[a].size) % Word) = 0
      BY <3>3, <3>4, AlignedSum, Block
    <3>6. ((a + heap[a].size + Header) % Word) = 0
      BY <3>3, <3>5, AlignedSum, Block
    <3> QED BY <2>8, <3>2, <3>6 DEF Pointers
  <2> HIDE DEF full, r
  <2>10. Ordered(r.heap)
    BY <2>1, <2>4, <2>5, <2>6, <2>8, InsertOrdered
  <2>11. /\ Owned(r.heap) = live \cup {[ptr |-> r.ptr, len |-> full - Header]}
         /\ \A b \in live : b.ptr # r.ptr
    BY <2>1, <2>4, <2>8, InsertOwned
  <2> QED BY <2>1, <2>4, <2>9, <2>10, <2>11 DEF r
<1> QED BY <1>1, <1>2, Finds

\* kfree takes back exactly the block it is given, and nothing if it is given
\* what is no block.
LEMMA TakesBack ==
  ASSUME NEW ptr \in Pointers, Ordered(heap), live = Owned(heap)
  PROVE  /\ Ordered(KfreeIn(heap, ptr))
         /\ Owned(KfreeIn(heap, ptr)) = {b \in live : b.ptr # ptr}
<1> DEFINE a == (ptr - Header) % Modulus
<1>1. ptr \in Nat /\ ptr <= mem_block_end /\ Header \in Nat \ {0} /\ Modulus \in Nat
      /\ mem_block_end \in Nat /\ mem_block_end + Header <= Modulus
      /\ mem_block_start \in Nat
  BY Block DEF Pointers
<1>2. \A b \in DOMAIN heap : b \in Nat /\ InBlock(b) /\ b < mem_block_end
  BY SectionType DEF InBlock
<1>3. \/ a = ptr - Header
      \/ a = ptr - Header + Modulus /\ ptr < Header
  <2> DEFINE x == ptr - Header
  <2>1. x \in Int /\ x < Modulus /\ -Modulus <= x /\ (x < 0 => ptr < Header)
    BY <1>1
  <2> HIDE DEF x
  <2>2. (0 <= x => (x % Modulus) = x) /\ (x < 0 => (x % Modulus) = x + Modulus)
    BY <1>1, <2>1, Wraps
  <2> QED BY <2>1, <2>2 DEF x
<1> HIDE DEF a
<1>4. a \in DOMAIN heap => a + Header = ptr
  BY <1>1, <1>2, <1>3
<1>5. CASE a \in DOMAIN heap /\ heap[a].size # 0
  <2>1. KfreeIn(heap, ptr) = Without(heap, a)
    BY <1>2, <1>5 DEF KfreeIn, Without, a
  <2> QED BY <1>4, <1>5, <2>1, FreedOrdered, FreedOwned
<1>6. CASE ~(a \in DOMAIN heap /\ heap[a].size # 0)
  <2>1. KfreeIn(heap, ptr) = heap
    BY <1>6 DEF KfreeIn, a
  <2>2. ASSUME NEW b \in live PROVE b.ptr # ptr
    <3>1. PICK c \in DOMAIN heap : heap[c].size # 0 /\ b.ptr = c + Header
      BY DEF Owned, BlockAt
    <3>2. SUFFICES ASSUME c + Header = ptr PROVE FALSE
      BY <3>1
    <3>3. c = a
      BY <1>1, <1>2, <1>3, <3>2
    <3> QED BY <1>6, <3>1, <3>3
  <2> QED BY <2>1, <2>2
<1> QED BY <1>5, <1>6

\* The first section is free at first.
LEMMA InitHeapInv == Init => HeapInv
<1> SUFFICES ASSUME Init PROVE HeapInv
  OBVIOUS
<1>1. /\ DOMAIN heap = {mem_block_start}
      /\ heap[mem_block_start] = [size |-> 0, next |-> 0]
      /\ heap = [a \in DOMAIN heap |-> heap[a]]
  BY DEF Init
<1>2. heap[mem_block_start].size = 0 /\ heap[mem_block_start].next = 0
  BY <1>1
<1>3. \A b \in DOMAIN heap : heap[b] \in [size : Nat, next : Nat]
  BY <1>1
<1>4. Listed(heap)
  BY <1>1, <1>3, Block DEF Listed
<1>5. Aligned(heap)
  BY <1>1, <1>2, Wraps, Block DEF Aligned
<1>6. Chained(heap)
  BY <1>1, <1>2, Block DEF Chained, Limit
<1>7. Owned(heap) = {} /\ live = {} /\ stacks = [sp \in {} |-> 0]
  BY <1>1, <1>2 DEF Owned, Init
<1> QED BY <1>4, <1>5, <1>6, <1>7 DEF HeapInv, Ordered

\* Every call keeps the invariant.
LEMMA NextHeapInv == HeapInv /\ [Next]_vars => HeapInv'
<1> SUFFICES ASSUME HeapInv, [Next]_vars PROVE HeapInv'
  OBVIOUS
<1> USE DEF HeapInv
<1>1. ASSUME NEW n \in Sizes, Kmalloc(n) PROVE HeapInv'
  <2> DEFINE r == KmallocIn(heap, n)
  <2>1. n \in 0..(Modulus - 1)
    BY KmallocAssumption
  <2>2. /\ heap' = r.heap /\ UNCHANGED stacks
        /\ live' = IF r.ptr = 0 THEN live
                   ELSE live \cup {[ptr |-> r.ptr, len |-> RoundUp(n)]}
    BY <1>1 DEF Kmalloc
  <2>3. Ordered(heap') /\ live' = Owned(heap')
    BY <2>1, <2>2, Grants
  <2> QED BY <2>2, <2>3 DEF Pointers
<1>2. ASSUME NEW ptr \in Pointers, Kfree(ptr) PROVE HeapInv'
  BY <1>2, TakesBack DEF Kfree
<1>3. ASSUME NEW n \in StackSizes, KmallocStack(n) PROVE HeapInv'
  <2> DEFINE size == (n + 32) % Modulus
             r == KmallocIn(heap, size)
             top == r.ptr + n + 16
             sp == top - (top % 16)
  <2>1. n \in Nat /\ size \in 0..(Modulus - 1)
    <3>1. n \in Nat /\ n + 32 \in Int
      BY KmallocAssumption
    <3> QED BY <3>1, Divided, Block
  <2>2. /\ heap' = r.heap
        /\ IF r.ptr = 0 THEN UNCHANGED <<live, stacks>>
           ELSE /\ stacks' = Put(stacks, sp, r.ptr)
                /\ live' = live \cup {[ptr |-> r.ptr, len |-> RoundUp(size)]}
    BY <1>3 DEF KmallocStack
  <2> HIDE DEF size
  <2>3. Ordered(heap') /\ live' = Owned(heap')
    BY <2>1, <2>2, Grants
  <2>4. /\ stacks' \in [DOMAIN stacks' -> Nat] /\ DOMAIN stacks' \subseteq Nat
        /\ \A s \in DOMAIN stacks' : stacks'[s] \in Pointers
    <3>1. CASE r.ptr = 0
      BY <2>2, <3>1
    <3>2. CASE r.ptr # 0
      <4>1. r.ptr \in Pointers /\ r.ptr \in Nat
        BY <2>1, <3>2, Grants, Block DEF Pointers
      <4>2. top \in Int
        BY <2>1, <4>1
      <4>3. sp \in Nat
        <5> HIDE DEF top
        <5>1. (top % 16) \in 0..15 /\ (top % 16) <= top
          BY <2>1, <4>1, <4>2 DEF top
        <5> QED BY <4>2, <5>1
      <4> HIDE DEF sp, r
      <4>4. stacks' = Put(stacks, sp, r.ptr)
        BY <2>2, <3>2
      <4> QED BY <4>1, <4>3, <4>4 DEF Put
    <3> QED BY <3>1, <3>2
  <2> QED BY <2>3, <2>4
<1>4. ASSUME NEW sp \in DOMAIN stacks, KfreeStack(sp - 16) PROVE HeapInv'
  <2>1. sp \in Nat /\ sp - 16 + 16 = sp /\ stacks[sp] \in Pointers
    BY DEF HeapInv
  <2>2. /\ heap' = KfreeIn(heap, stacks[sp])
        /\ live' = {b \in live : b.ptr # stacks[sp]}
        /\ stacks' = Drop(stacks, sp)
    BY <1>4, <2>1 DEF KfreeStack
  <2>3. Ordered(heap') /\ live' = Owned(heap')
    BY <2>1, <2>2, TakesBack
  <2>4. /\ stacks' \in [DOMAIN stacks' -> Nat] /\ DOMAIN stacks' \subseteq Nat
        /\ \A s \in DOMAIN stacks' : stacks'[s] \in Pointers
    BY <2>2 DEF Drop
  <2> QED BY <2>3, <2>4
<1>5. CASE UNCHANGED vars
  BY <1>5 DEF vars
<1> QED BY <1>1, <1>2, <1>3, <1>4, <1>5 DEF Next

\* Whatever is allocated and freed, the heap stays a list of sections that are
\* what the caller owns.
THEOREM HeapInvariant == Spec => []HeapInv
BY InitHeapInv, NextHeapInv, PTL DEF Spec

\* The list stays in the order of the addresses, and no two sections overlap.
THEOREM ListStaysOrdered == Spec => []ListOrdered
<1>1. HeapInv => ListOrdered
  <2> SUFFICES ASSUME HeapInv PROVE ListOrdered
    OBVIOUS
  <2>1. \A a \in DOMAIN heap :
          /\ InBlock(a) /\ (a % Word) = 0
          /\ heap[a].size >= IF a = mem_block_start THEN 0 ELSE Header + Word
    <3> SUFFICES ASSUME NEW a \in DOMAIN heap
                 PROVE  /\ InBlock(a) /\ (a % Word) = 0
                        /\ heap[a].size >= IF a = mem_block_start THEN 0 ELSE Header + Word
      OBVIOUS
    <3>1. a \in Nat /\ heap[a].size \in Nat /\ InBlock(a)
      BY SectionType DEF HeapInv, InBlock
    <3>2. /\ (a % Word) = 0
          /\ heap[a].size >= Header + Word \/ (a = mem_block_start /\ heap[a].size = 0)
      BY DEF HeapInv, Ordered, Aligned
    <3> QED BY <3>1, <3>2, Block
  <2>2. mem_block_start \in DOMAIN heap /\ Chained(heap)
    BY DEF HeapInv, Ordered, Listed
  <2> QED BY <2>1, <2>2 DEF ListOrdered, Chained, Limit
<1> QED BY <1>1, HeapInvariant, PTL

\* What is listed is what the caller owns: nothing is lost, and nothing is given
\* out twice.
THEOREM ListStaysOwned == Spec => []ListOwned
<1>1. HeapInv => ListOwned
  BY DEF HeapInv, ListOwned, Owned, BlockAt
<1> QED BY <1>1, HeapInvariant, PTL

-----------------------------------------------------------------------------
(***************************************************************************)
(* The stacks.  kmalloc_stack does not check that size + 0x20 does not     *)
(* wrap: that is left to its caller, which asks for STACK_SIZE             *)
(* (main.c:130).                                                           *)
(***************************************************************************)
StacksBelowWrap == \A n \in StackSizes : n + 32 < Modulus

\* No two stacks are in the same block.
StackInv ==
  /\ HeapInv
  /\ StacksUsable
  /\ \A s \in DOMAIN stacks : \A t \in DOMAIN stacks : stacks[s] = stacks[t] => s = t

\* A stack and the block it is in.
UsableStack(ptr, sp, b) ==
  /\ (sp % 16) = 0
  /\ b.ptr = ptr
  /\ \E n \in StackSizes : b.len = RoundUp(n + 32) /\ sp - b.ptr >= n
  /\ sp + Word <= b.ptr + b.len

\* The address of a block that kmalloc_stack rounds down leaves a stack of the
\* size that was asked for below it, and room for a word above.
LEMMA StackFits ==
  ASSUME StacksBelowWrap, NEW n \in StackSizes, NEW ptr \in Nat
  PROVE  LET top == ptr + n + 16
             sp == top - (top % 16) IN
         UsableStack(ptr, sp, [ptr |-> ptr, len |-> RoundUp((n + 32) % Modulus)])
           \/ RoundUp(n + 32) # Rounded(n + 32)
<1> SUFFICES ASSUME RoundUp(n + 32) = Rounded(n + 32)
             PROVE  LET top == ptr + n + 16
                        sp == top - (top % 16) IN
                    UsableStack(ptr, sp, [ptr |-> ptr, len |-> RoundUp((n + 32) % Modulus)])
  OBVIOUS
<1> DEFINE top == ptr + n + 16
           sp == top - (top % 16)
<1>1. n \in Nat /\ n + 32 \in Nat /\ n + 32 < Modulus
  BY KmallocAssumption DEF StacksBelowWrap
<1>2. ((n + 32) % Modulus) = n + 32
  <2>1. Modulus \in Nat
    BY Block
  <2> DEFINE x == n + 32
  <2>2. x \in Int /\ 0 <= x /\ x < Modulus
    BY <1>1
  <2> HIDE DEF x
  <2>3. (x % Modulus) = x
    BY <2>1, <2>2, Wraps
  <2> QED BY <2>3 DEF x
<1>3. RoundUp(n + 32) \in Nat /\ RoundUp(n + 32) >= n + 32
  <2>1. Rounded(n + 32) \in Nat /\ n + 32 <= Rounded(n + 32)
    BY <1>1, RoundUpWraps
  <2> QED BY <1>1, <2>1
<1>4. top \in Int /\ top = ptr + n + 16
  BY <1>1
<1> HIDE DEF top
<1>5. (top % 16) \in 0..15
  BY <1>4
<1>6. (sp % 16) = 0
  <2>1. PICK q \in Int : top = 16 * q + (top % 16)
    BY <1>4, Divided
  <2>2. sp = 16 * q + 0
    BY <1>4, <1>5, <2>1
  <2> QED BY <2>2, LeftOver
<1>7. sp - ptr >= n
  BY <1>1, <1>4, <1>5
<1>8. sp + Word <= ptr + RoundUp(n + 32)
  BY <1>1, <1>3, <1>4, <1>5, Block
<1> HIDE DEF sp
<1> DEFINE b == [ptr |-> ptr, len |-> RoundUp((n + 32) % Modulus)]
<1>9. b.ptr = ptr /\ b.len = RoundUp(n + 32)
  BY <1>2
<1> HIDE DEF b
<1>10. UsableStack(ptr, sp, b)
  BY <1>6, <1>7, <1>8, <1>9 DEF UsableStack
<1> QED BY <1>10 DEF top, sp, b

\* Every call keeps the stacks apart and usable.
LEMMA NextStackInv == StacksBelowWrap /\ StackInv /\ [Next]_vars => StackInv'
<1> SUFFICES ASSUME StacksBelowWrap, StackInv, [Next]_vars PROVE StackInv'
  OBVIOUS
<1>1. HeapInv /\ HeapInv'
  BY NextHeapInv DEF StackInv
<1>2. /\ Ordered(heap) /\ live = Owned(heap)
      /\ \A s \in DOMAIN stacks : \A t \in DOMAIN stacks : stacks[s] = stacks[t] => s = t
      /\ \A s \in DOMAIN stacks : \E b \in live : UsableStack(stacks[s], s, b)
  BY <1>1 DEF HeapInv, StackInv, StacksUsable, UsableStack
<1>3. (\A s \in DOMAIN stacks' : \E b \in live' : UsableStack(stacks'[s], s, b))
        => StacksUsable'
  BY DEF StacksUsable, UsableStack
<1>4. SUFFICES /\ \A s \in DOMAIN stacks' : \E b \in live' : UsableStack(stacks'[s], s, b)
               /\ \A s \in DOMAIN stacks' : \A t \in DOMAIN stacks' :
                    stacks'[s] = stacks'[t] => s = t
  BY <1>1, <1>3 DEF StackInv
<1>5. ASSUME NEW n \in Sizes, Kmalloc(n)
      PROVE  live \subseteq live' /\ UNCHANGED stacks
  BY <1>5 DEF Kmalloc
<1>6. CASE \E n \in Sizes : Kmalloc(n)
  BY <1>2, <1>5, <1>6
<1>7. CASE \E ptr \in Pointers : ~IsStack(ptr) /\ Kfree(ptr)
  <2>1. PICK ptr \in Pointers : ~IsStack(ptr) /\ Kfree(ptr)
    BY <1>7
  <2>2. UNCHANGED stacks /\ live' = {b \in live : b.ptr # ptr}
        /\ \A s \in DOMAIN stacks : stacks[s] # ptr
    BY <2>1 DEF Kfree, IsStack
  <2> QED BY <1>2, <2>2 DEF UsableStack
<1>8. CASE \E n \in StackSizes : KmallocStack(n)
  <2>1. PICK n \in StackSizes : KmallocStack(n)
    BY <1>8
  <2> DEFINE size == (n + 32) % Modulus
             r == KmallocIn(heap, size)
             top == r.ptr + n + 16
             sp == top - (top % 16)
             new == [ptr |-> r.ptr, len |-> RoundUp(size)]
  <2>2. IF r.ptr = 0 THEN UNCHANGED <<live, stacks>>
        ELSE stacks' = Put(stacks, sp, r.ptr) /\ live' = live \cup {new}
    BY <2>1 DEF KmallocStack
  <2>3. n \in Nat /\ n + 32 < Modulus /\ size = n + 32 /\ size \in 0..(Modulus - 1)
    <3>1. n \in Nat /\ n + 32 < Modulus
      BY KmallocAssumption DEF StacksBelowWrap
    <3> DEFINE x == n + 32
    <3>2. x \in Int /\ 0 <= x /\ x < Modulus
      BY <3>1
    <3> HIDE DEF x
    <3>3. (x % Modulus) = x
      BY <3>2, Wraps, Block
    <3> QED BY <3>1, <3>2, <3>3, Block DEF x
  <2>4. CASE r.ptr = 0
    BY <1>2, <2>2, <2>4
  <2>5. CASE r.ptr # 0
    <3>1. /\ r.ptr \in Pointers /\ RoundUp(size) = Rounded(size)
          /\ \A b \in live : b.ptr # r.ptr
      BY <1>2, <2>3, <2>5, Grants
    <3>2. r.ptr \in Nat
      BY <3>1, Block DEF Pointers
    <3>3. RoundUp(n + 32) = Rounded(n + 32)
      BY <2>3, <3>1
    <3>4. UsableStack(r.ptr, sp, new)
      BY <3>2, <3>3, StackFits
    <3> HIDE DEF size, r, sp, new
    <3>5. /\ DOMAIN stacks' = DOMAIN stacks \cup {sp} /\ stacks'[sp] = r.ptr
          /\ \A s \in DOMAIN stacks : s # sp => stacks'[s] = stacks[s]
          /\ live \subseteq live' /\ new \in live'
      BY <2>2, <2>5 DEF Put
    <3>6. \A s \in DOMAIN stacks : stacks[s] # r.ptr
      BY <1>2, <3>1 DEF UsableStack
    <3> QED BY <1>2, <3>4, <3>5, <3>6
  <2> QED BY <2>4, <2>5
<1>9. CASE \E sp \in DOMAIN stacks : KfreeStack(sp - 16)
  <2>1. PICK sp \in DOMAIN stacks : KfreeStack(sp - 16)
    BY <1>9
  <2>2. sp \in Nat /\ sp - 16 + 16 = sp
    BY <1>1 DEF HeapInv
  <2>3. /\ live' = {b \in live : b.ptr # stacks[sp]}
        /\ stacks' = Drop(stacks, sp)
    BY <2>1, <2>2 DEF KfreeStack
  <2>4. /\ DOMAIN stacks' = DOMAIN stacks \ {sp}
        /\ \A s \in DOMAIN stacks' : stacks'[s] = stacks[s]
    BY <2>3 DEF Drop
  <2>5. \A s \in DOMAIN stacks' : stacks[s] # stacks[sp]
    BY <1>2, <2>4
  <2> QED BY <1>2, <2>3, <2>4, <2>5 DEF UsableStack
<1>10. CASE UNCHANGED vars
  BY <1>2, <1>10 DEF vars
<1> QED BY <1>6, <1>7, <1>8, <1>9, <1>10 DEF Next

\* As long as no caller asks for a stack of nearly the whole address space, every
\* stack keeps its size, its alignment and the word that kfree_stack reads.
THEOREM StacksStayUsable ==
  ASSUME StacksBelowWrap
  PROVE  Spec => []StacksUsable
<1>1. Init => StackInv
  BY InitHeapInv DEF Init, StackInv, StacksUsable
<1>2. StackInv => StacksUsable
  BY DEF StackInv
<1>3. StackInv /\ [Next]_vars => StackInv'
  BY NextStackInv
<1> QED BY <1>1, <1>2, <1>3, PTL DEF Spec

-----------------------------------------------------------------------------
(***************************************************************************)
(* The promise of an allocator.                                            *)
(***************************************************************************)

\* Where there is a place for a block, there is as much room and a header more
\* behind a section.
LEMMA PlacesHaveRoom ==
  ASSUME Ordered(heap), live = Owned(heap), NEW len \in Nat, len > 0,
         Allocator!Places(len) # {}
  PROVE  \E a \in DOMAIN heap : HasRoom(heap, a, len + Header)
<1>1. PICK b \in Allocator!Places(len) : TRUE
  OBVIOUS
<1>2. /\ b.ptr \in mem_block_start..mem_block_end /\ b.len = len
      /\ mem_block_start <= b.ptr - Header /\ b.ptr + len <= mem_block_end
      /\ \A o \in live : b.ptr + len <= o.ptr - Header \/ o.ptr + o.len <= b.ptr - Header
  BY DEF Allocator!Places, Allocator!Free
<1> DEFINE p == b.ptr - Header
<1>3. b.ptr \in Nat /\ p \in Nat /\ mem_block_start <= p /\ Header \in Nat
      /\ mem_block_start \in Nat /\ mem_block_end \in Nat
  BY <1>2, Block
<1>4. b.ptr = p + Header
  BY <1>3
<1> HIDE DEF p
<1>5. PICK a \in DOMAIN heap : a <= p /\ \A c \in DOMAIN heap : c <= a \/ p < c
  BY <1>3, Floor
<1>6. \A c \in DOMAIN heap : /\ c \in Nat /\ heap[c].size \in Nat /\ heap[c].next \in Nat
                             /\ Limit(heap, c) \in Nat
  BY SectionType
<1>7. ASSUME NEW c \in DOMAIN heap, heap[c].size # 0
      PROVE  p + Header + len <= c \/ c + heap[c].size <= p
  <2>1. BlockAt(heap, c) \in live
    BY <1>7 DEF Owned
  <2>2. /\ BlockAt(heap, c).ptr = c + Header
        /\ BlockAt(heap, c).len = heap[c].size - Header
    BY DEF BlockAt
  <2>3. \/ p + Header + len <= c + Header - Header
        \/ c + Header + (heap[c].size - Header) <= p + Header - Header
    <3>1. \/ b.ptr + len <= BlockAt(heap, c).ptr - Header
          \/ BlockAt(heap, c).ptr + BlockAt(heap, c).len <= b.ptr - Header
      BY <1>2, <2>1
    <3> QED BY <1>3, <1>4, <1>6, <2>2, <3>1
  <2> QED BY <1>3, <1>6, <2>3
<1>8. a + heap[a].size <= p
  BY <1>3, <1>5, <1>6, <1>7
<1>9. p + Header + len <= Limit(heap, a)
  <2>1. CASE heap[a].next = 0
    BY <1>2, <1>3, <1>4, <2>1 DEF Limit
  <2>2. CASE heap[a].next # 0
    <3>1. heap[a].next \in DOMAIN heap /\ a < heap[a].next
      BY <2>2 DEF Ordered, Chained
    <3>2. p < heap[a].next
      BY <1>5, <1>6, <3>1
    <3>3. heap[heap[a].next].size # 0
      <4>1. mem_block_start < heap[a].next
        BY <1>6, <3>1, SectionType, Block
      <4>2. heap[heap[a].next].size >= Header + Word
        BY <3>1, <4>1, Block DEF Ordered, Aligned
      <4> QED BY <1>3, <4>2, Block
    <3>4. \/ p + Header + len <= heap[a].next
          \/ heap[a].next + heap[heap[a].next].size <= p
      BY <1>7, <3>1, <3>3
    <3> QED BY <1>3, <1>6, <2>2, <3>1, <3>2, <3>4 DEF Limit
  <2> QED BY <2>1, <2>2
<1>10. a + heap[a].size + (len + Header) <= Limit(heap, a)
  BY <1>3, <1>5, <1>6, <1>8, <1>9
<1> QED BY <1>10 DEF HasRoom

\* The room behind a section is a place for a block.
LEMMA RoomIsPlace ==
  ASSUME Ordered(heap), live = Owned(heap), NEW len \in Nat, NEW a \in DOMAIN heap,
         HasRoom(heap, a, len + Header), a + heap[a].size + Header \in Pointers
  PROVE  [ptr |-> a + heap[a].size + Header, len |-> len] \in Allocator!Places(len)
<1> DEFINE p == a + heap[a].size
           b == [ptr |-> p + Header, len |-> len]
<1>1. \A c \in DOMAIN heap : /\ c \in Nat /\ heap[c].size \in Nat /\ heap[c].next \in Nat
                             /\ Limit(heap, c) \in Nat /\ Limit(heap, c) <= mem_block_end
                             /\ mem_block_start <= c
  BY SectionType
<1>2. p \in Nat /\ mem_block_start <= p /\ Header \in Nat /\ mem_block_end \in Nat
      /\ mem_block_start \in Nat
  BY <1>1, Block
<1>3. p + (len + Header) <= Limit(heap, a)
  BY DEF HasRoom
<1>4. p + Header + len <= mem_block_end
  BY <1>1, <1>2, <1>3
<1>5. p + Header # 0
  BY <1>2, Block
<1>6. ASSUME NEW o \in live
      PROVE  p + Header + len <= o.ptr - Header \/ o.ptr + o.len <= p
  <2>1. PICK c \in DOMAIN heap : /\ heap[c].size # 0
                                 /\ o.ptr = c + Header /\ o.len = heap[c].size - Header
    BY DEF Owned, BlockAt
  <2>2. CASE c = a
    <3>1. o.ptr + o.len = p
      BY <1>1, <1>2, <2>1, <2>2
    <3> QED BY <1>2, <3>1
  <2>3. CASE c < a
    <3>1. c + heap[c].size <= a
      BY <2>3, Apart
    <3>2. c + Header + (heap[c].size - Header) <= p
      BY <1>1, <1>2, <3>1
    <3> QED BY <2>1, <3>2
  <2>4. CASE a < c
    <3>1. heap[a].next # 0 /\ heap[a].next <= c
      BY <2>4, Apart
    <3>2. p + (len + Header) <= c
      BY <1>1, <1>2, <1>3, <3>1 DEF Limit
    <3>3. p + Header + len <= c + Header - Header
      BY <1>1, <1>2, <3>2
    <3> QED BY <1>1, <1>2, <2>1, <3>3
  <2> QED BY <1>1, <2>2, <2>3, <2>4
<1>7. p + Header - Header = p
  BY <1>2
<1>8. /\ p + Header \in mem_block_start..mem_block_end
      /\ ((p + Header) % Word) = 0
  BY <1>5 DEF Pointers
<1> HIDE DEF p
<1>9. b.ptr = p + Header /\ b.len = len
  OBVIOUS
<1>10. Allocator!Free(b, live)
  <2>1. mem_block_start <= b.ptr - Header /\ b.ptr + b.len <= mem_block_end
    BY <1>2, <1>4, <1>7, <1>9
  <2>2. \A o \in live : b.ptr + b.len <= o.ptr - Header \/ o.ptr + o.len <= b.ptr - Header
    <3>1. b.ptr + b.len = p + Header + len /\ b.ptr - Header = p
      BY <1>2, <1>7, <1>9
    <3> HIDE DEF b
    <3> QED BY <1>6, <3>1
  <2> QED BY <2>1, <2>2 DEF Allocator!Free
<1> QED BY <1>8, <1>10 DEF Allocator!Places, p

\* What kmalloc does to the caller's blocks is an allocation, or a failure
\* because there is no room.
LEMMA Allocates ==
  ASSUME HeapInv, NEW n \in 0..(Modulus - 1), NEW r, r = KmallocIn(heap, n),
         answer' = Answer(n, r.ptr),
         live' = IF r.ptr = 0 THEN live
                 ELSE live \cup {[ptr |-> r.ptr, len |-> RoundUp(n)]}
  PROVE  Allocator!Alloc(n) \/ Allocator!Fail(n)
<1> USE DEF HeapInv
<1>1. n \in Nat /\ Rounded(n) \in Nat /\ n <= Rounded(n)
  BY RoundUpWraps
<1>2. Allocator!RoundUp(n) = Rounded(n)
  BY <1>1, RoundedUp, Block DEF Allocator!RoundUp, Rounded
<1>3. CASE /\ r = [heap |-> heap, ptr |-> 0]
           /\ n = 0 \/ \A a \in DOMAIN heap : ~HasRoom(heap, a, Rounded(n) + Header)
  <2>1. n = 0 \/ Allocator!Places(Rounded(n)) = {}
    BY <1>1, <1>3, PlacesHaveRoom
  <2>2. r.ptr = 0
    BY <1>3
  <2>3. live' = live /\ answer' = [asked |-> n, got |-> "null"]
    BY <2>2 DEF Answer
  <2> QED BY <1>2, <2>1, <2>3 DEF Allocator!Fail
<1>4. CASE \E a \in DOMAIN heap :
             /\ n > 0 /\ RoundUp(n) = Rounded(n)
             /\ HasRoom(heap, a, Rounded(n) + Header)
             /\ r = [heap |-> Insert(heap, a, Rounded(n) + Header),
                     ptr |-> a + heap[a].size + Header]
  <2>1. PICK a \in DOMAIN heap :
          /\ n > 0 /\ RoundUp(n) = Rounded(n)
          /\ HasRoom(heap, a, Rounded(n) + Header)
          /\ r.ptr = a + heap[a].size + Header
    BY <1>4
  <2>2. r.ptr # 0
    BY <2>1, SectionType, Block
  <2>3. r.ptr \in Pointers
    BY <2>2, Grants
  <2>4. [ptr |-> r.ptr, len |-> Rounded(n)] \in Allocator!Places(Rounded(n))
    BY <1>1, <2>1, <2>3, RoomIsPlace
  <2>5. /\ live' = live \cup {[ptr |-> r.ptr, len |-> Rounded(n)]}
        /\ answer' = [asked |-> n, got |-> "block"]
    BY <2>1, <2>2 DEF Answer
  <2> QED BY <1>2, <2>1, <2>4, <2>5 DEF Allocator!Alloc
<1> QED BY <1>3, <1>4, Finds

\* Every call is one of the allocator's.
LEMMA NextAllocator ==
  ASSUME StacksBelowWrap, HeapInv, [Next]_vars
  PROVE  [Allocator!Next]_<<live, answer>>
<1>1. ASSUME NEW n \in Sizes, Kmalloc(n) PROVE Allocator!Next
  <2>1. n \in 0..(Modulus - 1)
    BY KmallocAssumption
  <2>2. Allocator!Alloc(n) \/ Allocator!Fail(n)
    BY <1>1, <2>1, Allocates DEF Kmalloc
  <2> QED BY <2>2 DEF Allocator!Next
<1>2. ASSUME NEW ptr \in Pointers, Kfree(ptr) PROVE Allocator!Next
  <2>1. Allocator!Release(ptr)
    BY <1>2 DEF Kfree, Allocator!Release, Void, Allocator!Void
  <2> QED BY <2>1 DEF Allocator!Next
<1>3. ASSUME NEW n \in StackSizes, KmallocStack(n) PROVE Allocator!Next
  <2> DEFINE size == (n + 32) % Modulus
  <2>1. size = n + 32 /\ size \in 0..(Modulus - 1)
    <3>1. n \in Nat /\ n + 32 < Modulus
      BY KmallocAssumption DEF StacksBelowWrap
    <3> DEFINE x == n + 32
    <3>2. x \in Int /\ 0 <= x /\ x < Modulus
      BY <3>1
    <3> HIDE DEF x
    <3>3. (x % Modulus) = x
      BY <3>2, Wraps, Block
    <3> QED BY <3>2, <3>3, Block DEF x
  <2>2. LET r == KmallocIn(heap, size) IN
        /\ answer' = Answer(size, r.ptr)
        /\ live' = IF r.ptr = 0 THEN live
                   ELSE live \cup {[ptr |-> r.ptr, len |-> RoundUp(size)]}
    BY <1>3 DEF KmallocStack
  <2> HIDE DEF size
  <2>3. Allocator!Alloc(size) \/ Allocator!Fail(size)
    BY <2>1, <2>2, Allocates
  <2>4. size \in Sizes \cup {m + 32 : m \in StackSizes}
    BY <2>1
  <2> QED BY <2>3, <2>4 DEF Allocator!Next
<1>4. ASSUME NEW sp \in DOMAIN stacks, KfreeStack(sp - 16) PROVE Allocator!Next
  <2>1. sp - 16 + 16 = sp /\ stacks[sp] \in Pointers
    BY DEF HeapInv
  <2>2. Allocator!Release(stacks[sp])
    BY <1>4, <2>1 DEF KfreeStack, Allocator!Release, Void, Allocator!Void
  <2> QED BY <2>1, <2>2 DEF Allocator!Next
<1>5. CASE UNCHANGED vars
  BY <1>5 DEF vars
<1> QED BY <1>1, <1>2, <1>3, <1>4, <1>5 DEF Next

\* kmalloc and kfree are an allocator, for every size, every block of memory and
\* every series of calls: it gives out memory of its own in the size that was
\* asked for, it fails only when no such memory is left, and it takes back what it
\* is named and nothing else.
THEOREM HeapImplemented ==
  ASSUME StacksBelowWrap
  PROVE  Spec => ImplementsHeap
<1>1. Init => Allocator!Init
  BY DEF Init, Allocator!Init, Void, Allocator!Void
<1>2. HeapInv /\ [Next]_vars => [Allocator!Next]_<<live, answer>>
  BY NextAllocator
<1> QED BY <1>1, <1>2, HeapInvariant, PTL DEF Spec, ImplementsHeap, Allocator!Spec

=============================================================================
