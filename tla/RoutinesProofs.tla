--------------------------- MODULE RoutinesProofs ---------------------------
(***************************************************************************)
(* Proofs about the routines side by side: of the SBI calls, of walk_pts,  *)
(* of the searches of archives and device trees and of printm here, for    *)
(* registers of any width, any number of harts, page tables of any shape,  *)
(* archives and trees of any length and every two directives; of the       *)
(* divisions from MulDivProofs.                                            *)
(***************************************************************************)
EXTENDS Routines, FiniteSetTheorems, SequenceTheorems, WellFoundedInduction, TLAPS

MDP == INSTANCE MulDivProofs WITH XLEN <- MulDivXLEN, mask <- bit, Routines <- MulDivRoutines

(***************************************************************************)
(* SBI calls: arithmetic.                                                  *)
(***************************************************************************)

\* A set of numbers that is not empty has a least one.
LEMMA Least ==
  ASSUME NEW T \in SUBSET Nat, T # {}
  PROVE  \E x \in T : \A y \in T : x <= y
<1>1. IsWellFoundedOn(OpToRel(<, Nat), Nat)
  BY NatLessThanWellFounded
<1>2. PICK x \in T : \A y \in T : ~(<<y, x>> \in OpToRel(<, Nat))
  BY <1>1, WFMin
<1>3. \A y \in T : ~(y < x)
  BY <1>2 DEF OpToRel
<1> QED BY <1>3

\* Dividing with remainder has one result.
LEMMA Division ==
  ASSUME NEW p \in Nat, NEW q \in Nat, NEW r \in Nat, r < p, NEW m \in Nat, m = p * q + r
  PROVE  m \div p = q /\ m % p = r
<1> DEFINE d == m \div p
           e == m % p
<1>1. d \in Int /\ e \in Int /\ 0 <= e /\ e < p /\ m = p * d + e
  BY SMTT(30)
<1> HIDE DEF d, e
<1>2. p * q + r = p * d + e
  BY <1>1
<1>3. ~(q < d)
  <2> SUFFICES ASSUME q < d PROVE FALSE
    OBVIOUS
  <2>1. p * (q + 1) <= p * d
    BY <1>1
  <2> QED BY <1>1, <1>2, <2>1
<1>4. ~(d < q)
  <2> SUFFICES ASSUME d < q PROVE FALSE
    OBVIOUS
  <2>1. p * (d + 1) <= p * q
    BY <1>1
  <2> QED BY <1>1, <1>2, <2>1
<1>5. q = d
  BY <1>1, <1>3, <1>4
<1> QED BY <1>1, <1>2, <1>5 DEF d, e

\* Shifting right by one bit more.
LEMMA Halved ==
  ASSUME NEW m \in Nat, NEW p \in Nat, p >= 1
  PROVE  m \div p \in Nat /\ (m \div p) \div 2 = m \div (2 * p)
<1> DEFINE q == m \div p
           r == m % p
           h == q \div 2
           s == q % 2
<1>1. q \in Int /\ r \in Nat /\ r < p /\ m = p * q + r
  BY SMTT(30)
<1>2. q \in Nat
  <2> HIDE DEF q, r
  <2> SUFFICES ASSUME q <= -1 PROVE FALSE
    BY <1>1
  <2>1. p * q <= p * (-1)
    BY <1>1
  <2> QED BY <1>1, <2>1
<1>3. h \in Nat /\ s \in {0, 1} /\ q = 2 * h + s
  <2> HIDE DEF q
  <2> QED BY <1>2
<1> HIDE DEF q, r, h, s
<1>4. p * s + r \in Nat /\ p * s + r < 2 * p
  BY <1>1, <1>3
<1>5. m = (2 * p) * h + (p * s + r)
  BY <1>1, <1>3
<1>6. 2 * p \in Nat
  OBVIOUS
<1> HIDE DEF h
<1>7. m \div (2 * p) = h
  BY <1>3, <1>4, <1>5, <1>6, Division
<1> QED BY <1>2, <1>7 DEF q, h

\* A word is longer than its width.
LEMMA PowerAbove == \A n \in 0..XLEN : n < 2^n
<1> DEFINE T == {n \in 0..XLEN : ~(n < 2^n)}
<1> SUFFICES ASSUME T # {} PROVE FALSE
  OBVIOUS
<1>1. XLEN \in Nat
  BY SbiCallsAssumption
<1>2. PICK x \in T : \A y \in T : x <= y
  <2>1. T \in SUBSET Nat
    BY <1>1
  <2> HIDE DEF T
  <2> QED BY <2>1, Least
<1>3. x \in 0..XLEN /\ ~(x < 2^x) /\ x # 0
  BY <1>1, PowersOfTwo
<1>4. x - 1 \in 0..XLEN /\ x - 1 \notin T
  BY <1>1, <1>2, <1>3
<1>5. x - 1 < 2^(x - 1) /\ 2^(x - 1) \in Nat
  BY <1>4, PowersOfTwo
<1>6. 2^x = 2 * 2^(x - 1)
  <2>1. 2^((x - 1) + 1) = 2 * 2^(x - 1)
    BY <1>4, PowersOfTwo
  <2>2. (x - 1) + 1 = x
    BY <1>1, <1>3
  <2> QED BY <2>1, <2>2
<1> QED BY <1>1, <1>3, <1>5, <1>6

\* The bits of a product.
LEMMA PowerSum ==
  ASSUME NEW k \in 0..XLEN
  PROVE  \A n \in 0..(XLEN - k) : 2^(k + n) = 2^k * 2^n
<1> DEFINE T == {n \in 0..(XLEN - k) : 2^(k + n) # 2^k * 2^n}
<1> SUFFICES ASSUME T # {} PROVE FALSE
  OBVIOUS
<1>1. XLEN \in Nat /\ k \in Nat
  BY SbiCallsAssumption
<1>2. PICK x \in T : \A y \in T : x <= y
  <2>1. T \in SUBSET Nat
    BY <1>1
  <2> HIDE DEF T
  <2> QED BY <2>1, Least
<1>3. x \in 0..(XLEN - k) /\ 2^(k + x) # 2^k * 2^x
  OBVIOUS
<1>4. x # 0
  <2> SUFFICES ASSUME x = 0 PROVE FALSE
    OBVIOUS
  <2>1. k + x = k /\ 2^x = 1 /\ 2^k \in Nat
    BY <1>1, PowersOfTwo
  <2> QED BY <1>3, <2>1
<1> DEFINE y == x - 1
<1>5. y \in 0..(XLEN - k) /\ y \in 0..XLEN /\ k + y \in 0..XLEN /\ y \notin T
  BY <1>1, <1>2, <1>3, <1>4
<1>6. y + 1 = x /\ (k + y) + 1 = k + x
  BY <1>1, <1>3
<1> HIDE DEF y
<1>7. 2^(k + y) = 2^k * 2^y
  BY <1>5
<1> HIDE DEF T
<1>8. 2^(k + x) = 2 * 2^(k + y) /\ 2^x = 2 * 2^y
  BY <1>5, <1>6, PowersOfTwo
<1>9. 2^k \in Nat /\ 2^y \in Nat
  BY <1>5, PowersOfTwo
<1> QED
  <2> DEFINE u == 2^k
             v == 2^y
  <2>1. 2 * (u * v) = u * (2 * v)
    BY <1>9
  <2> QED BY <1>3, <1>7, <1>8, <2>1

-----------------------------------------------------------------------------
(***************************************************************************)
(* Masks.                                                                  *)
(***************************************************************************)

\* Whether a mask names the n-th hart behind its base.
Bit(m, n) == (m \div 2^n) % 2 = 1

\* The first hart in use, and one behind the last.
FirstHart == TOTAL_HART_COUNT - USE_HART_COUNT

\* What is used of the assumptions on the constants.
LEMMA Sizes ==
  /\ XLEN \in Nat /\ W \in Nat /\ XLEN < W /\ ULONG_MAX = W - 1
  /\ TOTAL_HART_COUNT \in Nat /\ USE_HART_COUNT \in Nat /\ FirstHart \in Nat
  /\ USE_HART_COUNT >= 1 /\ TOTAL_HART_COUNT <= XLEN
  /\ FirstHart + USE_HART_COUNT = TOTAL_HART_COUNT
  /\ mhartid \in Harts /\ is_valid_hartid(mhartid)
<1>1. XLEN \in Nat /\ XLEN \in 0..XLEN
  BY SbiCallsAssumption
<1>2. 2^XLEN \in Nat /\ XLEN < 2^XLEN
  BY <1>1, PowersOfTwo, PowerAbove
<1> QED BY <1>1, <1>2, SbiCallsAssumption
        DEF W, ULONG_MAX, FirstHart, Harts, is_valid_hartid

\* The mask that the calls make for all harts names the harts in use.
LEMMA BitsOfAllHarts ==
  /\ AllHarts \in Nat
  /\ \A n \in 0..(XLEN - 1) : Bit(AllHarts, n) <=> is_valid_hartid(n)
<1> DEFINE t == TOTAL_HART_COUNT
           u == USE_HART_COUNT
           k == FirstHart
<1>1. /\ XLEN \in Nat /\ t \in Nat /\ u \in Nat /\ k \in Nat
      /\ t <= XLEN /\ k + u = t /\ k \in 0..XLEN /\ u \in 0..(XLEN - k)
      /\ u \in 0..XLEN /\ t \in 0..XLEN /\ u >= 1
  BY Sizes
<1>2. AllHarts = 2^t - 2^k
  BY DEF AllHarts, FirstHart
<1>3. \A n : is_valid_hartid(n) <=> n >= k /\ n < t
  BY DEF is_valid_hartid, FirstHart
<1> HIDE DEF t, u, k
<1> DEFINE P(n) == 2^n
<1>4. /\ \A n \in 0..XLEN : P(n) \in Nat /\ P(n) >= 1
      /\ \A n \in 0..XLEN : P(n + 1) = 2 * P(n)
  BY PowersOfTwo
<1>5. \A m \in 0..XLEN : \A n \in 0..(XLEN - m) : P(m + n) = P(m) * P(n)
  BY PowerSum
<1>6. AllHarts = P(t) - P(k)
  BY <1>2
<1> HIDE DEF P
<1>7. P(t) = P(k) * P(u)
  BY <1>1, <1>5
<1>8. AllHarts = P(k) * (P(u) - 1) /\ P(u) - 1 \in Nat /\ P(k) \in Nat
  BY <1>1, <1>4, <1>6, <1>7
<1>9. AllHarts \in Nat
  BY <1>8
<1>10. ASSUME NEW n \in 0..(XLEN - 1)
       PROVE  (AllHarts \div P(n)) % 2 = 1 <=> n >= k /\ n < t
  <2>1. n \in Nat /\ n \in 0..XLEN /\ n + 1 \in 0..XLEN /\ P(n) \in Nat /\ P(n) >= 1
    BY <1>1, <1>4
  <2>2. CASE n < k
    <3> DEFINE c == k - (n + 1)
               z == P(c) * (P(u) - 1)
    <3>1. c \in Nat /\ c \in 0..(XLEN - (n + 1)) /\ (n + 1) + c = k /\ c \in 0..XLEN
      BY <1>1, <2>1, <2>2
    <3> HIDE DEF c
    <3>2. P(k) = P(n + 1) * P(c) /\ P(n + 1) = 2 * P(n)
      BY <1>4, <1>5, <2>1, <3>1
    <3>3. P(c) \in Nat /\ z \in Nat
      BY <1>4, <1>8, <3>1
    <3>4. AllHarts = P(n) * (2 * z) + 0
      <4>1. AllHarts = ((2 * P(n)) * P(c)) * (P(u) - 1)
        BY <1>8, <3>2
      <4> QED BY <1>8, <2>1, <3>3, <4>1
    <3> HIDE DEF z
    <3>5. 2 * z \in Nat /\ 0 \in Nat /\ 0 < P(n)
      BY <2>1, <3>3
    <3>6. AllHarts \div P(n) = 2 * z
      BY <1>9, <2>1, <3>4, <3>5, Division
    <3>7. (2 * z) % 2 = 0
      BY <3>3
    <3>8. ~(n >= k)
      BY <1>1, <2>1, <2>2
    <3> QED BY <3>6, <3>7, <3>8
  <2>3. CASE n >= k /\ n < t
    <3> DEFINE e == n - k
               f == t - n
               g == f - 1
               q == P(f) - 1
               r == P(n) - P(k)
    <3>1. /\ e \in 0..(XLEN - k) /\ e \in 0..XLEN /\ k + e = n
          /\ f \in 0..(XLEN - n) /\ f \in 0..XLEN /\ n + f = t
          /\ g \in 0..XLEN /\ g + 1 = f
      BY <1>1, <2>1, <2>3
    <3> HIDE DEF e, f, g
    <3>2. P(n) = P(k) * P(e) /\ P(t) = P(n) * P(f) /\ P(f) = 2 * P(g)
      BY <1>1, <1>4, <1>5, <2>1, <3>1
    <3>3. /\ P(e) \in Nat /\ P(e) >= 1 /\ P(f) \in Nat /\ P(g) \in Nat
          /\ P(g) >= 1 /\ P(k) >= 1
      BY <1>1, <1>4, <3>1
    <3>4. r \in Nat /\ r < P(n)
      <4>1. r = P(k) * (P(e) - 1)
        BY <1>8, <3>2, <3>3
      <4>2. P(e) - 1 \in Nat
        BY <3>3
      <4>3. P(k) * (P(e) - 1) \in Nat
        BY <1>8, <4>2
      <4> QED BY <1>8, <2>1, <3>3, <4>1, <4>3
    <3>5. q \in Nat /\ AllHarts = P(n) * q + r
      BY <1>6, <1>8, <2>1, <3>2, <3>3
    <3>6. q % 2 = 1
      BY <3>2, <3>3
    <3> HIDE DEF q, r
    <3>7. AllHarts \div P(n) = q
      BY <1>9, <2>1, <3>4, <3>5, Division
    <3> QED BY <2>3, <3>6, <3>7
  <2>4. CASE n >= t
    <3> DEFINE g == n - t
    <3>1. g \in 0..(XLEN - t) /\ g \in 0..XLEN /\ t + g = n
      BY <1>1, <2>1, <2>4
    <3> HIDE DEF g
    <3>2. P(n) = P(t) * P(g) /\ P(t) \in Nat /\ P(g) \in Nat /\ P(g) >= 1 /\ P(k) >= 1
      BY <1>1, <1>4, <1>5, <3>1
    <3>3. P(n) >= P(t)
      <4>1. P(t) * P(g) >= P(t) * 1
        BY <3>2
      <4> QED BY <3>2, <4>1
    <3>4. AllHarts < P(n) /\ AllHarts = P(n) * 0 + AllHarts
      BY <1>6, <1>8, <1>9, <2>1, <3>2, <3>3
    <3>5. AllHarts \div P(n) = 0
      BY <1>9, <2>1, <3>4, Division
    <3>6. ~(n < t)
      BY <1>1, <2>1, <2>4
    <3> QED BY <3>5, <3>6
  <2> QED BY <1>1, <2>1, <2>2, <2>3, <2>4
<1> QED BY <1>3, <1>9, <1>10 DEF Bit, P

-----------------------------------------------------------------------------
(***************************************************************************)
(* The inductive invariant.                                                *)
(***************************************************************************)

\* The hart that the n-th bit of the mask names, and what is sent to it.
Target(n) == (base + n) % W
Order(n) ==
  [to |-> Target(n), command |-> IF Target(n) = mhartid THEN "local" ELSE Command]
OrderSet == {Order(n) : n \in 0..(XLEN - 1)}

IsMaskCall == [ext |-> req.ext, fid |-> req.fid] \in MaskCalls

\* Calls have the arguments that Requests gives them; only mask calls loop.
Typed ==
  /\ req.ext \in Extensions /\ req.fid \in 0..7
  /\ IsMaskCall => req.p0 \in Words /\ req.p1 \in Words
  /\ place \in {"entry", "check", "act", "reset", "smode", "gone"}
  /\ place \in {"check", "act"} => IsMaskCall
  /\ place = "reset" => req.ext = "SRST"
  /\ hsm \in [Harts -> DOMAIN SBI_HSM]
  /\ place = "entry" => sent = <<>>

\* A loop has come to bit i; what is left of its mask are the bits from i on.
Looping ==
  place \in {"check", "act"} =>
    /\ i \in 0..XLEN
    /\ mask = hart_mask \div 2^i
    /\ base = IF req.p1 = ULONG_MAX THEN 0 ELSE req.p1

\* The first loop has found nothing wrong so far, and nothing is sent.
Checking ==
  place = "check" =>
    /\ sent = <<>>
    /\ \A n \in 0..(i - 1) : Bit(hart_mask, n) => is_valid_hartid(Target(n))

\* The second loop knows all targets to be valid, and has sent one order to
\* each target so far.
Acting ==
  place = "act" =>
    /\ \A n \in 0..(XLEN - 1) : Bit(hart_mask, n) => is_valid_hartid(Target(n))
    /\ sent \in Seq(OrderSet)
    /\ \A m \in 1..Len(sent) :
         \E n \in 0..(i - 1) : Bit(hart_mask, n) /\ sent[m] = Order(n)
    /\ \A n \in 0..(i - 1) :
         Bit(hart_mask, n) => \E m \in 1..Len(sent) : sent[m] = Order(n)
    /\ \A l, m \in 1..Len(sent) : sent[l].to = sent[m].to => l = m

\* The caller is started until it leaves, and the machine on until it is reset.
CallerStarted ==
  /\ place # "gone" => hsm[mhartid] = "STARTED" /\ machine = "on"
  /\ place = "gone" => (hsm[mhartid] = "STARTED" <=> machine = "off")

SbiInv ==
  /\ Typed /\ Looping /\ Checking /\ Acting /\ CallerStarted
  /\ TargetsReached /\ ProbeTruthful

-----------------------------------------------------------------------------
\* The targets of a mask are words, and different bits name different harts: a
\* register holds more harts than it has bits.
LEMMA TargetsDiffer ==
  ASSUME base \in Words
  PROVE  /\ \A n \in 0..(XLEN - 1) : Target(n) \in Words
         /\ \A m, n \in 0..(XLEN - 1) : Target(m) = Target(n) => m = n
<1>1. XLEN \in Nat /\ W \in Nat /\ XLEN < W /\ base \in Nat /\ base < W
  BY Sizes DEF Words
<1>2. ASSUME NEW n \in 0..(XLEN - 1)
      PROVE  /\ Target(n) \in Nat /\ Target(n) < W
             /\ Target(n) = base + n \/ Target(n) = base + n - W
  <2> DEFINE x == base + n
  <2>1. x \in Nat /\ x < 2 * W /\ n \in Nat
    BY <1>1
  <2>2. Target(n) = x % W
    BY DEF Target
  <2> HIDE DEF x
  <2>3. CASE x < W
    <3>1. x = W * 0 + x /\ 0 \in Nat
      BY <1>1, <2>1
    <3>2. x % W = x
      BY <1>1, <2>1, <2>3, <3>1, Division
    <3> QED BY <2>1, <2>2, <2>3, <3>2 DEF x
  <2>4. CASE x >= W
    <3> DEFINE r == x - W
    <3>1. r \in Nat /\ r < W /\ x = W * 1 + r /\ 1 \in Nat
      BY <1>1, <2>1, <2>4
    <3> HIDE DEF r
    <3>2. x % W = r
      BY <1>1, <2>1, <3>1, Division
    <3>3. Target(n) = x - W /\ Target(n) \in Nat /\ Target(n) < W
      BY <2>2, <3>1, <3>2 DEF r
    <3>4. n \in Nat
      BY <1>1
    <3> QED BY <1>1, <3>3, <3>4 DEF x
  <2> QED BY <1>1, <2>1, <2>3, <2>4
<1>3. \A n \in 0..(XLEN - 1) : Target(n) \in Words
  BY <1>1, <1>2, Sizes DEF Words
<1>4. ASSUME NEW m \in 0..(XLEN - 1), NEW n \in 0..(XLEN - 1), Target(m) = Target(n)
      PROVE  m = n
  <2>1. m \in Nat /\ n \in Nat /\ m < W /\ n < W
    BY <1>1
  <2> QED BY <1>1, <1>2, <1>4, <2>1
<1> QED BY <1>3, <1>4

\* The mask that the loops run over, bit by bit.
LEMMA MaskType ==
  ASSUME Typed, IsMaskCall
  PROVE  hart_mask \in Nat
BY BitsOfAllHarts, Sizes DEF Typed, hart_mask, Words

\* The harts that the call names are the targets of the bits of its mask.
LEMMA NamedTargets ==
  ASSUME Typed, IsMaskCall, base = IF req.p1 = ULONG_MAX THEN 0 ELSE req.p1
  PROVE  /\ base \in Words
         /\ \A id : id \in Named <=>
              \E n \in 0..(XLEN - 1) : Bit(hart_mask, n) /\ id = Target(n)
<1>1. XLEN \in Nat /\ W \in Nat /\ XLEN < W /\ ULONG_MAX = W - 1
  BY Sizes
<1>2. base \in Words
  BY <1>1 DEF Typed, Words
<1>3. CASE req.p1 # ULONG_MAX
  BY <1>2, <1>3 DEF Named, Target, hart_mask, Bit
<1>4. CASE req.p1 = ULONG_MAX
  <2>1. hart_mask = AllHarts /\ base = 0 /\ Named = Usable
    BY <1>4 DEF hart_mask, Named
  <2>2. \A n \in 0..(XLEN - 1) : Target(n) = n
    <3> TAKE n \in 0..(XLEN - 1)
    <3>1. n \in Nat /\ n < W /\ n = W * 0 + n /\ 0 \in Nat /\ 0 + n = n
      BY <1>1
    <3>2. n % W = n
      BY <1>1, <3>1, Division
    <3> QED BY <2>1, <3>1, <3>2 DEF Target
  <2>3. \A n \in 0..(XLEN - 1) : Bit(hart_mask, n) <=> is_valid_hartid(n)
    BY <2>1, BitsOfAllHarts
  <2>4. \A id : id \in Usable <=> id \in 0..(XLEN - 1) /\ is_valid_hartid(id)
    BY <1>1, Sizes DEF Usable, Words, is_valid_hartid
  <2> QED BY <1>2, <2>1, <2>2, <2>3, <2>4
<1> QED BY <1>2, <1>3, <1>4

\* A pass of a loop looks at bit i and leaves the mask behind it.
LEMMA LoopPass ==
  ASSUME Typed, Looping, place \in {"check", "act"}, i < XLEN
  PROVE  /\ i \in 0..(XLEN - 1) /\ i + 1 \in 0..XLEN
         /\ hartid = Target(i)
         /\ mask % 2 = 1 <=> Bit(hart_mask, i)
         /\ mask % 2 = 0 <=> ~Bit(hart_mask, i)
         /\ mask \div 2 = hart_mask \div 2^(i + 1)
<1>1. XLEN \in Nat /\ i \in 0..XLEN /\ IsMaskCall /\ mask = hart_mask \div 2^i
  BY Sizes DEF Typed, Looping
<1>2. i \in 0..(XLEN - 1) /\ i + 1 \in 0..XLEN
  BY <1>1
<1>3. hart_mask \in Nat
  BY <1>1, MaskType
<1> DEFINE p == 2^i
<1>4. p \in Nat /\ p >= 1 /\ 2^(i + 1) = 2 * p
  BY <1>1, PowersOfTwo
<1>5. mask = hart_mask \div p
  BY <1>1
<1>6. Bit(hart_mask, i) <=> (hart_mask \div p) % 2 = 1
  BY DEF Bit
<1> HIDE DEF p
<1>7. mask \in Nat /\ mask \div 2 = hart_mask \div (2 * p)
  BY <1>3, <1>4, <1>5, Halved
<1>8. mask % 2 = 0 <=> ~(mask % 2 = 1)
  BY <1>7
<1> QED BY <1>2, <1>4, <1>5, <1>6, <1>7, <1>8 DEF hartid, Target

-----------------------------------------------------------------------------
\* The mask calls, and the functions that call_to_sbi knows, one by one.
LEMMA CallNames ==
  /\ IsMaskCall <=> \/ req.ext = "IPI" /\ req.fid = 0
                    \/ req.ext = "RFNC" /\ req.fid \in {0, 1, 2}
  /\ [ext |-> req.ext, fid |-> req.fid] \in Functions <=>
       \/ req.ext = "BASE" /\ req.fid \in 0..6
       \/ req.ext \in {"TIME", "IPI", "SRST"} /\ req.fid = 0
       \/ req.ext = "RFNC" /\ req.fid \in 0..6
       \/ req.ext = "HSM" /\ req.fid \in 0..3
BY DEF IsMaskCall, MaskCalls, Functions

\* Initially.
LEMMA InitSbiInv == Init => SbiInv
<1> SUFFICES ASSUME NEW r \in Requests, Call(r) PROVE SbiInv
  BY DEF Init
<1>1. /\ req = r /\ place = "entry" /\ sent = <<>> /\ machine = "on"
      /\ hsm \in HsmTables(IF r.ext = "HSM" THEN r.p0 ELSE mhartid)
  BY DEF Call
<1>2. r.ext \in Extensions /\ r.fid \in 0..7
  BY SMT DEF Requests, Extensions
<1>3. r.ext \in {"IPI", "RFNC"} /\ r.fid \in {0, 1, 2} =>
        \/ r.p0 \in Words /\ r.p1 \in Words
        \/ r.ext = "IPI" /\ r.fid = 1
  BY SMT DEF Requests
<1>4. mhartid \in Harts
  BY Sizes
<1>5. hsm \in [Harts -> DOMAIN SBI_HSM] /\ hsm[mhartid] = "STARTED"
  BY <1>1, <1>4 DEF HsmTables, SBI_HSM
<1>6. Typed
  BY <1>1, <1>2, <1>3, <1>5, CallNames DEF Typed
<1> QED BY <1>1, <1>5, <1>6
        DEF SbiInv, Looping, Checking, Acting, CallerStarted, TargetsReached,
            ProbeTruthful

\* A call that is not about a mask, when it is answered or ends otherwise.
LEMMA OtherCalls ==
  ASSUME SbiInv, ~IsMaskCall, req' = req, place' \in {"reset", "smode", "gone"},
         place' = "reset" => req.ext = "SRST",
         hsm' \in [Harts -> DOMAIN SBI_HSM], CallerStarted', ProbeTruthful'
  PROVE  SbiInv'
<1>1. Typed'
  BY DEF SbiInv, Typed, IsMaskCall
<1>2. Looping' /\ Checking' /\ Acting'
  BY DEF Looping, Checking, Acting
<1>3. TargetsReached'
  BY DEF TargetsReached, IsMaskCall
<1> QED BY <1>1, <1>2, <1>3 DEF SbiInv

\* What stays as it is while the request does.
LEMMA SameRequest ==
  ASSUME req' = req
  PROVE  /\ hart_mask' = hart_mask /\ IsMaskCall' = IsMaskCall
         /\ Command' = Command /\ Named' = Named
         /\ base' = base => \A n : Target(n)' = Target(n) /\ Order(n)' = Order(n)
<1>1. hart_mask' = hart_mask /\ IsMaskCall' = IsMaskCall /\ Command' = Command
  BY DEF hart_mask, IsMaskCall, Command
<1>2. Named' = Named
  BY DEF Named
<1>3. base' = base => \A n : Target(n)' = Target(n)
  BY DEF Target
<1>4. base' = base => \A n : Order(n)' = Order(n)
  BY <1>1, <1>3 DEF Order
<1> QED BY <1>1, <1>2, <1>3, <1>4

\* A mask call begins with the whole mask.
LEMMA EnterMaskInv == SbiInv /\ EnterMask => SbiInv'
<1> SUFFICES ASSUME SbiInv, EnterMask PROVE SbiInv'
  OBVIOUS
<1>1. /\ place = "entry" /\ IsMaskCall
      /\ place' = "check" /\ mask' = hart_mask /\ i' = 0
      /\ base' = IF req.p1 = ULONG_MAX THEN 0 ELSE req.p1
      /\ req' = req /\ sent' = sent /\ hsm' = hsm /\ machine' = machine
  BY CallNames DEF EnterMask, Called, MaskCalls, world
<1>2. hart_mask' = hart_mask /\ IsMaskCall' = IsMaskCall
  BY <1>1, SameRequest
<1>3. Typed' /\ sent' = <<>>
  BY <1>1, <1>2 DEF SbiInv, Typed
<1>4. Looping'
  <2>1. hart_mask \in Nat
    BY <1>1, MaskType DEF SbiInv
  <2>2. hart_mask = hart_mask * 1 + 0 /\ 2^0 = 1
    BY <2>1, PowersOfTwo
  <2>3. hart_mask \div 1 = hart_mask
    BY <2>1
  <2>4. 0 \in 0..XLEN
    BY Sizes
  <2> QED BY <1>1, <1>2, <2>2, <2>3, <2>4 DEF Looping
<1>5. Checking' /\ Acting' /\ CallerStarted' /\ TargetsReached' /\ ProbeTruthful'
  BY <1>1, <1>3
     DEF Checking, Acting, SbiInv, CallerStarted, TargetsReached, ProbeTruthful
<1> QED BY <1>3, <1>4, <1>5 DEF SbiInv

\* A pass of either loop.
LEMMA NextBitInv ==
  ASSUME SbiInv, place \in {"check", "act"}, i < XLEN, NextBit
  PROVE  /\ i' = i + 1 /\ place' = place /\ base' = base /\ req' = req
         /\ Looping'
<1>1. /\ i' = i + 1 /\ place' = place /\ base' = base /\ req' = req
      /\ mask' = mask \div 2
  BY DEF NextBit
<1>2. i + 1 \in 0..XLEN /\ mask \div 2 = hart_mask \div 2^(i + 1)
  BY LoopPass DEF SbiInv
<1>3. hart_mask' = hart_mask
  BY <1>1, SameRequest
<1>4. mask' = hart_mask' \div 2^(i')
  BY <1>1, <1>2, <1>3
<1> QED BY <1>1, <1>2, <1>4 DEF SbiInv, Looping

\* The bit that CheckBit lets pass names a valid hart.
LEMMA CheckBitInv == SbiInv /\ CheckBit => SbiInv'
<1> SUFFICES ASSUME SbiInv, CheckBit PROVE SbiInv'
  OBVIOUS
<1>1. /\ place = "check" /\ i < XLEN /\ NextBit
      /\ mask % 2 = 1 => is_valid_hartid(hartid)
      /\ sent' = sent /\ hsm' = hsm /\ machine' = machine /\ answer' = answer
  BY DEF CheckBit, NextBit, world
<1>2. /\ i' = i + 1 /\ place' = place /\ base' = base /\ req' = req /\ Looping'
  BY <1>1, NextBitInv
<1>3. /\ i \in 0..(XLEN - 1) /\ hartid = Target(i)
      /\ mask % 2 = 1 <=> Bit(hart_mask, i)
  BY <1>1, LoopPass DEF SbiInv
<1>4. /\ hart_mask' = hart_mask /\ IsMaskCall' = IsMaskCall
      /\ \A n : Target(n)' = Target(n)
  BY <1>2, SameRequest
<1>5. Typed'
  BY <1>1, <1>2, <1>4 DEF SbiInv, Typed
<1>6. Checking'
  <2>1. \A n \in 0..((i + 1) - 1) : n \in 0..(i - 1) \/ n = i
    BY <1>3, Sizes
  <2>2. \A n \in 0..((i + 1) - 1) : Bit(hart_mask, n) => is_valid_hartid(Target(n))
    BY <1>1, <1>3, <2>1 DEF SbiInv, Checking
  <2>3. \A n : is_valid_hartid(Target(n))' = is_valid_hartid(Target(n))
    BY <1>4 DEF is_valid_hartid
  <2> QED BY <1>1, <1>2, <1>4, <2>2, <2>3 DEF SbiInv, Checking, Bit
<1>7. Acting' /\ CallerStarted' /\ TargetsReached' /\ ProbeTruthful'
  BY <1>1, <1>2
     DEF Acting, SbiInv, CallerStarted, TargetsReached, ProbeTruthful
<1> QED BY <1>2, <1>5, <1>6, <1>7 DEF SbiInv

\* How often a hart was sent an order.
Times(id) == Cardinality({n \in DOMAIN sent : sent[n].to = id})

\* What TargetsReached says once a mask call was answered.
Reached ==
  /\ answer.error = IF Named \subseteq Usable THEN "SUCCESS" ELSE "INVALID_PARAM"
  /\ \A id \in Words : Times(id) = IF id \in Named /\ Named \subseteq Usable THEN 1 ELSE 0
  /\ \A n \in DOMAIN sent :
       sent[n].command = IF sent[n].to = mhartid THEN "local" ELSE Command

\* A mask call, when it is answered.
LEMMA AnswerMask ==
  ASSUME SbiInv, IsMaskCall, place \in {"check", "act"}, req' = req, sent' = sent,
         hsm' = hsm, machine' = machine, place' = "smode",
         answer'.error \in {"SUCCESS", "INVALID_PARAM"}, Reached'
  PROVE  SbiInv'
<1>1. IsMaskCall' = IsMaskCall
  BY SameRequest
<1>2. Typed'
  BY <1>1 DEF SbiInv, Typed
<1>3. Looping' /\ Checking' /\ Acting' /\ CallerStarted'
  BY DEF Looping, Checking, Acting, CallerStarted, SbiInv
<1>4. TargetsReached'
  BY DEF TargetsReached, Reached, Times
<1>5. ProbeTruthful'
  <2>1. Probe(req.ext) = 1 /\ answer'.error # "NOT_SUPPORTED"
    BY CallNames DEF Probe
  <2> QED BY <2>1 DEF ProbeTruthful, Probe
<1> QED BY <1>2, <1>3, <1>4, <1>5 DEF SbiInv

\* A target that S-mode may not use: nothing has been sent.
LEMMA CheckFailsInv == SbiInv /\ CheckFails => SbiInv'
<1> SUFFICES ASSUME SbiInv, CheckFails PROVE SbiInv'
  OBVIOUS
<1>1. /\ place = "check" /\ i < XLEN /\ mask % 2 = 1 /\ ~is_valid_hartid(hartid)
      /\ req' = req /\ sent' = sent /\ hsm' = hsm /\ machine' = machine
      /\ place' = "smode" /\ answer' = [error |-> "INVALID_PARAM", value |-> 0]
  BY DEF CheckFails, Fail, Answer, world
<1>2. IsMaskCall /\ sent = <<>> /\ base = IF req.p1 = ULONG_MAX THEN 0 ELSE req.p1
  BY <1>1 DEF SbiInv, Typed, Checking, Looping
<1>3. i \in 0..(XLEN - 1) /\ hartid = Target(i) /\ Bit(hart_mask, i)
  BY <1>1, LoopPass DEF SbiInv
<1>4. Target(i) \in Named /\ Target(i) \notin Usable
  BY <1>1, <1>2, <1>3, NamedTargets DEF SbiInv, Usable
<1>5. Named' = Named
  BY <1>1, SameRequest
<1>6. \A id : Times(id)' = 0
  BY <1>1, <1>2, FS_EmptySet DEF Times
<1>7. Reached'
  BY <1>1, <1>2, <1>4, <1>5, <1>6 DEF Reached
<1> QED BY <1>1, <1>2, <1>7, AnswerMask

\* All targets were valid.
LEMMA CheckEndInv == SbiInv /\ CheckEnd => SbiInv'
<1> SUFFICES ASSUME SbiInv, CheckEnd PROVE SbiInv'
  OBVIOUS
<1>1. /\ place = "check" /\ i = XLEN /\ place' = "act" /\ mask' = hart_mask /\ i' = 0
      /\ req' = req /\ base' = base /\ sent' = sent /\ hsm' = hsm /\ machine' = machine
      /\ answer' = answer
  BY DEF CheckEnd, world
<1>2. /\ hart_mask' = hart_mask /\ IsMaskCall' = IsMaskCall
      /\ \A n : Target(n)' = Target(n)
  BY <1>1, SameRequest
<1>3. Typed' /\ IsMaskCall /\ sent' = <<>>
  BY <1>1, <1>2 DEF SbiInv, Typed, Checking
<1>4. Looping'
  <2>1. hart_mask \in Nat
    BY <1>3, MaskType DEF SbiInv
  <2>2. hart_mask \div 1 = hart_mask /\ 2^0 = 1
    BY <2>1, PowersOfTwo
  <2>3. 0 \in 0..XLEN
    BY Sizes
  <2> QED BY <1>1, <1>2, <2>2, <2>3 DEF SbiInv, Looping
<1>5. Acting'
  <2>1. \A n \in 0..(XLEN - 1) : Bit(hart_mask, n) => is_valid_hartid(Target(n))
    BY <1>1 DEF SbiInv, Checking
  <2>2. /\ \A n : is_valid_hartid(Target(n))' = is_valid_hartid(Target(n))
        /\ \A n : Bit(hart_mask, n)' = Bit(hart_mask, n)
    BY <1>2 DEF is_valid_hartid, Bit
  <2>3. sent' \in Seq(OrderSet') /\ Len(sent') = 0
    BY <1>3
  <2>4. 0..(i' - 1) = {} /\ 1..Len(sent') = {}
    BY <1>1, <2>3
  <2> QED BY <2>1, <2>2, <2>3, <2>4 DEF Acting
<1>6. Checking' /\ CallerStarted' /\ TargetsReached' /\ ProbeTruthful'
  BY <1>1 DEF Checking, SbiInv, CallerStarted, TargetsReached, ProbeTruthful
<1> QED BY <1>3, <1>4, <1>5, <1>6 DEF SbiInv

\* One order is sent for a bit that is set, to a hart that got none before.
LEMMA ActBitInv == SbiInv /\ ActBit => SbiInv'
<1> SUFFICES ASSUME SbiInv, ActBit PROVE SbiInv'
  OBVIOUS
<1> DEFINE sending == [to |-> hartid,
                     command |-> IF hartid = mhartid THEN "local" ELSE Command]
<1>1. /\ place = "act" /\ i < XLEN /\ NextBit
      /\ sent' = IF mask % 2 = 0 THEN sent ELSE Append(sent, sending)
      /\ hsm' = hsm /\ machine' = machine /\ answer' = answer
  BY DEF ActBit, NextBit
<1>2. i' = i + 1 /\ place' = place /\ base' = base /\ req' = req /\ Looping'
  BY <1>1, NextBitInv
<1>3. /\ i \in 0..(XLEN - 1) /\ hartid = Target(i)
      /\ mask % 2 = 0 <=> ~Bit(hart_mask, i)
  BY <1>1, LoopPass DEF SbiInv
<1>4. sending = Order(i) /\ Order(i) \in OrderSet
  BY <1>3 DEF Order, OrderSet
<1> HIDE DEF sending
<1>5. /\ hart_mask' = hart_mask /\ IsMaskCall' = IsMaskCall
      /\ \A n : Target(n)' = Target(n) /\ Order(n)' = Order(n)
      /\ OrderSet' = OrderSet
  BY <1>2, SameRequest DEF OrderSet
<1>6. Typed'
  BY <1>1, <1>2, <1>5 DEF SbiInv, Typed
<1>7. /\ sent \in Seq(OrderSet) /\ Len(sent) \in Nat
      /\ \A m \in 1..Len(sent) :
           \E n \in 0..(i - 1) : Bit(hart_mask, n) /\ sent[m] = Order(n)
      /\ \A n \in 0..(i - 1) :
           Bit(hart_mask, n) => \E m \in 1..Len(sent) : sent[m] = Order(n)
      /\ \A l, m \in 1..Len(sent) : sent[l].to = sent[m].to => l = m
      /\ \A n \in 0..(XLEN - 1) : Bit(hart_mask, n) => is_valid_hartid(Target(n))
  BY <1>1, LenProperties DEF SbiInv, Acting
<1>8. \A n \in 0..i : n \in 0..(i - 1) \/ n = i
  BY <1>3, Sizes
<1>9. 0..((i + 1) - 1) = 0..i /\ 0..(i - 1) \subseteq 0..i /\ i \in 0..i
  BY <1>3, Sizes
<1>10. /\ sent' \in Seq(OrderSet)
       /\ \A m \in 1..Len(sent') :
            \E n \in 0..i : Bit(hart_mask, n) /\ sent'[m] = Order(n)
       /\ \A n \in 0..i :
            Bit(hart_mask, n) => \E m \in 1..Len(sent') : sent'[m] = Order(n)
       /\ \A l, m \in 1..Len(sent') : sent'[l].to = sent'[m].to => l = m
  <2>1. CASE ~Bit(hart_mask, i)
    BY <1>1, <1>3, <1>7, <1>8, <1>9, <2>1
  <2>2. CASE Bit(hart_mask, i)
    <3> DEFINE k == Len(sent) + 1
    <3>1. sent' = Append(sent, Order(i))
      BY <1>1, <1>3, <1>4, <2>2
    <3>2. /\ sent' \in Seq(OrderSet) /\ Len(sent') = Len(sent) + 1
          /\ sent'[k] = Order(i)
          /\ \A m \in 1..Len(sent) : sent'[m] = sent[m]
      BY <1>4, <1>7, <3>1, AppendProperties
    <3>3. /\ \A m \in 1..Len(sent') : m \in 1..Len(sent) \/ m = k
          /\ 1..Len(sent) \subseteq 1..Len(sent') /\ k \in 1..Len(sent')
      BY <1>7, <3>2
    <3> HIDE DEF k
    <3>4. \A m \in 1..Len(sent) : sent[m].to # Order(i).to
      <4> SUFFICES ASSUME NEW m \in 1..Len(sent), sent[m].to = Order(i).to PROVE FALSE
        OBVIOUS
      <4>1. PICK n \in 0..(i - 1) : sent[m] = Order(n)
        BY <1>7
      <4>2. Target(n) = Target(i)
        BY <4>1 DEF Order
      <4>3. n \in 0..(XLEN - 1) /\ n # i
        BY <1>3, Sizes
      <4>4. base \in Words
        BY <1>1, NamedTargets DEF SbiInv, Typed, Looping
      <4> QED BY <1>3, <4>2, <4>3, <4>4, TargetsDiffer
    <3>5. ASSUME NEW m \in 1..Len(sent')
          PROVE  \E n \in 0..i : Bit(hart_mask, n) /\ sent'[m] = Order(n)
      <4>1. CASE m \in 1..Len(sent)
        <5>1. PICK n \in 0..(i - 1) : Bit(hart_mask, n) /\ sent[m] = Order(n)
          BY <1>7, <4>1
        <5> QED BY <1>9, <3>2, <4>1, <5>1
      <4>2. CASE m = k
        BY <1>9, <2>2, <3>2, <4>2
      <4> QED BY <3>3, <4>1, <4>2
    <3>6. ASSUME NEW n \in 0..i, Bit(hart_mask, n)
          PROVE  \E m \in 1..Len(sent') : sent'[m] = Order(n)
      BY <1>7, <1>8, <3>2, <3>3, <3>6
    <3>7. ASSUME NEW l \in 1..Len(sent'), NEW m \in 1..Len(sent'),
                 sent'[l].to = sent'[m].to
          PROVE  l = m
      BY <1>7, <3>2, <3>3, <3>4, <3>7
    <3> QED BY <3>2, <3>5, <3>6, <3>7
  <2> QED BY <2>1, <2>2
<1>11. Acting'
  <2>1. /\ \A n : is_valid_hartid(Target(n))' = is_valid_hartid(Target(n))
        /\ \A n : Bit(hart_mask, n)' = Bit(hart_mask, n)
    BY <1>5 DEF is_valid_hartid, Bit
  <2>2. i' - 1 = (i + 1) - 1 /\ 0..(i' - 1) = 0..i
    BY <1>2, <1>9
  <2> QED BY <1>5, <1>7, <1>10, <2>1, <2>2 DEF Acting
<1>12. Checking' /\ CallerStarted' /\ TargetsReached' /\ ProbeTruthful'
  BY <1>1, <1>2 DEF Checking, SbiInv, CallerStarted, TargetsReached, ProbeTruthful
<1> QED BY <1>2, <1>6, <1>11, <1>12 DEF SbiInv

\* The second loop ends: every hart that is named has one order, and no other
\* hart has any.
LEMMA ActEndInv == SbiInv /\ ActEnd => SbiInv'
<1> SUFFICES ASSUME SbiInv, ActEnd PROVE SbiInv'
  OBVIOUS
<1>1. /\ place = "act" /\ i = XLEN
      /\ req' = req /\ sent' = sent /\ hsm' = hsm /\ machine' = machine
      /\ place' = "smode" /\ answer' = [error |-> "SUCCESS", value |-> 0]
  BY DEF ActEnd, Answer, world
<1>2. IsMaskCall /\ base = IF req.p1 = ULONG_MAX THEN 0 ELSE req.p1
  BY <1>1 DEF SbiInv, Typed, Looping
<1>3. base \in Words /\ \A id : id \in Named <=>
        \E n \in 0..(XLEN - 1) : Bit(hart_mask, n) /\ id = Target(n)
  BY <1>2, NamedTargets DEF SbiInv
<1>4. /\ sent \in Seq(OrderSet) /\ DOMAIN sent = 1..Len(sent)
      /\ \A m \in 1..Len(sent) :
           \E n \in 0..(XLEN - 1) : Bit(hart_mask, n) /\ sent[m] = Order(n)
      /\ \A n \in 0..(XLEN - 1) :
           Bit(hart_mask, n) => \E m \in 1..Len(sent) : sent[m] = Order(n)
      /\ \A l, m \in 1..Len(sent) : sent[l].to = sent[m].to => l = m
      /\ \A n \in 0..(XLEN - 1) : Bit(hart_mask, n) => is_valid_hartid(Target(n))
  BY <1>1, LenProperties DEF SbiInv, Acting
<1>5. Named \subseteq Usable
  BY <1>3, <1>4, TargetsDiffer DEF Usable
<1>6. ASSUME NEW id PROVE Times(id) = IF id \in Named THEN 1 ELSE 0
  <2> DEFINE S == {n \in DOMAIN sent : sent[n].to = id}
  <2>1. CASE id \in Named
    <3>1. PICK n \in 0..(XLEN - 1) : Bit(hart_mask, n) /\ id = Target(n)
      BY <1>3, <2>1
    <3>2. PICK m \in 1..Len(sent) : sent[m] = Order(n)
      BY <1>4, <3>1
    <3>3. S = {m}
      BY <1>4, <3>1, <3>2 DEF Order
    <3> QED BY <2>1, <3>3, FS_Singleton DEF Times
  <2>2. CASE id \notin Named
    <3>1. S = {}
      <4> SUFFICES ASSUME NEW m \in 1..Len(sent), sent[m].to = id PROVE FALSE
        BY <1>4
      <4>1. PICK n \in 0..(XLEN - 1) : Bit(hart_mask, n) /\ sent[m] = Order(n)
        BY <1>4
      <4>2. Target(n) = id
        BY <4>1 DEF Order
      <4> QED BY <1>3, <2>2, <4>1, <4>2
    <3> QED BY <2>2, <3>1, FS_EmptySet DEF Times
  <2> QED BY <2>1, <2>2
<1>7. \A n \in DOMAIN sent :
        sent[n].command = IF sent[n].to = mhartid THEN "local" ELSE Command
  BY <1>4 DEF Order
<1>8. Named' = Named /\ Command' = Command /\ \A id : Times(id)' = Times(id)
  BY <1>1, SameRequest DEF Times
<1>9. Reached'
  BY <1>1, <1>5, <1>6, <1>7, <1>8 DEF Reached
<1> QED BY <1>1, <1>2, <1>9, AnswerMask

-----------------------------------------------------------------------------
\* A call of the other extensions is answered.
LEMMA OtherAnswers ==
  ASSUME SbiInv, ~IsMaskCall, req' = req, place' = "smode",
         place \in {"entry", "reset"}, hsm' \in [Harts -> DOMAIN SBI_HSM],
         hsm'[mhartid] = hsm[mhartid], machine' = machine, ProbeTruthful'
  PROVE  SbiInv'
<1>1. CallerStarted'
  BY DEF SbiInv, CallerStarted
<1> QED BY <1>1, OtherCalls

\* Every step keeps the invariant.
LEMMA NextSbiInv == SbiInv /\ [Next]_vars => SbiInv'
<1> SUFFICES ASSUME SbiInv, [Next]_vars PROVE SbiInv'
  OBVIOUS
<1>1. CASE UNCHANGED vars
  <2>1. /\ req' = req /\ place' = place /\ mask' = mask /\ base' = base /\ i' = i
        /\ sent' = sent /\ hsm' = hsm /\ machine' = machine /\ answer' = answer
    BY <1>1 DEF vars
  <2>2. /\ hart_mask' = hart_mask /\ IsMaskCall' = IsMaskCall /\ Command' = Command
        /\ Named' = Named
        /\ \A n : Target(n)' = Target(n) /\ Order(n)' = Order(n)
        /\ OrderSet' = OrderSet
    BY <2>1, SameRequest DEF OrderSet
  <2>3. /\ \A n : is_valid_hartid(Target(n))' = is_valid_hartid(Target(n))
        /\ \A n : Bit(hart_mask, n)' = Bit(hart_mask, n)
    BY <2>2 DEF is_valid_hartid, Bit
  <2>4. Typed' /\ Looping' /\ Checking' /\ CallerStarted' /\ ProbeTruthful'
    BY <2>1, <2>2, <2>3
       DEF SbiInv, Typed, Looping, Checking, CallerStarted, ProbeTruthful
  <2>5. Acting'
    BY <2>1, <2>2, <2>3 DEF SbiInv, Acting
  <2>6. TargetsReached'
    BY <2>1, <2>2 DEF SbiInv, TargetsReached
  <2> QED BY <2>4, <2>5, <2>6 DEF SbiInv
<1>2. CASE EnterMask \/ CheckBit \/ CheckFails \/ CheckEnd \/ ActBit \/ ActEnd
  BY <1>2, EnterMaskInv, CheckBitInv, CheckFailsInv, CheckEndInv, ActBitInv, ActEndInv
<1> USE DEF Fail, Answer, Called, world, loop
<1>3. hsm \in [Harts -> DOMAIN SBI_HSM] /\ mhartid \in Harts
  BY Sizes DEF SbiInv, Typed
<1>4. CASE \/ sbi_get_spec_version \/ sbi_get_impl_id \/ sbi_get_impl_version
           \/ sbi_probe_extension \/ ReadIdentity \/ sbi_set_timer
  <2>1. /\ req.ext \in {"BASE", "TIME"} /\ place = "entry" /\ req' = req
        /\ place' = "smode" /\ hsm' = hsm /\ machine' = machine
        /\ answer'.error = "SUCCESS"
    BY <1>4 DEF sbi_get_spec_version, sbi_get_impl_id, sbi_get_impl_version,
       sbi_probe_extension, ReadIdentity, sbi_set_timer
  <2>2. ProbeTruthful'
    BY <2>1 DEF ProbeTruthful, Probe
  <2> QED BY <1>3, <2>1, <2>2, OtherAnswers, CallNames
<1>5. CASE HFence
  <2>1. /\ req.ext = "RFNC" /\ req.fid \in 3..6 /\ place = "entry" /\ req' = req
        /\ place' = "smode" /\ hsm' = hsm /\ machine' = machine
    BY <1>5 DEF HFence
  <2>2. ProbeTruthful'
    BY <2>1 DEF ProbeTruthful, Probe
  <2> QED BY <1>3, <2>1, <2>2, OtherAnswers, CallNames
<1>6. CASE sbi_hart_start_fails \/ sbi_hart_get_status \/ sbi_hart_suspend_fails
  <2>1. /\ req.ext = "HSM" /\ place = "entry" /\ req' = req
        /\ place' = "smode" /\ hsm' = hsm /\ machine' = machine
        /\ req.fid = 0 => answer'.error # "NOT_SUPPORTED"
    BY <1>6 DEF sbi_hart_start_fails, sbi_hart_get_status, sbi_hart_suspend_fails
  <2>2. ProbeTruthful'
    BY <2>1 DEF ProbeTruthful, Probe
  <2> QED BY <1>3, <2>1, <2>2, OtherAnswers, CallNames
<1>7. CASE sbi_hart_start
  <2>1. /\ req.ext = "HSM" /\ place = "entry" /\ req' = req /\ req.p0 # mhartid
        /\ place' = "smode" /\ machine' = machine
        /\ hsm' = [hsm EXCEPT ![req.p0] = "START_PENDING"]
        /\ answer'.error = "SUCCESS"
    BY <1>7 DEF sbi_hart_start
  <2>2. ProbeTruthful'
    BY <2>1 DEF ProbeTruthful, Probe
  <2>3. hsm' \in [Harts -> DOMAIN SBI_HSM] /\ hsm'[mhartid] = hsm[mhartid]
    BY <1>3, <2>1 DEF SBI_HSM
  <2> QED BY <2>1, <2>2, <2>3, OtherAnswers, CallNames
<1>8. CASE sbi_hart_stop \/ sbi_hart_suspend
  <2>1. /\ req.ext = "HSM" /\ place = "entry" /\ req' = req
        /\ place' = "gone" /\ machine' = machine
        /\ \E state \in {"STOPPED", "SUSPENDED"} :
             hsm' = [hsm EXCEPT ![mhartid] = state]
    BY <1>8 DEF sbi_hart_stop, sbi_hart_suspend, Leave
  <2>2. ProbeTruthful'
    BY <2>1 DEF ProbeTruthful
  <2>3. hsm' \in [Harts -> DOMAIN SBI_HSM] /\ hsm'[mhartid] # "STARTED"
    BY <1>3, <2>1 DEF SBI_HSM
  <2>4. CallerStarted'
    BY <2>1, <2>3 DEF SbiInv, CallerStarted
  <2> QED BY <2>1, <2>2, <2>3, <2>4, OtherCalls, CallNames
<1>9. CASE sbi_system_reset_fails
  <2>1. /\ req.ext = "SRST" /\ place = "entry" /\ req' = req
        /\ place' = "smode" /\ hsm' = hsm /\ machine' = machine
        /\ answer'.error = "INVALID_PARAM"
    BY <1>9 DEF sbi_system_reset_fails
  <2>2. ProbeTruthful'
    BY <2>1 DEF ProbeTruthful, Probe
  <2> QED BY <1>3, <2>1, <2>2, OtherAnswers, CallNames
<1>10. CASE sbi_system_reset \/ ResetTaken
  <2>1. /\ req.ext = "SRST" /\ req' = req /\ hsm' = hsm /\ place \in {"entry", "reset"}
        /\ \/ place' = "reset" /\ machine' = machine
           \/ place' = "gone" /\ machine' = "off"
    BY <1>10 DEF sbi_system_reset, ResetTaken, SbiInv, Typed
  <2>2. ProbeTruthful'
    BY <2>1 DEF ProbeTruthful
  <2>3. CallerStarted'
    BY <2>1 DEF SbiInv, CallerStarted
  <2> QED BY <1>3, <2>1, <2>2, <2>3, OtherCalls, CallNames
<1>11. CASE ResetReturns
  <2>1. /\ req.ext = "SRST" /\ place = "reset" /\ req' = req
        /\ place' = "smode" /\ hsm' = hsm /\ machine' = machine
        /\ answer'.error = "FAILED"
    BY <1>11 DEF ResetReturns, SbiInv, Typed
  <2>2. ProbeTruthful'
    BY <2>1 DEF ProbeTruthful, Probe
  <2> QED BY <1>3, <2>1, <2>2, OtherAnswers, CallNames
<1>12. CASE Unsupported
  <2>1. /\ [ext |-> req.ext, fid |-> req.fid] \notin Functions /\ place = "entry"
        /\ req' = req /\ place' = "smode" /\ hsm' = hsm /\ machine' = machine
        /\ answer'.error = "NOT_SUPPORTED"
    BY <1>12 DEF Unsupported
  <2>2. ProbeTruthful'
    BY <2>1, CallNames DEF ProbeTruthful, Probe
  <2> QED BY <1>3, <2>1, <2>2, OtherAnswers, CallNames
<1> QED BY <1>1, <1>2, <1>4, <1>5, <1>6, <1>7, <1>8, <1>9, <1>10, <1>11, <1>12 DEF Next

-----------------------------------------------------------------------------
(***************************************************************************)
(* walk_pts: powers of two, entries and addresses, then its passes.        *)
(***************************************************************************)

\* The bits of a product of powers of two.
LEMMA PowersMultiply ==
  ASSUME NEW most \in Nat, 2^0 = 1,
         \A n \in 0..most : 2^n \in Nat \ {0} /\ 2^(n + 1) = 2 * 2^n,
         NEW k \in 0..most
  PROVE  \A n \in 0..(most - k) : 2^(k + n) = 2^k * 2^n
<1> DEFINE T == {n \in 0..(most - k) : 2^(k + n) # 2^k * 2^n}
<1> SUFFICES ASSUME T # {} PROVE FALSE
  OBVIOUS
<1>1. k \in Nat
  OBVIOUS
<1>2. PICK x \in T : \A y \in T : x <= y
  <2>1. T \in SUBSET Nat
    BY <1>1
  <2> HIDE DEF T
  <2> QED BY <2>1, Least
<1>3. x \in 0..(most - k) /\ 2^(k + x) # 2^k * 2^x
  OBVIOUS
<1>4. x # 0
  <2> SUFFICES ASSUME x = 0 PROVE FALSE
    OBVIOUS
  <2>1. k + x = k /\ 2^x = 1 /\ 2^k \in Nat
    OBVIOUS
  <2> QED BY <1>3, <2>1
<1> DEFINE y == x - 1
<1>5. y \in 0..(most - k) /\ y \in 0..most /\ k + y \in 0..most /\ y \notin T
  BY <1>1, <1>2, <1>3, <1>4
<1>6. y + 1 = x /\ (k + y) + 1 = k + x
  BY <1>1, <1>3
<1> HIDE DEF y
<1>7. 2^(k + y) = 2^k * 2^y
  BY <1>5
<1> HIDE DEF T
<1>8. 2^(k + x) = 2 * 2^(k + y) /\ 2^x = 2 * 2^y
  BY <1>5, <1>6
<1>9. 2^k \in Nat /\ 2^y \in Nat
  BY <1>5
<1> QED
  <2> DEFINE u == 2^k
             v == 2^y
  <2>1. 2 * (u * v) = u * (2 * v)
    BY <1>9
  <2> QED BY <1>3, <1>7, <1>8, <2>1

\* A field of a number, in its place, and what is below it.
LEMMA FieldAbove ==
  ASSUME NEW p \in Nat, p >= 1, NEW q \in Nat, q >= 1, NEW x \in Nat
  PROVE  /\ (x \div p) % q \in Nat
         /\ x % (p * q) = ((x \div p) % q) * p + (x % p)
<1> DEFINE d == x \div p
           e == x % p
           f == d \div q
           g == d % q
<1>1. d \in Int /\ e \in Nat /\ e < p /\ x = p * d + e
  BY MDP!Divided
<1> HIDE DEF d, e
<1>2. f \in Int /\ g \in Nat /\ g < q /\ d = q * f + g
  BY <1>1, MDP!Divided
<1> HIDE DEF f, g
<1>3. x = (p * q) * f + (g * p + e)
  <2>1. p * (q * f + g) = (p * q) * f + g * p
    BY <1>1, <1>2
  <2> QED BY <1>1, <1>2, <2>1
<1>4. g * p + e \in Nat /\ g * p + e < p * q /\ p * q \in Nat
  <2>1. g * p <= (q - 1) * p /\ (q - 1) * p = p * q - p /\ g * p \in Nat
    BY <1>2
  <2> QED BY <1>1, <1>2, <2>1
<1>5. x % (p * q) = g * p + e
  <2> DEFINE w == p * q
             r == g * p + e
  <2>1. w \in Nat /\ r \in Nat /\ r < w /\ x = w * f + r
    BY <1>3, <1>4
  <2> HIDE DEF w, r
  <2>2. x % w = r
    BY <1>2, <2>1, MDP!Division
  <2> QED BY <2>2 DEF w, r
<1> QED BY <1>2, <1>5 DEF d, e, g

-----------------------------------------------------------------------------
\* What an entry holds below its reserved bits, and what addresses are made of.
EntrySize == 2^(pm.xlen - pm.reserved)
PageSize  == 2^PAGE

\* The assumptions on the machine, and its powers of two.
LEMMA MachineIs ==
  ASSUME WP!WalkAssumption, pm \in Machines
  PROVE  /\ pm.xlen \in Nat /\ pm.mode \in Nat \ {0} /\ pm.index \in Nat \ {0}
         /\ pm.reserved \in Nat /\ pm.levels \in Nat \ {0}
         /\ PAGE \in Nat /\ FLAGS \in 3..PAGE
         /\ pm.levels * pm.index + PAGE <= pm.xlen
         /\ pm.reserved = 0 \/ pm.reserved >= PAGE - FLAGS
         /\ pm.reserved + FLAGS < pm.xlen
         /\ pm.mode <= pm.reserved + FLAGS
         /\ \A n \in 0..(pm.xlen + PAGE) : 2^n \in Nat \ {0}
         /\ \A k \in 0..(pm.xlen + PAGE) : \A n \in 0..(pm.xlen + PAGE - k) :
              2^(k + n) = 2^k * 2^n
         /\ 2^0 = 1 /\ 2^1 = 2 /\ 2^2 = 4 /\ 2^3 = 8
<1> DEFINE most == pm.xlen + PAGE
<1>1. /\ pm.xlen \in Nat /\ pm.mode \in Nat \ {0} /\ pm.index \in Nat \ {0}
      /\ pm.reserved \in Nat /\ pm.levels \in Nat \ {0}
      /\ PAGE \in Nat /\ FLAGS \in 3..PAGE
  BY DEF WP!WalkAssumption
<1>2. /\ pm.levels * pm.index + PAGE <= pm.xlen
      /\ pm.reserved = 0 \/ pm.reserved >= PAGE - FLAGS
      /\ pm.reserved + FLAGS < pm.xlen
      /\ pm.mode <= pm.reserved + FLAGS
      /\ 2^0 = 1
      /\ \A n \in 0..most : 2^n \in Nat \ {0} /\ 2^(n + 1) = 2 * 2^n
  BY DEF WP!WalkAssumption
<1>3. most \in Nat /\ most >= 3
  BY <1>1
<1> HIDE DEF most
<1>4. \A k \in 0..most : \A n \in 0..(most - k) : 2^(k + n) = 2^k * 2^n
  BY <1>2, <1>3, PowersMultiply
<1>5. 2^1 = 2 /\ 2^2 = 4 /\ 2^3 = 8
  <2>1. 2^(0 + 1) = 2 * 2^0 /\ 2^(1 + 1) = 2 * 2^1 /\ 2^(2 + 1) = 2 * 2^2
    BY <1>2, <1>3
  <2> QED BY <1>2, <2>1
<1> QED BY <1>1, <1>2, <1>4, <1>5 DEF most

\* The powers that the walk shifts by, and how they are composed.
LEMMA Shifts ==
  ASSUME WP!WalkAssumption, pm \in Machines
  PROVE  /\ WP!W \in Nat /\ WP!W >= 2 /\ WP!W = EntrySize * 2^pm.reserved
         /\ EntrySize \in Nat /\ EntrySize >= 1
         /\ 2^pm.reserved \in Nat /\ 2^pm.reserved >= 1
         /\ 2^FLAGS \in Nat /\ 2^FLAGS >= 8 /\ 2^FLAGS % 8 = 0
         /\ 2^(PAGE - FLAGS) \in Nat /\ 2^(PAGE - FLAGS) >= 1
         /\ PageSize \in Nat /\ PageSize >= 1 /\ PageSize = 2^FLAGS * 2^(PAGE - FLAGS)
         /\ WP!W = 2 * 2^(pm.xlen - 1) /\ WP!W \div 2 = 2^(pm.xlen - 1)
         /\ pm.reserved # 0 =>
              /\ 2^(pm.reserved - (PAGE - FLAGS)) \in Nat
              /\ 2^(pm.reserved - (PAGE - FLAGS)) >= 1
              /\ 2^pm.reserved = 2^(PAGE - FLAGS) * 2^(pm.reserved - (PAGE - FLAGS))
         /\ 2^(pm.reserved + FLAGS) = 2^pm.reserved * 2^FLAGS
         /\ 2^(pm.xlen - pm.reserved - FLAGS) \in Nat
         /\ 2^(pm.xlen - pm.reserved - FLAGS) >= 1
         /\ EntrySize = 2^(pm.xlen - pm.reserved - FLAGS) * 2^FLAGS
<1> DEFINE x == pm.xlen
           r == pm.reserved
           d == PAGE - FLAGS
<1>1. /\ x \in Nat /\ r \in Nat /\ PAGE \in Nat /\ FLAGS \in 3..PAGE /\ PAGE <= x /\ r + FLAGS < x
      /\ r = 0 \/ r >= d
      /\ \A n \in 0..(x + PAGE) : 2^n \in Nat \ {0}
      /\ \A k \in 0..(x + PAGE) : \A n \in 0..(x + PAGE - k) : 2^(k + n) = 2^k * 2^n
      /\ 2^0 = 1 /\ 2^1 = 2 /\ 2^3 = 8
  <2>1. pm.levels * pm.index \in Nat
    BY MachineIs
  <2> QED BY <2>1, MachineIs
<1>2. WP!W = 2^x /\ EntrySize = 2^(x - r) /\ PageSize = 2^PAGE
  BY DEF WP!W, EntrySize, PageSize
<1> HIDE DEF x, r
<1>3. 2^x = 2^(x - r) * 2^r
  BY <1>1
<1>4. 2^PAGE = 2^FLAGS * 2^d /\ d \in 0..(x + PAGE)
  BY <1>1
<1>5. 2^x = 2 * 2^(x - 1) /\ 2^(x - 1) \in Nat \ {0}
  <2> DEFINE n == x - 1
  <2>1. n \in Nat /\ 1 + n = x /\ 1 \in 0..(x + PAGE) /\ n \in 0..(x + PAGE - 1)
        /\ n \in 0..(x + PAGE)
    BY <1>1
  <2> HIDE DEF n
  <2>2. 2^(1 + n) = 2^1 * 2^n
    BY <1>1, <2>1
  <2>3. 2^x = 2 * 2^n /\ 2^n \in Nat \ {0}
    BY <1>1, <2>1, <2>2
  <2> QED BY <2>3 DEF n
<1>6. 2^x \div 2 = 2^(x - 1)
  <2> DEFINE h == 2^(x - 1)
  <2>1. h \in Nat
    BY <1>5
  <2> HIDE DEF h
  <2>2. (2 * h) \div 2 = h
    BY <2>1
  <2> QED BY <1>5, <2>2 DEF h
<1>7. 2^FLAGS = 8 * 2^(FLAGS - 3) /\ 2^(FLAGS - 3) \in Nat \ {0}
  <2> DEFINE n == FLAGS - 3
  <2>1. n \in Nat /\ 3 + n = FLAGS /\ 3 \in 0..(x + PAGE) /\ n \in 0..(x + PAGE - 3)
        /\ n \in 0..(x + PAGE)
    BY <1>1
  <2> HIDE DEF n
  <2>2. 2^(3 + n) = 2^3 * 2^n
    BY <1>1, <2>1
  <2>3. 2^FLAGS = 8 * 2^n /\ 2^n \in Nat \ {0}
    BY <1>1, <2>1, <2>2
  <2> QED BY <2>3 DEF n
<1>8. 2^FLAGS % 8 = 0 /\ 2^FLAGS >= 8
  <2> DEFINE h == 2^(FLAGS - 3)
  <2>1. h \in Nat \ {0}
    BY <1>7
  <2> HIDE DEF h
  <2>2. (8 * h) % 8 = 0 /\ 8 * h >= 8
    BY <2>1
  <2> QED BY <1>7, <2>2 DEF h
<1>9. r # 0 => 2^r = 2^d * 2^(r - d) /\ 2^(r - d) \in Nat \ {0}
  <2> SUFFICES ASSUME r # 0 PROVE 2^r = 2^d * 2^(r - d) /\ 2^(r - d) \in Nat \ {0}
    OBVIOUS
  <2>1. d \in 0..(x + PAGE) /\ r - d \in 0..(x + PAGE - d) /\ d + (r - d) = r
    BY <1>1
  <2> HIDE DEF d
  <2>2. 2^(d + (r - d)) = 2^d * 2^(r - d)
    BY <1>1, <2>1
  <2>3. r - d \in 0..(x + PAGE)
    BY <1>1, <2>1 DEF d
  <2> QED BY <1>1, <2>1, <2>2, <2>3
<1>10. 2^(r + FLAGS) = 2^r * 2^FLAGS
  BY <1>1
<1>11. 2^(x - r) = 2^(x - r - FLAGS) * 2^FLAGS
  <2>1. 2^((x - r - FLAGS) + FLAGS) = 2^(x - r - FLAGS) * 2^FLAGS
    BY <1>1
  <2>2. (x - r - FLAGS) + FLAGS = x - r
    BY <1>1
  <2> QED BY <2>1, <2>2
<1>12. /\ 2^(x - r) \in Nat \ {0} /\ 2^r \in Nat \ {0} /\ 2^PAGE \in Nat \ {0}
       /\ 2^d \in Nat \ {0} /\ 2^FLAGS \in Nat \ {0} /\ 2^(x - r - FLAGS) \in Nat \ {0}
       /\ 2^x \in Nat \ {0}
  BY <1>1
<1> QED
  BY <1>2, <1>3, <1>4, <1>5, <1>6, <1>8, <1>9, <1>10, <1>11, <1>12 DEF x, r, d
\* The number of a page fits into an entry, with the bits below it, and its address
\* into a register.
LEMMA PagesFit ==
  ASSUME WP!WalkAssumption, pm \in Machines,
         NEW number \in WP!PageNumbers(pm), NEW low \in 0..(2^FLAGS - 1)
  PROVE  /\ number \in Nat /\ low \in Nat
         /\ number * PageSize \in Nat /\ number * PageSize + PageSize <= WP!W
         /\ number * 2^FLAGS + low \in Nat /\ number * 2^FLAGS + low < EntrySize
         /\ low * 2^(PAGE - FLAGS) \in Nat /\ low * 2^(PAGE - FLAGS) < PageSize
         /\ pm.reserved # 0 =>
              (number * 2^FLAGS + low) * 2^pm.reserved < 2^(pm.xlen - 1)
<1> DEFINE x == pm.xlen
           r == pm.reserved
           f == 2^FLAGS
           d == 2^(PAGE - FLAGS)
           R == 2^r
           least == 2^(IF r = 0 THEN x - PAGE ELSE x - r - FLAGS - 1)
<1>1. /\ x \in Nat /\ r \in Nat /\ PAGE \in Nat /\ FLAGS \in 3..PAGE /\ PAGE <= x /\ r + FLAGS < x
      /\ \A n \in 0..(x + PAGE) : 2^n \in Nat \ {0}
      /\ \A k \in 0..(x + PAGE) : \A n \in 0..(x + PAGE - k) : 2^(k + n) = 2^k * 2^n
      /\ 2^0 = 1 /\ 2^1 = 2
  <2>1. pm.levels * pm.index \in Nat
    BY MachineIs
  <2> QED BY <2>1, MachineIs
<1>2. /\ f \in Nat /\ f >= 1 /\ d \in Nat /\ d >= 1 /\ PageSize = f * d
      /\ WP!W \in Nat /\ WP!W = EntrySize * R /\ WP!W = 2 * 2^(x - 1)
      /\ EntrySize \in Nat /\ R \in Nat /\ R >= 1
      /\ r = 0 => R = 1
      /\ r # 0 => R = d * 2^(r - (PAGE - FLAGS)) /\ 2^(r - (PAGE - FLAGS)) \in Nat \ {0}
  BY <1>1, Shifts
<1>3. WP!PageNumbers(pm) = 0..(least - 1)
  BY DEF WP!PageNumbers
<1>4. least \in Nat
  <2>1. CASE r = 0
    BY <2>1, <1>1
  <2>2. CASE r # 0
    BY <2>2, <1>1
  <2> QED BY <2>1, <2>2
<1>5. r = 0 => WP!W = least * PageSize
  <2> SUFFICES ASSUME r = 0 PROVE WP!W = least * PageSize
    OBVIOUS
  <2> DEFINE n == x - PAGE
  <2>1. n \in 0..(x + PAGE) /\ n + PAGE = x /\ PAGE \in 0..(x + PAGE - n)
    BY <1>1
  <2>2. least = 2^n
    OBVIOUS
  <2> HIDE DEF n, least, x
  <2>3. 2^(n + PAGE) = 2^n * 2^PAGE
    BY <1>1, <2>1
  <2> QED BY <2>1, <2>2, <2>3 DEF WP!W, PageSize, x
<1>6. r # 0 => 2^(x - 1) = (least * f) * R /\ EntrySize = 2 * (least * f)
  <2> SUFFICES ASSUME r # 0 PROVE 2^(x - 1) = (least * f) * R /\ EntrySize = 2 * (least * f)
    OBVIOUS
  <2> DEFINE n == x - r - FLAGS - 1
  <2>1. n \in 0..(x + PAGE) /\ n + FLAGS = x - r - 1 /\ FLAGS \in 0..(x + PAGE - n)
        /\ x - r - 1 \in 0..(x + PAGE) /\ r \in 0..(x + PAGE - (x - r - 1))
        /\ 1 \in 0..(x + PAGE - (x - r - 1)) /\ (x - r - 1) + r = x - 1
        /\ (x - r - 1) + 1 = x - r
    BY <1>1
  <2>2. least = 2^n
    OBVIOUS
  <2> DEFINE m == x - r - 1
  <2> HIDE DEF n, m, least
  <2>3. 2^(n + FLAGS) = 2^n * 2^FLAGS /\ 2^n \in Nat /\ 2^m \in Nat
    BY <1>1, <2>1 DEF m
  <2>4. 2^(m + r) = 2^m * 2^r /\ 2^(m + 1) = 2^m * 2^1
    BY <1>1, <2>1 DEF m
  <2>5. 2^m = least * f
    BY <2>1, <2>2, <2>3 DEF m
  <2>6. 2^(x - 1) = 2^m * 2^r /\ 2^(x - r) = 2^m * 2
    BY <1>1, <2>1, <2>4 DEF m
  <2>7. EntrySize = 2^(x - r)
    BY DEF EntrySize
  <2>8. 2^m * 2 = 2 * 2^m
    BY <2>3
  <2> QED BY <2>5, <2>6, <2>7, <2>8
<1> DEFINE e == number * f + low
<1> HIDE DEF x, r, f, d, R, least
<1>7. number \in Nat /\ number + 1 <= least /\ low \in Nat /\ low < f
  BY <1>2, <1>3, <1>4 DEF f
<1>8. e \in Nat /\ e < (number + 1) * f /\ (number + 1) * f <= least * f
      /\ (number + 1) * f \in Nat /\ least * f \in Nat
  BY <1>2, <1>4, <1>7
<1>9. low * d \in Nat /\ low * d < f * d /\ PageSize \in Nat
  <2>1. low * d <= (f - 1) * d /\ (f - 1) * d < f * d
    BY <1>2, <1>7
  <2> QED BY <1>2, <1>7, <2>1
<1> HIDE DEF e
<1>10. number * PageSize \in Nat /\ number * PageSize + PageSize = (number + 1) * PageSize
  BY <1>7, <1>9
<1>11. CASE r = 0
  <2>1. (number + 1) * PageSize <= least * PageSize
    BY <1>4, <1>7, <1>9
  <2>2. (number + 1) * f <= (number + 1) * PageSize
    <3>1. f <= f * d
      BY <1>2
    <3> QED BY <1>2, <1>7, <1>9, <3>1
  <2>3. EntrySize = WP!W
    BY <1>2, <1>11
  <2>4. e < EntrySize
    BY <1>2, <1>4, <1>5, <1>8, <1>9, <1>11, <2>1, <2>2, <2>3
  <2> QED
    BY <1>2, <1>5, <1>7, <1>8, <1>9, <1>10, <1>11, <2>1, <2>4 DEF e, f, d, r
<1>12. CASE r # 0
  <2> DEFINE h == least * f
             k == 2^(r - (PAGE - FLAGS))
  <2>1. h \in Nat /\ e < h /\ EntrySize = 2 * h /\ 2^(x - 1) = h * R
    BY <1>6, <1>8, <1>12
  <2>2. k \in Nat \ {0} /\ R = d * k
    BY <1>2, <1>12
  <2> HIDE DEF h, k
  <2>3. e * R < h * R /\ h * R \in Nat
    <3>1. e * R <= (h - 1) * R /\ (h - 1) * R < h * R
      BY <1>2, <1>8, <2>1
    <3> QED BY <1>2, <1>8, <2>1, <3>1
  <2>4. (number + 1) * PageSize <= h * R
    <3>1. d <= R
      BY <1>2, <2>2
    <3>2. (number + 1) * PageSize = ((number + 1) * f) * d
      BY <1>2, <1>7
    <3>3. ((number + 1) * f) * d <= h * d
      BY <1>2, <1>8, <2>1 DEF h
    <3>4. h * d <= h * R
      BY <1>2, <2>1, <3>1
    <3> QED BY <1>2, <1>8, <1>9, <2>1, <3>2, <3>3, <3>4
  <2>5. h * R <= WP!W
    BY <1>2, <2>1, <2>3
  <2>6. (number + 1) * PageSize <= WP!W
    BY <1>2, <1>7, <1>9, <2>3, <2>4, <2>5
  <2> QED
    BY <1>2, <1>7, <1>8, <1>9, <1>10, <2>1, <2>3, <2>6 DEF e, f, d, r, R, x
<1> QED BY <1>11, <1>12
\* A shift to the left drops what is above the register.
LEMMA ShiftedLeft ==
  ASSUME NEW w, NEW c, NEW e, NEW x, NEW d, NEW s
  PROVE  /\ w \in Nat /\ c \in Int /\ e \in Nat /\ d \in Nat /\ s \in Nat
         /\ x = w * c + e /\ s = e * d /\ s < w
         => (x * d) % w = s
<1>1. ASSUME /\ w \in Nat /\ c \in Int /\ e \in Nat /\ d \in Nat /\ s \in Nat
             /\ x = w * c + e /\ s = e * d /\ s < w
      PROVE  c * d \in Int /\ x * d \in Int /\ x * d = w * (c * d) + s
  <2>1. (w * c + e) * d = w * (c * d) + e * d
    BY <1>1
  <2> QED BY <1>1, <2>1
<1> DEFINE u == c * d
           y == x * d
<1> HIDE DEF u, y
<1>2. ASSUME w \in Nat, s \in Nat, s < w, u \in Int, y \in Int, y = w * u + s
      PROVE  y % w = s
  BY <1>2, MDP!Division
<1> QED BY <1>1, <1>2 DEF u, y

\* A shift to the left by r bits drops r bits.
LEMMA ShiftedOut ==
  ASSUME NEW q, NEW r, NEW w, NEW c, NEW e, NEW x, NEW n
  PROVE  /\ q \in Nat /\ r \in Nat /\ w \in Nat /\ w = q * r
         /\ c \in Int /\ e \in Nat /\ x = q * c + e
         /\ n \in Nat /\ n = e * r /\ n < w
         => (x * r) % w = n
<1>1. ASSUME /\ q \in Nat /\ r \in Nat /\ w \in Nat /\ w = q * r
             /\ c \in Int /\ e \in Nat /\ x = q * c + e
             /\ n \in Nat /\ n = e * r /\ n < w
      PROVE  x * r \in Int /\ x * r = w * c + n
  <2>1. (q * c + e) * r = (q * r) * c + e * r
    BY <1>1
  <2> QED BY <1>1, <2>1
<1> DEFINE y == x * r
<1> HIDE DEF y
<1>2. ASSUME w \in Nat, c \in Int, n \in Nat, n < w, y \in Int, y = w * c + n
      PROVE  y % w = n
  BY <1>2, MDP!Division
<1> QED BY <1>1, <1>2 DEF y

\* A shift to the right, without a sign and without losing a bit.
LEMMA ShiftedRight ==
  ASSUME NEW k, NEW t, NEW n, NEW w
  PROVE  /\ k \in Nat /\ k >= 1 /\ t \in Nat /\ n \in Nat /\ n = k * t
         /\ w \in Nat /\ n < w
         => (n \div k) % w = t
<1>1. ASSUME /\ k \in Nat /\ k >= 1 /\ t \in Nat /\ n \in Nat /\ n = k * t
             /\ w \in Nat /\ n < w
      PROVE  (n \div k) % w = t
  <2>1. n \div k = t
    <3>1. n = k * t + 0 /\ 0 \in Nat /\ 0 < k /\ n \in Int /\ t \in Int
      BY <1>1
    <3> QED BY <1>1, <3>1, MDP!Division
  <2>2. t < w
    <3>1. 1 * t <= k * t
      BY <1>1
    <3> QED BY <1>1, <3>1
  <2>3. (t % w) = t
    <3>1. t = w * 0 + t
      BY <1>1
    <3> QED BY <1>1, <2>2, <3>1, MDP!Division
  <2> QED BY <2>1, <2>3
<1> QED BY <1>1

\* The address of a table, from its page number in satp or in an entry.
LEMMA TableAddressIs ==
  ASSUME WP!WalkAssumption, pm \in Machines,
         NEW number \in WP!PageNumbers(pm), NEW low \in 0..(2^FLAGS - 1),
         NEW entry \in Nat, entry % EntrySize = number * 2^FLAGS + low
  PROVE  WP!Page(WP!TableAddress(entry)) = number * PageSize
<1> DEFINE r == pm.reserved
           f == 2^FLAGS
           d == 2^(PAGE - FLAGS)
           R == 2^r
           half == 2^(pm.xlen - 1)
           k == 2^(r - (PAGE - FLAGS))
           q == EntrySize
           w == WP!W
           e == number * f + low
           p == PageSize
           s == low * d
<1>1. /\ f \in Nat /\ f >= 1 /\ d \in Nat /\ d >= 1 /\ p \in Nat /\ p >= 1 /\ p = f * d
      /\ w \in Nat /\ w >= 2 /\ w = q * R /\ w = 2 * half /\ w \div 2 = half
      /\ half \in Nat /\ q \in Nat /\ q >= 1 /\ R \in Nat /\ R >= 1
      /\ r = 0 => R = 1
      /\ r # 0 => R = d * k /\ k \in Nat /\ k >= 1
  <2>1. 2^0 = 1 /\ 2^(pm.xlen - 1) \in Nat
    <3>1. pm.xlen - 1 \in 0..(pm.xlen + PAGE)
      BY MachineIs
    <3> QED BY <3>1, MachineIs
  <2>2. r = 0 => R = 1
    BY <2>1
  <2>3. half \in Nat
    BY <2>1
  <2> HIDE DEF r, f, d, R, half, k, q, w, p
  <2>4. /\ f \in Nat /\ f >= 1 /\ d \in Nat /\ d >= 1 /\ p \in Nat /\ p >= 1 /\ p = f * d
        /\ w \in Nat /\ w >= 2 /\ w = q * R /\ w = 2 * half /\ w \div 2 = half
        /\ q \in Nat /\ q >= 1 /\ R \in Nat /\ R >= 1
    <3>1. f >= 8
      BY Shifts DEF f
    <3>2. f \in Nat /\ d \in Nat /\ d >= 1 /\ p \in Nat /\ p >= 1 /\ p = f * d
      BY Shifts DEF f, d, p
    <3>3. w \in Nat /\ w >= 2 /\ w = q * R /\ w = 2 * half /\ w \div 2 = half
      BY Shifts DEF w, q, R, half, r
    <3>4. q \in Nat /\ q >= 1 /\ R \in Nat /\ R >= 1
      BY Shifts DEF q, R, r
    <3> QED BY <3>1, <3>2, <3>3, <3>4
  <2>5. r # 0 => R = d * k /\ k \in Nat /\ k >= 1
    BY Shifts DEF r, R, d, k
  <2> QED BY <2>2, <2>3, <2>4, <2>5
<1>2. /\ number \in Nat /\ low \in Nat /\ number * p \in Nat /\ number * p + p <= w
      /\ e \in Nat /\ e < q /\ s \in Nat /\ s < p
      /\ r # 0 => e * R < half
  BY PagesFit
<1>3. (entry % q) = e
  OBVIOUS
<1>4. /\ r = 0 => WP!TableAddress(entry) = (entry * d) % w
      /\ r # 0 => WP!TableAddress(entry) =
           ((IF (entry * R) % w < w \div 2 THEN (entry * R) % w ELSE ((entry * R) % w) - w) \div k) % w
  BY DEF WP!TableAddress, WP!ShiftLeft, WP!ShiftRight
<1>10. p = 2^PAGE
  BY DEF PageSize
<1>5. e * d = number * p + s
  <2> HIDE DEF f, d, p
  <2> QED BY <1>1, <1>2
<1> HIDE DEF r, f, d, R, half, k, q, w, e, p, s
<1>6. number * p + s \in Nat /\ number * p + s < w
  BY <1>1, <1>2
<1>7. WP!TableAddress(entry) = number * p + s
  <2> DEFINE c == entry \div q
             t == e * d
             n == e * R
  <2>1. c \in Int /\ entry = q * c + e
    BY <1>1, <1>3, MDP!Divided
  <2>2. t \in Nat /\ t = number * p + s /\ t < w /\ n \in Nat
    BY <1>1, <1>2, <1>5, <1>6
  <2> HIDE DEF c
  <2>3. CASE r = 0
    <3>1. t = e * d /\ entry = w * c + e
      BY <1>1, <2>1, <2>3
    <3> HIDE DEF t
    <3>2. /\ w \in Nat /\ c \in Int /\ e \in Nat /\ d \in Nat /\ t \in Nat
          /\ entry = w * c + e /\ t = e * d /\ t < w
      BY <1>1, <1>2, <2>1, <2>2, <3>1
    <3>3. (entry * d) % w = t
      BY <3>2, ShiftedLeft, Zenon
    <3> QED BY <1>4, <2>2, <2>3, <3>3
  <2>4. CASE r # 0
    <3>1. n = e * R /\ n < half /\ n < w /\ R = d * k /\ k \in Nat /\ k >= 1
      BY <1>1, <1>2, <2>2, <2>4
    <3>2. /\ q \in Nat /\ d \in Nat /\ R \in Nat /\ w \in Nat /\ w = q * R /\ e \in Nat
          /\ entry \in Int
      BY <1>1, <1>2
    <3> HIDE DEF n, t
    <3>6. t = e * d
      BY DEF t
    <3>7. /\ q \in Nat /\ R \in Nat /\ w \in Nat /\ w = q * R
          /\ c \in Int /\ e \in Nat /\ entry = q * c + e
          /\ n \in Nat /\ n = e * R /\ n < w
      BY <2>1, <2>2, <3>1, <3>2
    <3>8. (entry * R) % w = n
      BY <3>7, ShiftedOut, Zenon
    <3>9. k \in Nat /\ k >= 1 /\ t \in Nat /\ n \in Nat /\ n = k * t /\ w \in Nat /\ n < w
      <4>1. e * (d * k) = k * (e * d)
        BY <3>1, <3>2
      <4> QED BY <2>2, <3>1, <3>6, <3>7, <4>1
    <3>10. (n \div k) % w = t
      BY <3>9, ShiftedRight, Zenon
    <3>3. (entry * R) % w = n /\ (n \div k) % w = t
      BY <3>8, <3>10
    <3>4. n < w \div 2
      BY <1>1, <3>1
    <3>5. WP!TableAddress(entry) = (n \div k) % w
      BY <1>4, <2>4, <3>3, <3>4, Zenon
    <3> QED BY <2>2, <3>3, <3>5
  <2> QED BY <2>3, <2>4
<1>8. (number * p + s) % p = s
  <2> DEFINE t == number * p + s
  <2>1. /\ t \in Int /\ t = p * number + s /\ p \in Nat /\ number \in Int
        /\ s \in Nat /\ s < p
    BY <1>1, <1>2, <1>6
  <2> HIDE DEF t
  <2>2. t % p = s
    BY <2>1, MDP!Division
  <2> QED BY <2>2 DEF t
<1>9. (number * p + s) - s = number * p
  BY <1>1, <1>2
<1>11. WP!Page(WP!TableAddress(entry)) = number * p
  BY <1>7, <1>8, <1>9, <1>10 DEF WP!Page
<1> QED BY <1>11 DEF p

\* An entry has its page number and bits below it; the lowest two bits tell a table
\* from a page.
LEMMA EntryIs ==
  ASSUME WP!WalkAssumption, pm \in Machines,
         NEW number \in WP!PageNumbers(pm), NEW leaf \in BOOLEAN, NEW other \in BOOLEAN
  PROVE  /\ \E low \in 0..(2^FLAGS - 1) : WP!Entry(number, leaf, other) = number * 2^FLAGS + low
         /\ WP!Entry(number, leaf, other) \in Nat
         /\ WP!Entry(number, leaf, other) % EntrySize = WP!Entry(number, leaf, other)
         /\ WP!Entry(number, leaf, other) % 4 = 1 <=> ~leaf
<1> DEFINE f == 2^FLAGS
           low == (IF other THEN 4 ELSE 0) + (IF leaf THEN 2 ELSE 0) + 1
           e == number * f + low
           q == EntrySize
<1>1. f \in Nat /\ f >= 8 /\ f % 8 = 0 /\ q \in Nat /\ q >= 1
  BY Shifts
<1>2. low \in 0..7 /\ low \in Nat
  OBVIOUS
<1>3. low \in 0..(2^FLAGS - 1)
  BY <1>1, <1>2 DEF f
<1>4. WP!Entry(number, leaf, other) = e
  <2> HIDE DEF f
  <2>1. number \in Nat
    BY <1>3, PagesFit
  <2> QED BY <1>1, <2>1 DEF WP!Entry, f
<1>5. number \in Nat /\ e \in Nat /\ e < q
  <2> HIDE DEF low
  <2> QED BY <1>3, PagesFit
<1>6. e % q = e
  <2> HIDE DEF e, q
  <2> QED BY <1>1, <1>5
<1>7. e % 4 = low % 4
  <2> DEFINE g == f \div 8
  <2>1. g \in Nat /\ f = 8 * g
    <3> HIDE DEF f
    <3> QED BY <1>1
  <2> HIDE DEF g, f, low
  <2>2. e = low + 4 * (2 * (number * g)) /\ 2 * (number * g) \in Int
    <3>1. number * (8 * g) = 4 * (2 * (number * g))
      BY <1>5, <2>1
    <3> QED BY <1>2, <1>5, <2>1, <3>1
  <2> DEFINE c == 2 * (number * g)
  <2>3. c \in Int /\ e = low + 4 * c
    BY <2>2
  <2> HIDE DEF c, e
  <2>4. (low + 4 * c) % 4 = low % 4
    BY <1>2, <2>3, MDP!Congruent
  <2> QED BY <2>3, <2>4
<1>8. low % 4 = 1 <=> ~leaf
  OBVIOUS
<1> HIDE DEF low, e, f, q
<1>9. WP!Entry(number, leaf, other) = number * 2^FLAGS + low
  BY <1>4 DEF e, f
<1> QED BY <1>3, <1>4, <1>5, <1>6, <1>7, <1>8, <1>9 DEF q
\* The number of a page, taken out of its entry without a sign.
LEMMA NumberOf ==
  ASSUME NEW N, NEW g, NEW s, NEW n, NEW w
  PROVE  /\ N \in Nat /\ g \in Nat /\ s \in Nat /\ s < g /\ n \in Nat /\ n = g * N + s
         /\ w \in Nat /\ n < w
         => (n \div g) % w = N
<1>1. ASSUME /\ N \in Nat /\ g \in Nat /\ s \in Nat /\ s < g /\ n \in Nat /\ n = g * N + s
             /\ w \in Nat /\ n < w
      PROVE  (n \div g) % w = N
  <2>2. N < w
    <3>1. 1 * N <= g * N
      BY <1>1
    <3> QED BY <1>1, <3>1
  <2>3. ASSUME g \in Nat, s \in Nat, s < g, n \in Int, N \in Int, n = g * N + s
        PROVE  n \div g = N
    BY <2>3, MDP!Division
  <2>4. n \div g = N
    BY <1>1, <2>3
  <2>5. (N % w) = N
    <3>1. N = w * 0 + N
      BY <1>1
    <3> QED BY <1>1, <2>2, <3>1, MDP!Division
  <2> QED BY <2>4, <2>5
<1> QED BY <1>1

\* The same in a register whose top bit is the top bit of the number: the sign that the
\* shift brings in is shifted out again.
LEMMA SignOut ==
  ASSUME NEW N, NEW v, NEW w, NEW d, NEW p, NEW s
  PROVE  /\ N \in Nat /\ v \in Nat /\ w \in Nat /\ w >= 1 /\ d \in Nat /\ p \in Nat
         /\ v * p = w * d /\ s \in Nat /\ s = N * p /\ s < w
         => (((N - v) % w) * p) % w = s
<1>1. ASSUME /\ N \in Nat /\ v \in Nat /\ w \in Nat /\ w >= 1 /\ d \in Nat /\ p \in Nat
             /\ v * p = w * d /\ s \in Nat /\ s = N * p /\ s < w
      PROVE  (((N - v) % w) * p) % w = s
  <2> DEFINE m  == N - v
             j  == m \div w
             r  == m % w
             y  == r * p
             c  == -(d + j * p)
  <2>1. m \in Int
    BY <1>1
  <2>3. j \in Int /\ r \in Nat /\ m = w * j + r
    <3> HIDE DEF m
    <3>1. ASSUME w \in Nat, w >= 1, m \in Int
          PROVE  j \in Int /\ r \in Nat /\ m = w * j + r
      BY <3>1, MDP!Divided
    <3> QED BY <1>1, <2>1, <3>1
  <2> HIDE DEF j, r
  <2>5. c \in Int /\ y \in Int /\ y = w * c + s
    <3>1. r = N - v - w * j
      BY <1>1, <2>3
    <3>2. (N - v - w * j) * p = N * p - v * p - w * (j * p)
      BY <1>1, <2>3
    <3>3. j * p \in Int /\ w * (-(d + j * p)) = -(w * d) - w * (j * p)
      BY <1>1, <2>3
    <3> QED BY <1>1, <2>3, <3>1, <3>2, <3>3
  <2> HIDE DEF y, c
  <2>6. y % w = s
    <3>1. ASSUME w \in Nat, s \in Nat, s < w, c \in Int, y \in Int, y = w * c + s
          PROVE  y % w = s
      BY <3>1, MDP!Division
    <3> QED BY <1>1, <2>5, <3>1
  <2> QED BY <2>6 DEF r, y
<1> QED BY <1>1

\* The address of a page, from the entry that leads to it.
LEMMA PageAddressIs ==
  ASSUME WP!WalkAssumption, pm \in Machines,
         NEW number \in WP!PageNumbers(pm), NEW low \in 0..(2^FLAGS - 1)
  PROVE  WP!PageAddress(number * 2^FLAGS + low) = number * PageSize
<1> DEFINE r == pm.reserved
           f == 2^FLAGS
           d == 2^(PAGE - FLAGS)
           R == 2^r
           half == 2^(pm.xlen - 1)
           g == 2^(r + FLAGS)
           q == EntrySize
           v == 2^(pm.xlen - r - FLAGS)
           w == WP!W
           e == number * f + low
           p == PageSize
           s == number * p
           n == e * R
<1>1. /\ f \in Nat /\ f >= 8 /\ d \in Nat /\ d >= 1 /\ p \in Nat /\ p >= 1 /\ p = f * d
      /\ w \in Nat /\ w >= 2 /\ w = q * R /\ w \div 2 = half
      /\ q \in Nat /\ q >= 1 /\ R \in Nat /\ R >= 1 /\ g = R * f
      /\ v \in Nat /\ q = v * f
      /\ r = 0 => R = 1
  <2>1. r = 0 => R = 1
    BY MachineIs
  <2>2. f \in Nat /\ f >= 8 /\ d \in Nat /\ d >= 1 /\ p \in Nat /\ p >= 1 /\ p = f * d
    BY Shifts
  <2>3. w \in Nat /\ w >= 2 /\ w = q * R /\ w \div 2 = half
    BY Shifts
  <2>4. q \in Nat /\ q >= 1 /\ R \in Nat /\ R >= 1 /\ g = R * f
    BY Shifts
  <2>5. v \in Nat /\ q = v * f
    BY Shifts
  <2> HIDE DEF r, f, d, R, half, g, q, v, w, p
  <2> QED BY <2>1, <2>2, <2>3, <2>4, <2>5
<1>2. /\ number \in Nat /\ low \in Nat /\ low < f
      /\ s \in Nat /\ s + p <= w
      /\ e \in Nat /\ e < q
      /\ r # 0 => n < half
  <2> HIDE DEF p
  <2>1. low < f
    BY <1>1
  <2> QED BY <2>1, PagesFit DEF p
<1>3. WP!PageAddress(e) =
        (((((IF (e * R) % w < w \div 2 THEN (e * R) % w ELSE ((e * R) % w) - w)) \div g) % w) * p) % w
  BY DEF WP!PageAddress, WP!ShiftLeft, WP!ShiftRight, PageSize
<1>4. s = number * p /\ n = e * R /\ e = number * f + low
  OBVIOUS
<1> HIDE DEF r, f, d, R, half, g, q, v, w, p, s, n, e
<1>5. n \in Nat /\ n < w /\ s < w
  <2>1. e * R <= (q - 1) * R /\ (q - 1) * R < q * R
    BY <1>1, <1>2
  <2> QED BY <1>1, <1>2, <1>4, <2>1
<1>6. (e * R) % w = n
  <2>1. n = w * 0 + n
    BY <1>1, <1>5
  <2>2. ASSUME n \in Nat, w \in Nat, n < w, n = w * 0 + n
        PROVE  (n % w) = n
    BY <2>2, MDP!Division
  <2>3. (n % w) = n
    BY <1>1, <1>5, <2>1, <2>2
  <2> QED BY <1>4, <2>3
<1>7. CASE n < w \div 2
  <2> DEFINE t == low * R
  <2>1. /\ number \in Nat /\ g \in Nat /\ t \in Nat /\ t < g /\ n \in Nat /\ n = g * number + t
        /\ w \in Nat /\ n < w
    <3>1. (number * f + low) * R = (R * f) * number + low * R
      BY <1>1, <1>2
    <3>2. low * R <= (f - 1) * R /\ (f - 1) * R < R * f
      BY <1>1, <1>2
    <3> QED BY <1>1, <1>2, <1>4, <1>5, <3>1, <3>2
  <2> HIDE DEF t
  <2>2. (n \div g) % w = number
    BY <2>1, NumberOf, Zenon
  <2>3. WP!PageAddress(e) = (number * p) % w
    BY <1>3, <1>6, <1>7, <2>2, Zenon
  <2>4. (s % w) = s
    <3>1. ASSUME s \in Nat, w \in Nat, s < w
          PROVE  (s % w) = s
      <4>1. s = w * 0 + s
        BY <3>1
      <4> QED BY <3>1, <4>1, MDP!Division
    <3> QED BY <1>1, <1>2, <1>5, <3>1
  <2> QED BY <1>4, <2>3, <2>4 DEF e, f, p
<1>8. CASE ~(n < w \div 2)
  <2>1. r = 0
    BY <1>1, <1>2, <1>8
  <2>2. R = 1 /\ n = e /\ g = f /\ w = v * f
    BY <1>1, <1>2, <1>4, <2>1
  <2> DEFINE a1 == n - w
             m  == number - v
  <2>3. a1 \in Int /\ m \in Int /\ a1 = f * m + low
    BY <1>1, <1>2, <1>4, <2>2
  <2>7. a1 \div g = m
    <3> HIDE DEF a1, m
    <3>1. ASSUME a1 \in Int, m \in Int, f \in Nat, low \in Nat, low < f, a1 = f * m + low
          PROVE  a1 \div f = m
      BY <3>1, MDP!Division
    <3> QED BY <1>1, <1>2, <2>2, <2>3, <3>1
  <2>8. /\ number \in Nat /\ v \in Nat /\ w \in Nat /\ w >= 1 /\ d \in Nat /\ p \in Nat
        /\ v * p = w * d /\ s \in Nat /\ s = number * p /\ s < w
    <3>1. v * (f * d) = (v * f) * d
      BY <1>1
    <3> QED BY <1>1, <1>2, <1>4, <1>5, <2>2, <3>1
  <2>4. (((a1 \div g) % w) * p) % w = s
    <3>1. ((m % w) * p) % w = s
      BY <2>8, SignOut, Zenon
    <3> QED BY <2>7, <3>1
  <2>5. WP!PageAddress(e) = ((((n - w) \div g) % w) * p) % w
    BY <1>3, <1>6, <1>8, Zenon
  <2>6. WP!PageAddress(e) = s
    BY <2>4, <2>5
  <2> QED BY <1>4, <2>6 DEF e, f, p
<1> QED BY <1>7, <1>8

-----------------------------------------------------------------------------
\* A call: its machine, and an address and a way to a page that the tables hold.
WalkCalled ==
  /\ pm \in Machines /\ location \in Nat /\ csr_satp \in Nat
  /\ csr_satp % 2^(pm.xlen - pm.reserved - FLAGS) = Tables[1]
  /\ path \in Seq([number : WP!PageNumbers(pm), other : BOOLEAN])
  /\ Len(path) \in 1..pm.levels
  /\ \A n \in 1..(Len(path) - 1) : path[n].number = Tables[n + 1]

\* The bits of the address from this field on down.
BitsBelow(field) == location % 2^(PAGE + field * pm.index)

\* At the n-th table page_walk holds its number where an entry has it, whatever there
\* is below and above.
AtTable(n) ==
  /\ n \in 1..Len(path)
  /\ shift_ammount = (pm.levels - n) * pm.index + PAGE
  /\ page_walk \in Nat
  /\ \E low \in 0..(2^FLAGS - 1) : page_walk % EntrySize = Tables[n] * 2^FLAGS + low

\* With k fields to append, page_walk has those above them.
AtField(k) ==
  /\ k \in 0..(pm.levels - Len(path))
  /\ shift_ammount = (k - 1) * pm.index + PAGE
  /\ page_walk = path[Len(path)].number * PageSize
                   + BitsBelow(pm.levels - Len(path)) - BitsBelow(k)

WalkInv ==
  /\ WalkCalled
  /\ stage \in {"entry", "walk", "superpage", "done"}
  /\ stage = "walk" => WP!Active /\ \E n \in 1..Len(path) : AtTable(n)
  /\ stage = "superpage" => WP!Active /\ \E k \in 0..(pm.levels - Len(path)) : AtField(k)
  /\ WP!WalkRight

\* The entries on the way, and the powers of two of their fields.
LEMMA CallIs ==
  ASSUME WP!WalkAssumption, WalkCalled
  PROVE  /\ pm \in Machines /\ pm.levels \in Nat \ {0} /\ pm.index \in Nat \ {0}
         /\ Len(path) \in 1..pm.levels /\ Len(path) \in Nat /\ DOMAIN path = 1..Len(path)
         /\ \A n \in 1..Len(path) :
              /\ path[n].number \in WP!PageNumbers(pm) /\ path[n].other \in BOOLEAN
              /\ n < Len(path) => path[n].number = Tables[n + 1]
              /\ Tables[n] \in WP!PageNumbers(pm)
              /\ \A j \in 1..Len(path) : Tables[j] = Tables[n] => j = n
<1>1. /\ pm \in Machines /\ pm.levels \in Nat \ {0} /\ pm.index \in Nat \ {0}
  BY MachineIs DEF WalkCalled
<1>2. /\ path \in Seq([number : WP!PageNumbers(pm), other : BOOLEAN])
      /\ Len(path) \in 1..pm.levels
      /\ \A n \in 1..(Len(path) - 1) : path[n].number = Tables[n + 1]
  BY DEF WalkCalled
<1>3. /\ \A k \in 1..pm.levels : Tables[k] \in WP!PageNumbers(pm)
      /\ \A j, k \in 1..pm.levels : Tables[j] = Tables[k] => j = k
  BY <1>1 DEF WP!WalkAssumption
<1>4. DOMAIN path = 1..Len(path) /\ Len(path) \in Nat
  BY <1>2
<1>5. ASSUME NEW n \in 1..Len(path)
      PROVE  path[n].number \in WP!PageNumbers(pm) /\ path[n].other \in BOOLEAN
  <2> DEFINE S == [number : WP!PageNumbers(pm), other : BOOLEAN]
  <2>1. path \in Seq(S)
    BY <1>2
  <2> HIDE DEF S
  <2>2. path[n] \in S
    BY <1>4, <2>1, ElementOfSeq
  <2> QED BY <2>2 DEF S
<1>6. ASSUME NEW n \in 1..Len(path)
      PROVE  /\ n < Len(path) => path[n].number = Tables[n + 1]
             /\ n \in 1..pm.levels
  BY <1>1, <1>2, <1>4
<1>7. ASSUME NEW n \in 1..Len(path)
      PROVE  /\ Tables[n] \in WP!PageNumbers(pm)
             /\ \A j \in 1..Len(path) : Tables[j] = Tables[n] => j = n
  BY <1>3, <1>6
<1> QED BY <1>1, <1>2, <1>4, <1>5, <1>6, <1>7

\* From one table to the next the walk goes down by a field.
LEMMA FieldDown ==
  ASSUME NEW L \in Nat, NEW x \in Nat, NEW n \in Int
  PROVE  (L - (n + 1)) * x = (L - n) * x - x /\ (L - n) * x \in Int
OBVIOUS

\* The bits of the address below a field are a number, and so is the power they are below.
LEMMA BitsBelowIs ==
  ASSUME WP!WalkAssumption, WalkCalled, NEW k \in 0..pm.levels
  PROVE  /\ BitsBelow(k) \in Nat
         /\ PAGE + k * pm.index \in 0..pm.xlen
<1> DEFINE L == pm.levels
           x == pm.index
           e == PAGE + k * pm.index
<1>1. pm \in Machines /\ location \in Int
  BY DEF WalkCalled
<1>2. /\ L \in Nat /\ x \in Nat /\ PAGE \in Nat /\ pm.xlen \in Nat
      /\ L * x + PAGE <= pm.xlen
  BY <1>1, MachineIs
<1>3. e = PAGE + k * x
  OBVIOUS
<1> HIDE DEF L, x, e
<1>4. k \in Nat /\ k <= L
  BY <1>2 DEF L
<1>5. k * x \in Nat /\ L * x \in Nat /\ k * x <= L * x
  BY <1>2, <1>4
<1>6. e \in 0..pm.xlen
  BY <1>2, <1>3, <1>5
<1>7. e \in 0..(pm.xlen + PAGE)
  BY <1>2, <1>6
<1>8. 2^e \in Nat /\ 2^e >= 1
  BY <1>1, <1>7, MachineIs
<1>9. BitsBelow(k) \in Nat
  BY <1>1, <1>8, MDP!Divided DEF BitsBelow, e
<1> QED BY <1>6, <1>9 DEF e

\* The walk starts at the root: satp has its number below mode and address space.
LEMMA EnterStep ==
  ASSUME WP!WalkAssumption, WalkInv, WP!Enter
  PROVE  WalkInv'
<1>1. /\ WalkCalled /\ WP!Active /\ stage' = "walk"
      /\ UNCHANGED <<pm, csr_satp, location, path>>
      /\ page_walk' = WP!ShiftLeft(csr_satp, FLAGS)
      /\ shift_ammount' = (pm.levels - 1) * pm.index + PAGE
  BY DEF WalkInv, WP!Enter
<1>2. /\ 1 \in 1..Len(path) /\ Tables[1] \in WP!PageNumbers(pm)
      /\ pm \in Machines
  BY <1>1, CallIs
<1> DEFINE f == 2^FLAGS
           v == 2^(pm.xlen - pm.reserved - FLAGS)
           q == EntrySize
           R == 2^pm.reserved
           w == WP!W
           t == Tables[1]
           x == csr_satp
<1>3. /\ f \in Nat /\ f >= 8 /\ v \in Nat /\ v >= 1 /\ q \in Nat /\ q >= 1 /\ q = v * f
      /\ R \in Nat /\ R >= 1 /\ w \in Nat /\ w >= 2 /\ w = q * R
  <2>1. f \in Nat /\ f >= 8
    BY <1>2, Shifts
  <2>2. v \in Nat /\ v >= 1 /\ q = v * f
    BY <1>2, Shifts
  <2>3. R \in Nat /\ R >= 1 /\ w \in Nat /\ w >= 2 /\ w = q * R /\ q \in Nat /\ q >= 1
    BY <1>2, Shifts
  <2> QED BY <2>1, <2>2, <2>3
<1>4. 0 \in 0..(2^FLAGS - 1)
  <2> HIDE DEF v, q, R, w
  <2> QED BY <1>3 DEF f
<1>5. t \in Nat /\ t * f \in Nat /\ t * f < q
  <2>1. t \in Nat /\ t * 2^FLAGS + 0 \in Nat /\ t * 2^FLAGS + 0 < EntrySize
    BY <1>2, <1>4, PagesFit
  <2>2. t * f + 0 = t * f
    <3> HIDE DEF v, q, R, w, t, f
    <3> QED BY <1>3, <2>1
  <2> QED BY <2>1, <2>2
<1>6. x \in Nat /\ x % v = t
  BY <1>1 DEF WalkCalled
<1>7. page_walk' = (x * f) % w
  BY <1>1 DEF WP!ShiftLeft
<1> HIDE DEF f, v, q, R, w, t, x
<1> DEFINE c == x \div v
           y == x * f
           j == y \div w
           z == y % w
<1>8. c \in Int /\ x = v * c + t
  BY <1>3, <1>6, MDP!Divided
<1>9. y \in Int /\ y = q * c + t * f
  <2>1. (v * c + t) * f = (v * f) * c + t * f
    <3> HIDE DEF c
    <3> QED BY <1>3, <1>5, <1>8
  <2> HIDE DEF c
  <2> QED BY <1>3, <1>6, <1>8, <2>1
<1> HIDE DEF c, y
<1>10. j \in Int /\ z \in Nat /\ y = w * j + z
  <2>1. ASSUME w \in Nat, w >= 1, y \in Int
        PROVE  j \in Int /\ z \in Nat /\ y = w * j + z
    BY <2>1, MDP!Divided
  <2>2. w \in Nat /\ w >= 1 /\ y \in Int
    <3> HIDE DEF j, z
    <3> QED BY <1>3, <1>9
  <2> HIDE DEF j, z
  <2> QED BY <2>1, <2>2
<1> HIDE DEF j, z
<1> DEFINE u == c - R * j
           s == t * f
<1>11. z = q * u + s /\ u \in Int
  <2>1. q * (c - R * j) = q * c - (q * R) * j /\ R * j \in Int
    BY <1>3, <1>8, <1>10
  <2>2. q * c \in Int /\ w * j \in Int
    BY <1>3, <1>8, <1>10
  <2>3. z = q * c + t * f - w * j
    BY <1>5, <1>9, <1>10, <2>2
  <2> QED BY <1>3, <1>5, <1>8, <2>1, <2>2, <2>3
<1>12. s \in Nat /\ s < q
  BY <1>5
<1> HIDE DEF u, s
<1>13. z % q = s
  <2>1. ASSUME q \in Nat, u \in Int, s \in Nat, s < q, z \in Int, z = q * u + s
        PROVE  z % q = s
    BY <2>1, MDP!Division
  <2> QED BY <1>3, <1>10, <1>11, <1>12, <2>1
<1>14. page_walk' \in Nat /\ page_walk' % EntrySize = Tables[1] * 2^FLAGS
  <2>1. page_walk' = z
    BY <1>7 DEF z, y
  <2> QED BY <1>10, <1>13, <2>1 DEF q, s, t, f
<1>15. Tables[1] * 2^FLAGS = Tables[1] * 2^FLAGS + 0
  BY <1>5 DEF t, f
<1>16. AtTable(1)'
  <2>1. EntrySize' = EntrySize /\ Len(path)' = Len(path)
    BY <1>1 DEF EntrySize
  <2>2. \E low \in 0..(2^FLAGS - 1) : page_walk' % EntrySize = Tables[1] * 2^FLAGS + low
    BY <1>4, <1>14, <1>15
  <2> QED BY <1>1, <1>2, <1>14, <2>1, <2>2 DEF AtTable
<1>17. WalkCalled' /\ WP!Active'
  <2>1. WalkCalled'
    BY <1>1 DEF WalkCalled
  <2>2. WP!Active'
    BY <1>1 DEF WP!Active
  <2> QED BY <2>1, <2>2
<1>18. \E n \in 1..Len(path') : AtTable(n)'
  BY <1>1, <1>2, <1>16
<1> QED BY <1>1, <1>17, <1>18 DEF WalkInv, WP!WalkRight

\* Where no translation is on, the address stays what it is.
LEMMA EnterBareStep ==
  ASSUME WalkInv, WP!EnterBare
  PROVE  WalkInv'
<1>1. /\ WalkCalled /\ ~WP!Active /\ stage' = "done" /\ mem_addr' = location
      /\ UNCHANGED <<pm, csr_satp, location, path>>
  BY DEF WalkInv, WP!EnterBare
<1>2. WalkCalled'
  BY <1>1 DEF WalkCalled
<1>3. ~WP!Active' /\ mem_addr' = location'
  BY <1>1 DEF WP!Active
<1> QED BY <1>1, <1>2, <1>3 DEF WalkInv, WP!WalkRight

\* The entry that the walk reads at the n-th table leads to the next table or, at the
\* last, to the page.
LEMMA EntryRead ==
  ASSUME WP!WalkAssumption, WalkCalled, NEW n \in 1..Len(path), AtTable(n)
  PROVE  WP!Load(WP!Page(WP!TableAddress(page_walk)),
              (location \div 2^shift_ammount) % 2^pm.index)
           = WP!Entry(path[n].number, n = Len(path), path[n].other)
<1>1. /\ pm \in Machines /\ pm.levels \in Nat /\ pm.index \in Nat
      /\ Len(path) \in Nat /\ DOMAIN path = 1..Len(path)
      /\ Tables[n] \in WP!PageNumbers(pm)
      /\ \A j \in 1..Len(path) :
           Tables[j] \in WP!PageNumbers(pm) /\ (Tables[j] = Tables[n] => j = n)
  BY CallIs
<1>2. PICK low \in 0..(2^FLAGS - 1) : page_walk % EntrySize = Tables[n] * 2^FLAGS + low
  BY DEF AtTable
<1>3. page_walk \in Nat /\ shift_ammount = (pm.levels - n) * pm.index + PAGE
  BY DEF AtTable
<1> DEFINE address == WP!Page(WP!TableAddress(page_walk))
           index == (location \div 2^shift_ammount) % 2^pm.index
<1>4. address = Tables[n] * 2^PAGE
  BY <1>1, <1>2, <1>3, TableAddressIs DEF PageSize
<1>5. index = WP!Index(pm.levels - n)
  <2> DEFINE s == (pm.levels - n) * pm.index
  <2>1. s + PAGE = PAGE + s
    <3>1. s \in Int /\ PAGE \in Nat
      BY <1>1 DEF WP!WalkAssumption
    <3> HIDE DEF s
    <3> QED BY <3>1
  <2> HIDE DEF s
  <2>2. index = (location \div 2^(s + PAGE)) % 2^pm.index
    BY <1>3 DEF s
  <2>3. WP!Index(pm.levels - n) = (location \div 2^(PAGE + s)) % 2^pm.index
    BY DEF WP!Index, s
  <2> HIDE DEF index
  <2> QED BY <2>1, <2>2, <2>3, Zenon
<1> HIDE DEF address, index
<1>6. \A j \in DOMAIN path : address = Tables[j] * 2^PAGE => j = n
  <2> SUFFICES ASSUME NEW j \in 1..Len(path), Tables[n] * 2^PAGE = Tables[j] * 2^PAGE
               PROVE  j = n
    BY <1>1, <1>4
  <2>1. Tables[j] \in Nat /\ Tables[n] \in Nat
    <3>1. 0 \in 0..(2^FLAGS - 1)
      <4>1. 2^FLAGS \in Nat /\ 2^FLAGS >= 8
        BY <1>1, Shifts
      <4> QED BY <4>1
    <3> QED BY <1>1, <3>1, PagesFit
  <2>2. 2^PAGE \in Nat /\ 2^PAGE >= 1
    BY <1>1, Shifts DEF PageSize
  <2> DEFINE p == 2^PAGE
             x == Tables[j]
             y == Tables[n]
  <2>3. p \in Nat /\ p >= 1 /\ x \in Nat /\ y \in Nat /\ y * p = x * p
    BY <2>1, <2>2
  <2> HIDE DEF p, x, y
  <2>4. x = y
    <3>1. p * y + 0 = p * x + 0
      BY <2>3
    <3> QED BY <2>3, <3>1, MDP!OneDivision
  <2> QED BY <1>1, <2>4 DEF x, y
<1>7. n \in DOMAIN path /\ (CHOOSE j \in DOMAIN path : address = Tables[j] * 2^PAGE) = n
  <2>1. n \in DOMAIN path
    BY <1>1
  <2> QED BY <1>4, <1>6, <2>1
<1>8. \E j \in DOMAIN path : address = Tables[j] * 2^PAGE
  BY <1>4, <1>7
<1>9. WP!Load(address, index) =
        (IF index = WP!Index(pm.levels - n)
         THEN WP!Entry(path[n].number, n = Len(path), path[n].other)
         ELSE WP!Entry(0, TRUE, FALSE))
  BY <1>7, <1>8, Zenon DEF WP!Load
<1> QED BY <1>5, <1>9 DEF address, index

\* A pass of the walk: on to the next table, or at the page with all fields to append
\* that no table has used.
LEMMA WalkStep ==
  ASSUME WP!WalkAssumption, WalkInv, WP!Walk
  PROVE  WalkInv'
<1>1. /\ WalkCalled /\ WP!Active /\ stage = "walk" /\ UNCHANGED <<pm, csr_satp, location, path>>
  BY DEF WalkInv, WP!Walk
<1>2. PICK n \in 1..Len(path) : AtTable(n)
  BY <1>1 DEF WalkInv
<1>3. /\ pm \in Machines /\ pm.levels \in Nat \ {0} /\ pm.index \in Nat \ {0}
      /\ Len(path) \in 1..pm.levels
      /\ path[n].number \in WP!PageNumbers(pm) /\ path[n].other \in BOOLEAN
      /\ n < Len(path) => path[n].number = Tables[n + 1]
  BY <1>1, CallIs
<1>4. PAGE \in Nat
  BY DEF WP!WalkAssumption
<1> DEFINE entry == WP!Entry(path[n].number, n = Len(path), path[n].other)
           left  == shift_ammount - pm.index
           table == entry % 4 = 1 /\ left >= PAGE
<1>5. /\ shift_ammount' = left
      /\ page_walk' = IF table THEN entry ELSE WP!PageAddress(entry)
      /\ stage' = IF table THEN "walk" ELSE "superpage"
  BY <1>1, <1>2, EntryRead DEF WP!Walk
<1>6. /\ \E low \in 0..(2^FLAGS - 1) : entry = path[n].number * 2^FLAGS + low
      /\ entry \in Nat /\ entry % EntrySize = entry
      /\ entry % 4 = 1 <=> ~(n = Len(path))
  <2>1. (n = Len(path)) \in BOOLEAN
    OBVIOUS
  <2> QED BY <1>3, <2>1, EntryIs
<1>7. left = (pm.levels - (n + 1)) * pm.index + PAGE
  <2>1. shift_ammount = (pm.levels - n) * pm.index + PAGE
    BY <1>2 DEF AtTable
  <2>2. /\ (pm.levels - (n + 1)) * pm.index
             = (pm.levels - n) * pm.index - pm.index
        /\ (pm.levels - n) * pm.index \in Int
    <3>1. pm.levels \in Nat /\ pm.index \in Nat /\ n \in Int
      BY <1>3
    <3> QED BY <3>1, FieldDown
  <2> HIDE DEF entry, table
  <2> QED BY <1>3, <1>4, <2>1, <2>2
<1>8. n < Len(path) => left >= PAGE
  <2> SUFFICES ASSUME n < Len(path) PROVE left >= PAGE
    OBVIOUS
  <2>1. pm.levels - (n + 1) \in Nat
    BY <1>3
  <2>2. (pm.levels - (n + 1)) * pm.index \in Nat
    BY <1>3, <2>1
  <2> HIDE DEF left
  <2> QED BY <1>4, <1>7, <2>2
<1>9. table <=> n < Len(path)
  <2> HIDE DEF entry, left
  <2> QED BY <1>3, <1>6, <1>8
<1>10. WalkCalled' /\ WP!Active'
  <2>1. WalkCalled'
    BY <1>1 DEF WalkCalled
  <2>2. WP!Active'
    BY <1>1 DEF WP!Active
  <2> QED BY <2>1, <2>2
<1> HIDE DEF entry, left, table
<1>11. CASE n < Len(path)
  <2>1. page_walk' = entry /\ stage' = "walk"
    BY <1>5, <1>9, <1>11
  <2>2. n + 1 \in 1..Len(path)
    BY <1>3, <1>11
  <2>3. EntrySize' = EntrySize /\ path' = path /\ pm' = pm
    BY <1>1 DEF EntrySize
  <2>4. \E low \in 0..(2^FLAGS - 1) :
          page_walk' % EntrySize = Tables[n + 1] * 2^FLAGS + low
    BY <1>3, <1>6, <1>11, <2>1
  <2>5. AtTable(n + 1)'
    BY <1>5, <1>6, <1>7, <2>1, <2>2, <2>3, <2>4 DEF AtTable
  <2>6. \E m \in 1..Len(path') : AtTable(m)'
    BY <2>2, <2>3, <2>5
  <2> QED BY <1>10, <2>1, <2>6 DEF WalkInv, WP!WalkRight
<1>12. CASE ~(n < Len(path))
  <2>1. n = Len(path) /\ page_walk' = WP!PageAddress(entry) /\ stage' = "superpage"
    BY <1>3, <1>5, <1>9, <1>12
  <2>2. PICK low \in 0..(2^FLAGS - 1) : entry = path[n].number * 2^FLAGS + low
    BY <1>6
  <2>3. page_walk' = path[Len(path)].number * PageSize
    BY <1>3, <2>1, <2>2, PageAddressIs
  <2>11. pm.levels - Len(path) \in Nat
    BY <1>3
  <2>12. PICK k \in Nat : k = pm.levels - Len(path)
    BY <2>11
  <2>4. k \in 0..(pm.levels - Len(path)) /\ k \in Nat /\ k - 1 = pm.levels - (n + 1)
    BY <1>3, <2>1, <2>12
  <2>5. shift_ammount' = (k - 1) * pm.index + PAGE
    BY <1>5, <1>7, <2>4
  <2>6. BitsBelow(k) \in Int /\ path[Len(path)].number * PageSize \in Nat
    <3>1. path[Len(path)].number * PageSize \in Nat
      BY <1>3, <2>1, <2>2, PagesFit
    <3>2. k \in 0..pm.levels
      BY <1>3, <2>1, <2>4, <2>12
    <3>3. BitsBelow(k) \in Nat
      BY <1>1, <3>2, BitsBelowIs
    <3> QED BY <3>1, <3>3
  <2>7. page_walk' = path[Len(path)].number * PageSize + BitsBelow(k) - BitsBelow(k)
    BY <2>3, <2>6
  <2>8. pm' = pm /\ path' = path /\ location' = location
    BY <1>1
  <2>9. AtField(k)'
    BY <2>4, <2>5, <2>7, <2>8, <2>12 DEF AtField, BitsBelow
  <2>10. (\E j \in 0..(pm.levels - Len(path)) : AtField(j))'
    <3>1. k \in 0..(pm'.levels - Len(path'))
      BY <2>4, <2>8
    <3> QED BY <2>9, <3>1, Zenon
  <2> QED BY <1>10, <2>1, <2>10 DEF WalkInv, WP!WalkRight
<1> QED BY <1>11, <1>12

\* A pass that appends a field: it is above the bits below it.
LEMMA SuperpageStep ==
  ASSUME WP!WalkAssumption, WalkInv, WP!Superpage
  PROVE  WalkInv'
<1>1. /\ WalkCalled /\ WP!Active /\ stage = "superpage" /\ stage' = "superpage"
      /\ shift_ammount >= PAGE /\ shift_ammount' = shift_ammount - pm.index
      /\ page_walk' = page_walk
           + ((location \div 2^shift_ammount) % 2^pm.index) * 2^shift_ammount
      /\ UNCHANGED <<pm, csr_satp, location, path>>
  BY DEF WalkInv, WP!Superpage
<1>2. PICK k \in 0..(pm.levels - Len(path)) : AtField(k)
  BY <1>1 DEF WalkInv
<1> DEFINE L == pm.levels - Len(path)
           x == pm.index
           j == k - 1
           e == j * x + PAGE
           top == path[Len(path)].number * PageSize
<1>3. /\ pm \in Machines /\ pm.levels \in Nat /\ x \in Nat \ {0}
      /\ Len(path) \in 1..pm.levels
      /\ PAGE \in Nat /\ location \in Nat
  BY <1>1, CallIs DEF WalkCalled, WP!WalkAssumption
<1>4. /\ shift_ammount = e
      /\ page_walk = top + BitsBelow(L) - BitsBelow(k)
  BY <1>2 DEF AtField
<1>5. k >= 1
  <2> SUFFICES ASSUME k = 0 PROVE FALSE
    BY <1>3
  <2>1. e = PAGE - x
    <3>1. (0 - 1) * x = 0 - x
      BY <1>3
    <3> QED BY <1>3, <3>1
  <2> HIDE DEF e, x, top, L
  <2> QED BY <1>1, <1>3, <1>4, <2>1
<1>6. /\ k \in 0..pm.levels /\ j \in 0..pm.levels /\ j \in 0..L /\ j + 1 = k
      /\ L \in 0..pm.levels
  BY <1>3, <1>5
<1>7. /\ BitsBelow(k) \in Nat /\ BitsBelow(j) \in Nat /\ BitsBelow(L) \in Nat
      /\ PAGE + k * x \in 0..pm.xlen /\ PAGE + j * x \in 0..pm.xlen
  BY <1>1, <1>6, BitsBelowIs
<1>8. top \in Nat
  <2>1. path[Len(path)].number \in WP!PageNumbers(pm)
    BY <1>1, <1>3, CallIs
  <2>2. 0 \in 0..(2^FLAGS - 1)
    <3>1. 2^FLAGS \in Nat /\ 2^FLAGS >= 8
      BY <1>3, Shifts
    <3> QED BY <3>1
  <2> QED BY <1>3, <2>1, <2>2, PagesFit
<1> HIDE DEF L, j, top
<1> DEFINE p == 2^e
           q == 2^x
           field == (location \div p) % q
<1>9. e \in 0..pm.xlen /\ e = PAGE + j * x /\ e + x = PAGE + k * x
  <2> DEFINE jx == j * x
             kx == k * x
  <2>1. kx = jx + x /\ jx \in Nat
    <3>1. (j + 1) * x = j * x + x /\ j * x \in Nat
      <4> HIDE DEF x
      <4> QED BY <1>3, <1>6
    <3>2. (j + 1) * x = k * x
      BY <1>6
    <3> QED BY <3>1, <3>2
  <2>2. e = jx + PAGE /\ PAGE + jx \in 0..pm.xlen
    BY <1>7
  <2> HIDE DEF e, x, jx, kx
  <2>3. e = PAGE + jx /\ e + x = PAGE + kx
    BY <1>3, <2>1, <2>2
  <2> QED BY <2>2, <2>3 DEF jx, kx
<1>10. p \in Nat /\ p >= 1 /\ q \in Nat /\ q >= 1 /\ 2^(PAGE + k * x) = p * q
  <2> DEFINE most == pm.xlen + PAGE
  <2>1. /\ \A n \in 0..most : 2^n \in Nat \ {0}
        /\ \A m \in 0..most : \A n \in 0..(most - m) : 2^(m + n) = 2^m * 2^n
        /\ pm.xlen \in Nat
    BY <1>3, MachineIs
  <2> HIDE DEF x, e
  <2>2. e \in 0..most /\ x \in 0..(most - e) /\ x \in 0..most
    BY <1>3, <1>7, <1>9, <2>1
  <2> HIDE DEF most
  <2> QED BY <1>9, <2>1, <2>2
<1> HIDE DEF e, x, p, q
<1>11. field \in Nat /\ location % (p * q) = field * p + (location % p)
  BY <1>3, <1>10, FieldAbove
<1>12. BitsBelow(k) = field * p + BitsBelow(j)
  <2>1. BitsBelow(k) = location % 2^(PAGE + k * x) /\ BitsBelow(j) = location % 2^(PAGE + j * x)
    BY DEF BitsBelow, x
  <2> HIDE DEF field
  <2> QED BY <1>9, <1>10, <1>11, <2>1 DEF p
<1>13. page_walk' = page_walk + field * p
  BY <1>1, <1>4 DEF field, p, q, x
<1> HIDE DEF field
<1>14. page_walk' = top + BitsBelow(L) - BitsBelow(j)
  <2> DEFINE u == field * p
             bk == BitsBelow(k)
             bj == BitsBelow(j)
             bl == BitsBelow(L)
  <2>1. u \in Nat /\ bk \in Nat /\ bj \in Nat /\ bl \in Nat
        /\ bk = u + bj /\ page_walk = top + bl - bk /\ page_walk' = page_walk + u
    BY <1>4, <1>7, <1>10, <1>11, <1>12, <1>13
  <2> HIDE DEF u, bk, bj, bl
  <2>2. page_walk' = top + bl - bj
    BY <1>8, <2>1
  <2> QED BY <2>2 DEF bj, bl
<1>15. shift_ammount' = (j - 1) * x + PAGE
  <2>1. (j - 1) * x = j * x - x /\ j * x \in Nat
    BY <1>3, <1>6
  <2>2. shift_ammount' = e - x
    BY <1>1, <1>4 DEF x
  <2>3. e = j * x + PAGE
    BY DEF e
  <2> QED BY <1>3, <2>1, <2>2, <2>3
<1>16. pm' = pm /\ path' = path /\ location' = location
  BY <1>1
<1>17. AtField(j)'
  <2>1. j \in 0..(pm.levels - Len(path))
    BY <1>6 DEF L
  <2> QED BY <1>14, <1>15, <1>16, <2>1 DEF AtField, BitsBelow, x, L, top
<1>18. (\E n \in 0..(pm.levels - Len(path)) : AtField(n))'
  <2>1. j \in 0..(pm'.levels - Len(path'))
    BY <1>6, <1>16 DEF L
  <2> QED BY <1>17, <2>1, Zenon
<1>19. WalkCalled' /\ WP!Active'
  <2>1. WalkCalled'
    BY <1>1 DEF WalkCalled
  <2>2. WP!Active'
    BY <1>1 DEF WP!Active
  <2> QED BY <2>1, <2>2
<1> QED BY <1>1, <1>18, <1>19 DEF WalkInv, WP!WalkRight

\* The last pass is over: what is left of the address is the offset in a page.
LEMMA OffsetStep ==
  ASSUME WP!WalkAssumption, WalkInv, WP!Offset
  PROVE  WalkInv'
<1>1. /\ WalkCalled /\ WP!Active /\ stage = "superpage" /\ stage' = "done"
      /\ shift_ammount < PAGE /\ mem_addr' = page_walk + (location % 2^PAGE)
      /\ UNCHANGED <<pm, csr_satp, location, path>>
  BY DEF WalkInv, WP!Offset
<1>2. PICK k \in 0..(pm.levels - Len(path)) : AtField(k)
  BY <1>1 DEF WalkInv
<1> DEFINE L == pm.levels - Len(path)
           x == pm.index
           top == path[Len(path)].number * PageSize
<1>3. /\ pm \in Machines /\ pm.levels \in Nat /\ x \in Nat \ {0}
      /\ Len(path) \in 1..pm.levels
      /\ PAGE \in Nat
  BY <1>1, CallIs DEF WP!WalkAssumption
<1>4. /\ shift_ammount = (k - 1) * x + PAGE
      /\ page_walk = top + BitsBelow(L) - BitsBelow(k)
  BY <1>2 DEF AtField
<1>5. k = 0
  <2> SUFFICES ASSUME k - 1 \in Nat PROVE FALSE
    BY <1>3
  <2>1. (k - 1) * x \in Nat
    BY <1>3
  <2> HIDE DEF x
  <2> QED BY <1>1, <1>3, <1>4, <2>1
<1>6. BitsBelow(k) = location % 2^PAGE /\ BitsBelow(k) \in Nat /\ BitsBelow(L) \in Nat
  <2>1. PAGE + k * pm.index = PAGE
    BY <1>3, <1>5
  <2>2. k \in 0..pm.levels /\ L \in 0..pm.levels
    BY <1>3, <1>5
  <2> HIDE DEF L
  <2> QED BY <1>1, <2>1, <2>2, BitsBelowIs DEF BitsBelow
<1>7. top \in Nat
  <2>1. path[Len(path)].number \in WP!PageNumbers(pm)
    BY <1>1, <1>3, CallIs
  <2>2. 0 \in 0..(2^FLAGS - 1)
    <3>1. 2^FLAGS \in Nat /\ 2^FLAGS >= 8
      BY <1>3, Shifts
    <3> QED BY <3>1
  <2> QED BY <1>3, <2>1, <2>2, PagesFit
<1>8. mem_addr' = top + BitsBelow(L)
  <2> DEFINE o == BitsBelow(k)
             l == BitsBelow(L)
  <2>1. o \in Nat /\ l \in Nat /\ mem_addr' = page_walk + o /\ page_walk = top + l - o
    BY <1>1, <1>4, <1>6
  <2> HIDE DEF o, l, top, L
  <2>2. mem_addr' = top + l
    BY <1>7, <2>1
  <2> QED BY <2>2 DEF l
<1>9. WalkCalled' /\ WP!Active'
  <2>1. WalkCalled'
    BY <1>1 DEF WalkCalled
  <2>2. WP!Active'
    BY <1>1 DEF WP!Active
  <2> QED BY <2>1, <2>2
<1>10. WP!WalkRight'
  BY <1>1, <1>8, <1>9 DEF WP!WalkRight, BitsBelow, PageSize
<1> QED BY <1>1, <1>9, <1>10 DEF WalkInv

\* Virtual addresses are numbers.
LEMMA CanonicalIs ==
  ASSUME WP!WalkAssumption, pm \in Machines, NEW address \in WP!Canonical(pm)
  PROVE  address \in Nat
<1> DEFINE x == pm.xlen
           bits == pm.levels * pm.index + PAGE
           half == 2^(pm.levels * pm.index + PAGE - 1)
<1>0. /\ x \in Nat /\ PAGE \in Nat
      /\ pm.levels \in Nat \ {0} /\ pm.index \in Nat \ {0}
      /\ pm.levels * pm.index + PAGE <= x
      /\ \A n \in 0..(x + PAGE) : 2^n \in Nat \ {0}
      /\ \A k \in 0..(x + PAGE) : \A n \in 0..(x + PAGE - k) : 2^(k + n) = 2^k * 2^n
  BY MachineIs
<1>1. bits \in Nat /\ bits >= 1 /\ bits <= x
  <2>1. pm.levels * pm.index \in Nat /\ pm.levels * pm.index >= 1
    <3> DEFINE L == pm.levels
               y == pm.index
    <3>1. L \in Nat /\ L >= 1 /\ y \in Nat /\ y >= 1
      BY <1>0
    <3> HIDE DEF L, y
    <3>2. 1 * y <= L * y /\ L * y \in Nat
      BY <3>1
    <3> QED BY <3>1, <3>2 DEF L, y
  <2> QED BY <1>0, <2>1
<1>2. half \in Nat /\ 2^x \in Nat /\ half <= 2^x
  <2> DEFINE n == bits - 1
             k == x - n
  <2>1. n \in 0..(x + PAGE) /\ k \in 0..(x + PAGE - n) /\ k \in 0..(x + PAGE)
        /\ x \in 0..(x + PAGE) /\ n + k = x
    <3> HIDE DEF bits, x
    <3> QED BY <1>0, <1>1 DEF x
  <2> HIDE DEF n, k
  <2>2. 2^x = 2^n * 2^k /\ 2^n \in Nat \ {0} /\ 2^k \in Nat \ {0} /\ 2^x \in Nat
    <3> HIDE DEF x
    <3> QED BY <1>0, <2>1 DEF x
  <2> DEFINE u == 2^n
             w == 2^k
  <2>3. u \in Nat /\ w \in Nat /\ w >= 1
    BY <2>2
  <2> HIDE DEF u, w
  <2>4. u * 1 <= u * w
    BY <2>3
  <2>5. pm.levels * pm.index + PAGE - 1 = n
    <3>1. pm.levels * pm.index \in Int
      BY <1>0
    <3> QED BY <1>0, <3>1 DEF n
  <2> QED BY <2>2, <2>3, <2>4, <2>5 DEF u, w
<1>3. address \in (IF bits = x THEN 0..(2 * half - 1)
                   ELSE 0..(half - 1) \cup (2^x - half)..(2^x - 1))
  BY Zenon DEF WP!Canonical
<1> HIDE DEF bits, half, x
<1>4. address \in Nat
  <2> DEFINE W2 == 2^x
  <2>1. W2 \in Nat /\ half <= W2
    BY <1>2
  <2>2. address \in (IF bits = x THEN 0..(2 * half - 1)
                     ELSE 0..(half - 1) \cup (W2 - half)..(W2 - 1))
    BY <1>3
  <2> HIDE DEF W2
  <2> QED BY <1>2, <2>1, <2>2
<1> QED BY <1>4

\* In the beginning: satp holds the root, and the way is one that the tables hold.
LEMMA WalkStarts ==
  ASSUME WP!WalkAssumption, WP!Init
  PROVE  WalkInv
<1>0. PICK m \in Machines :
        \E mode \in {0, 2^(m.mode - 1)}, asid \in Asids, address \in WP!Canonical(m),
           level \in 0..(m.levels - 1) :
          \E way \in WP!Ways(m, level) : WP!Call(m, mode, asid, address, way)
  BY DEF WP!Init
<1>1. PICK mode \in {0, 2^(m.mode - 1)}, asid \in Asids, address \in WP!Canonical(m),
           level \in 0..(m.levels - 1) :
        \E way \in WP!Ways(m, level) : WP!Call(m, mode, asid, address, way)
  BY <1>0
<1>2. PICK way \in WP!Ways(m, level) : WP!Call(m, mode, asid, address, way)
  BY <1>1
<1>3. /\ pm = m /\ location = address /\ path = way /\ stage = "entry"
      /\ csr_satp = mode * 2^(m.xlen - m.mode) + asid * 2^(m.xlen - m.reserved - FLAGS)
                      + Tables[1]
  BY <1>2 DEF WP!Call
<1>4. pm \in Machines
  BY <1>3
<1> DEFINE x == pm.xlen
           r == pm.reserved
           o == pm.mode
           v == 2^(x - r - FLAGS)
           f == 2^FLAGS
           t == Tables[1]
<1>5. /\ x \in Nat /\ r \in Nat /\ o \in Nat \ {0} /\ PAGE \in Nat /\ FLAGS \in 3..PAGE
      /\ pm.levels \in Nat \ {0} /\ pm.index \in Nat \ {0}
      /\ pm.levels * pm.index + PAGE <= x
      /\ r + FLAGS < x /\ o <= r + FLAGS
      /\ \A n \in 0..(x + PAGE) : 2^n \in Nat \ {0}
      /\ \A k \in 0..(x + PAGE) : \A n \in 0..(x + PAGE - k) : 2^(k + n) = 2^k * 2^n
  BY <1>4, MachineIs
<1>6. /\ Tables[1] \in WP!PageNumbers(pm)
      /\ \A k \in 1..pm.levels :
           Tables[k] \in WP!PageNumbers(pm) /\ Frames[k - 1] \subseteq WP!PageNumbers(pm)
      /\ asid \in Nat
  <2>1. /\ \A k \in 1..pm.levels :
             Tables[k] \in WP!PageNumbers(pm) /\ Frames[k - 1] \subseteq WP!PageNumbers(pm)
        /\ asid \in Nat
    BY <1>4 DEF WP!WalkAssumption
  <2>2. 1 \in 1..pm.levels
    BY <1>5
  <2> QED BY <2>1, <2>2
<1>7. location \in Nat
  BY <1>3, <1>4, CanonicalIs
<1>8. csr_satp \in Nat /\ csr_satp % v = t
  <2> DEFINE g == 2^(r + FLAGS - o)
             h == 2^(x - o)
  <2>1. v \in Nat /\ v >= 1 /\ g \in Nat /\ h = v * g
    <3> DEFINE n == x - r - FLAGS
               k == r + FLAGS - o
    <3>1. n \in 0..(x + PAGE) /\ k \in 0..(x + PAGE - n) /\ k \in 0..(x + PAGE) /\ n + k = x - o
      <4> HIDE DEF x, r, o
      <4> QED BY <1>5 DEF x, r, o
    <3> HIDE DEF n, k
    <3>2. 2^(n + k) = 2^n * 2^k /\ 2^n \in Nat \ {0} /\ 2^k \in Nat \ {0}
      <4> HIDE DEF x
      <4> QED BY <1>5, <3>1 DEF x
    <3> QED BY <3>1, <3>2 DEF n, k
  <2>2. t \in Nat /\ t < v
    <3>1. 0 \in 0..(2^FLAGS - 1) /\ f \in Nat /\ f >= 8 /\ EntrySize = v * f
      <4>1. 2^FLAGS \in Nat /\ 2^FLAGS >= 8
        BY <1>4, Shifts
      <4>2. EntrySize = v * f
        BY <1>4, Shifts
      <4> QED BY <4>1, <4>2
    <3>2. t \in Nat /\ t * 2^FLAGS + 0 < EntrySize
      BY <1>4, <1>6, <3>1, PagesFit
    <3> HIDE DEF v, t
    <3>3. t * f < v * f
      <4>1. t * f + 0 < v * f
        BY <3>1, <3>2
      <4> HIDE DEF f
      <4>2. t * f \in Nat
        BY <3>1, <3>2
      <4> QED BY <4>1, <4>2
    <3> HIDE DEF f
    <3> SUFFICES ASSUME v <= t PROVE FALSE
      BY <2>1, <3>2
    <3>4. v * f <= t * f
      BY <2>1, <3>1, <3>2
    <3>5. v * f \in Nat /\ t * f \in Nat
      BY <2>1, <3>1, <3>2
    <3> QED BY <3>3, <3>4, <3>5
  <2>3. mode \in Nat
    <3>1. o - 1 \in 0..(x + PAGE)
      BY <1>5
    <3>2. 2^(o - 1) \in Nat
      BY <1>5, <3>1
    <3> QED BY <1>1, <1>3, <3>2
  <2>4. csr_satp = mode * h + asid * v + t
    BY <1>3
  <2> HIDE DEF g, h, v, t
  <2> DEFINE c == mode * g + asid
  <2>5. csr_satp = v * c + t /\ c \in Nat /\ csr_satp \in Nat
    <3>1. mode * (v * g) + asid * v = v * (mode * g + asid) /\ mode * g \in Nat
      BY <1>6, <2>1, <2>3
    <3>2. c \in Nat
      BY <1>6, <3>1
    <3>3. csr_satp = v * c + t
      BY <2>1, <2>4, <3>1
    <3> HIDE DEF c
    <3>4. v * c \in Nat
      BY <2>1, <3>2
    <3> QED BY <2>2, <3>2, <3>3, <3>4
  <2> HIDE DEF c
  <2>6. ASSUME v \in Nat, c \in Int, t \in Nat, t < v, csr_satp \in Int, csr_satp = v * c + t
        PROVE  csr_satp % v = t
    BY <2>6, MDP!Division
  <2> QED BY <2>1, <2>2, <2>5, <2>6
<1>9. /\ path \in Seq([number : WP!PageNumbers(pm), other : BOOLEAN])
      /\ Len(path) \in 1..pm.levels
      /\ \A n \in 1..(Len(path) - 1) : path[n].number = Tables[n + 1]
  <2> DEFINE last == pm.levels - level
             S == [number : WP!PageNumbers(pm), other : BOOLEAN]
  <2>1. PICK frame \in Frames[level], other \in BOOLEAN :
          path = [n \in 1..last |->
                    [number |-> IF n = last THEN frame ELSE Tables[n + 1], other |-> other]]
    BY <1>2, <1>3 DEF WP!Ways
  <2>2. level \in 0..(pm.levels - 1) /\ last \in Nat /\ last \in 1..pm.levels
        /\ level + 1 \in 1..pm.levels /\ (level + 1) - 1 = level
    BY <1>1, <1>3, <1>5
  <2>3. frame \in WP!PageNumbers(pm)
    BY <1>6, <2>2
  <2> HIDE DEF last
  <2>4. \A n \in 1..last : n # last => Tables[n + 1] \in WP!PageNumbers(pm)
    <3> SUFFICES ASSUME NEW n \in 1..last, n # last
                 PROVE  Tables[n + 1] \in WP!PageNumbers(pm)
      OBVIOUS
    <3>1. n + 1 \in 1..pm.levels
      BY <1>5, <2>2
    <3> QED BY <1>6, <3>1
  <2>5. path \in [1..last -> S]
    BY <2>1, <2>3, <2>4
  <2>6. path \in Seq(S) /\ Len(path) = last
    <3> HIDE DEF S
    <3> QED BY <2>2, <2>5
  <2>7. \A n \in 1..(last - 1) : path[n].number = Tables[n + 1]
    BY <2>1, <2>2
  <2> QED BY <2>2, <2>6, <2>7
<1> QED BY <1>3, <1>4, <1>7, <1>8, <1>9 DEF WalkInv, WalkCalled, WP!WalkRight, v, t, x, r

\* Every step of the walk keeps the invariant.
LEMMA WalkSteps ==
  ASSUME WP!WalkAssumption, WalkInv, WP!Next
  PROVE  WalkInv'
BY EnterStep, EnterBareStep, WalkStep, SuperpageStep, OffsetStep DEF WP!Next

-----------------------------------------------------------------------------
(***************************************************************************)
(* Recursive functions.                                                    *)
(***************************************************************************)

\* A function whose first value is given and whose other values follow from the
\* one before.
Follows(f, N, S, first, next) ==
  f \in [1..N -> S] /\ f[1] = first /\ \A n \in 2..N : f[n] = next[n][f[n - 1]]

\* There is one.
LEMMA Recursion ==
  ASSUME NEW N \in Nat \ {0}, NEW S, NEW first \in S, NEW next \in [1..N -> [S -> S]]
  PROVE  \E f : Follows(f, N, S, first, next)
<1> USE DEF Follows
<1> DEFINE Is(f, k) == Follows(f, k, S, first, next)
           T == {k \in 1..N : ~\E f : Is(f, k)}
<1>1. SUFFICES ASSUME T # {} PROVE FALSE
  <2>1. N \in 1..N
    OBVIOUS
  <2>2. T = {} => \E f : Is(f, N)
    BY <2>1
  <2> QED BY <2>2
<1>2. PICK x \in T : \A y \in T : x <= y
  <2>1. T \in SUBSET Nat
    OBVIOUS
  <2> HIDE DEF T
  <2> QED BY <1>1, <2>1, Least
<1>3. x # 1
  <2>1. Is([n \in 1..1 |-> first], 1)
    OBVIOUS
  <2> QED BY <2>1
<1>4. x - 1 \in 1..N /\ x - 1 \notin T
  <2>1. x \in 1..N
    OBVIOUS
  <2> HIDE DEF T
  <2> QED BY <1>2, <1>3, <2>1
<1>5. PICK f : Is(f, x - 1)
  BY <1>4
<1> DEFINE g == [n \in 1..x |-> IF n = x THEN next[x][f[x - 1]] ELSE f[n]]
<1>6. x \in 1..N /\ x - 1 \in 1..(x - 1) /\ f[x - 1] \in S
  BY <1>3, <1>5
<1>7. g \in [1..x -> S]
  BY <1>5, <1>6
<1>8. g[1] = first
  BY <1>3, <1>5, <1>6
<1>9. ASSUME NEW n \in 2..x PROVE g[n] = next[n][g[n - 1]]
  <2>1. n - 1 \in 1..(x - 1) /\ n - 1 # x /\ g[n - 1] = f[n - 1]
    BY <1>6
  <2> QED BY <2>1, <1>5, <1>6
<1>10. Is(g, x)
  BY <1>7, <1>8, <1>9
<1> QED BY <1>10

-----------------------------------------------------------------------------
(***************************************************************************)
(* Cpio: archives.                                                         *)
(***************************************************************************)

\* How much of an archive an entry takes.
EntryLength(entry) == Header + CP!Padded(entry.namesize) + CP!Padded(entry.filesize)

\* An entry with sizes that a header holds.
Sized(entry) ==
  /\ entry.namesize \in Nat \ {0} /\ entry.namesize < CP!Half
  /\ entry.filesize \in Nat /\ entry.filesize < CP!Word
  /\ CP!Padded(entry.namesize) + CP!Padded(entry.filesize) < CP!Word

\* What is assumed of archives.
LEMMA ArchiveIs ==
  ASSUME CP!CpioAssumption, NEW entries \in Archives
  PROVE  /\ Len(entries) \in Nat \ {0} /\ DOMAIN entries = 1..Len(entries)
         /\ CP!Half \in Nat \ {0} /\ CP!Word \in Nat \ {0} /\ Header \in Nat \ {0}
         /\ \A n \in 1..Len(entries) : Sized(entries[n])
<1>1. CP!Half \in Nat \ {0} /\ Header \in Nat \ {0}
  BY DEF CP!CpioAssumption, CP!Half
<1> DEFINE h == CP!Half
           d == 1..Len(entries)
<1>2. CP!Word \in Nat \ {0}
  <2> HIDE DEF h
  <2>1. h \in Nat \ {0} => h * h \in Nat \ {0}
    OBVIOUS
  <2> QED BY <1>1, <2>1 DEF h, CP!Word
<1>3. Len(entries) \in Nat \ {0} /\ DOMAIN entries = d
  BY DEF CP!CpioAssumption
<1>4. \A n \in d : /\ entries[n].namesize \in 1..(CP!Half - 1)
                  /\ entries[n].filesize \in 0..(CP!Word - 1)
                  /\ CP!Padded(entries[n].namesize) + CP!Padded(entries[n].filesize) < CP!Word
  BY DEF CP!CpioAssumption
<1> HIDE DEF d
<1>5. \A n \in d : Sized(entries[n])
  BY <1>1, <1>2, <1>4 DEF Sized
<1> QED BY <1>1, <1>2, <1>3, <1>5 DEF d

\* Sizes are rounded up.
LEMMA PaddedIs ==
  ASSUME NEW size \in Nat
  PROVE  /\ CP!Padded(size) \in Nat /\ size <= CP!Padded(size) /\ CP!Padded(size) % 2 = 0
         /\ size + (size % 2) = CP!Padded(size)
BY DEF CP!Padded

\* What a word holds does not wrap around.
LEMMA WordHolds ==
  ASSUME CP!Word \in Nat \ {0}, NEW sum \in Nat, sum < CP!Word
  PROVE  sum % CP!Word = sum
<1> PICK w \in Nat \ {0} : w = CP!Word
  OBVIOUS
<1>1. sum % w = sum
  OBVIOUS
<1> QED BY <1>1

\* The code rounds sizes up as cpio does, and their sum does not wrap around.
LEMMA EvenIs ==
  ASSUME CP!Word \in Nat \ {0}, NEW entry, Sized(entry)
  PROVE  /\ CP!Even(entry.namesize) = CP!Padded(entry.namesize)
         /\ CP!Even(entry.filesize) = CP!Padded(entry.filesize)
         /\ CP!Padded(entry.namesize) \in Nat /\ CP!Padded(entry.filesize) \in Nat
         /\ (CP!Padded(entry.namesize) + CP!Padded(entry.filesize)) % CP!Word
              = CP!Padded(entry.namesize) + CP!Padded(entry.filesize)
<1>1. PICK p, q : p = CP!Padded(entry.namesize) /\ q = CP!Padded(entry.filesize)
  OBVIOUS
<1>2. entry.namesize \in Nat /\ entry.filesize \in Nat /\ p + q < CP!Word
  BY <1>1 DEF Sized
<1>3. /\ p \in Nat /\ entry.namesize + (entry.namesize % 2) = p
      /\ q \in Nat /\ entry.filesize + (entry.filesize % 2) = q
  BY <1>1, <1>2, PaddedIs
<1>4. p < CP!Word /\ q < CP!Word /\ p + q \in Nat
  BY <1>2, <1>3
<1>5. p % CP!Word = p /\ q % CP!Word = q /\ (p + q) % CP!Word = p + q
  BY <1>2, <1>3, <1>4, WordHolds
<1> QED BY <1>1, <1>3, <1>5 DEF CP!Even

\* An entry takes a number of bytes.
LEMMA EntryLengthIs ==
  ASSUME NEW entry, Sized(entry), Header \in Nat \ {0}
  PROVE  /\ EntryLength(entry) \in Nat /\ EntryLength(entry) > Header
         /\ CP!Padded(entry.namesize) \in Nat \ {0} /\ CP!Padded(entry.filesize) \in Nat
         /\ CP!Padded(entry.namesize) >= entry.namesize
         /\ CP!Padded(entry.filesize) >= entry.filesize
<1>1. entry.namesize \in Nat \ {0} /\ entry.filesize \in Nat
  BY DEF Sized
<1>2. /\ CP!Padded(entry.namesize) \in Nat \ {0} /\ CP!Padded(entry.filesize) \in Nat
      /\ CP!Padded(entry.namesize) >= entry.namesize
      /\ CP!Padded(entry.filesize) >= entry.filesize
  BY <1>1, PaddedIs
<1> QED BY <1>2 DEF EntryLength

\* Entries begin one after the other.
LEMMA StartsFollow ==
  ASSUME CP!CpioAssumption, NEW entries \in Archives
  PROVE  /\ CP!Starts(entries) \in [1..Len(entries) -> Nat]
         /\ CP!Starts(entries)[1] = 0
         /\ \A n \in 2..Len(entries) :
              CP!Starts(entries)[n] = CP!Starts(entries)[n - 1] + EntryLength(entries[n - 1])
<1>1. Len(entries) \in Nat \ {0} /\ DOMAIN entries = 1..Len(entries)
  BY DEF CP!CpioAssumption
<1> DEFINE N    == Len(entries)
           next == [n \in 1..N |-> [m \in Nat |->
                      IF n = 1 THEN 0 ELSE m + EntryLength(entries[n - 1])]]
           Value(f, n) == IF n = 1 THEN 0
                          ELSE f[n - 1] + Header + CP!Padded(entries[n - 1].namesize)
                                 + CP!Padded(entries[n - 1].filesize)
           Is(f) == f = [n \in DOMAIN entries |-> Value(f, n)]
<1>2. ASSUME NEW n \in 2..N, NEW m \in Nat
      PROVE  /\ m + EntryLength(entries[n - 1]) \in Nat
             /\ m + EntryLength(entries[n - 1]) =
                  m + Header + CP!Padded(entries[n - 1].namesize)
                    + CP!Padded(entries[n - 1].filesize)
  <2>1. n - 1 \in 1..N
    BY <1>1
  <2>2. Sized(entries[n - 1])
    BY <2>1, ArchiveIs
  <2> DEFINE e == entries[n - 1]
  <2> HIDE DEF e, N
  <2>3. Header \in Nat \ {0}
    BY DEF CP!CpioAssumption
  <2>4. /\ CP!Padded(e.namesize) \in Nat /\ CP!Padded(e.filesize) \in Nat
        /\ EntryLength(e) \in Nat
    BY <2>2, <2>3, EntryLengthIs DEF e
  <2>5. /\ m + EntryLength(e) \in Nat
        /\ m + EntryLength(e) =
             m + Header + CP!Padded(e.namesize) + CP!Padded(e.filesize)
    BY <2>3, <2>4 DEF EntryLength
  <2> QED BY <2>5 DEF e
<1>3. next \in [1..N -> [Nat -> Nat]]
  <2> SUFFICES ASSUME NEW n \in 1..N, NEW m \in Nat
               PROVE  (IF n = 1 THEN 0 ELSE m + EntryLength(entries[n - 1])) \in Nat
    OBVIOUS
  <2>1. n # 1 => n \in 2..N
    BY <1>1
  <2> QED BY <1>2, <2>1
<1>4. PICK f : f \in [1..N -> Nat] /\ f[1] = 0 /\ \A n \in 2..N : f[n] = next[n][f[n - 1]]
  <2> DEFINE S == Nat
             first == 0
  <2>1. N \in Nat \ {0} /\ first \in S /\ next \in [1..N -> [S -> S]]
    BY <1>1, <1>3
  <2>2. \E f : Follows(f, N, S, first, next)
    <3> HIDE DEF next, N, S, first
    <3> QED BY <2>1, Recursion
  <2> QED BY <2>2 DEF Follows
<1>5. ASSUME NEW n \in 2..N PROVE n - 1 \in 1..N /\ n \in 1..N /\ n # 1
  BY <1>1
<1>6. ASSUME NEW n \in 1..N PROVE f[n] = Value(f, n)
  <2>1. CASE n = 1
    BY <1>4, <2>1
  <2>2. CASE n # 1
    <3>1. n \in 2..N
      BY <1>1, <2>2
    <3>2. f[n] = f[n - 1] + EntryLength(entries[n - 1])
      BY <1>4, <1>5, <3>1
    <3>3. f[n - 1] \in Nat
      BY <1>4, <1>5, <3>1
    <3> QED BY <1>2, <2>2, <3>1, <3>2, <3>3
  <2> QED BY <2>1, <2>2
<1>7. Is(f)
  <2> HIDE DEF Value
  <2> QED BY <1>1, <1>4, <1>6
<1> DEFINE c == CHOOSE g : Is(g)
<1>8. Is(c)
  BY <1>7
<1>9. CP!Starts(entries) = c
  BY DEF CP!Starts
<1> HIDE DEF c
<1>10. \A n \in 1..N : c[n] = Value(c, n)
  <2> HIDE DEF Value
  <2> QED BY <1>1, <1>8
<1> DEFINE T == {n \in 1..N : c[n] # f[n]}
<1>11. T = {}
  <2> SUFFICES ASSUME T # {} PROVE FALSE
    OBVIOUS
  <2>1. PICK x \in T : \A y \in T : x <= y
    <3>1. T \in SUBSET Nat
      BY <1>1
    <3> HIDE DEF T
    <3> QED BY <3>1, Least
  <2>2. x # 1
    BY <1>4, <1>10
  <2>3. x - 1 \in 1..N /\ x - 1 \notin T
    BY <1>1, <2>1, <2>2
  <2>4. c[x - 1] = f[x - 1]
    BY <2>3
  <2> QED BY <1>6, <1>10, <2>1, <2>4
<1>12. c = f
  <2>1. DOMAIN c = 1..N
    <3> HIDE DEF Value
    <3> QED BY <1>1, <1>8
  <2>2. \A n \in 1..N : c[n] = f[n]
    BY <1>11
  <2> HIDE DEF T, N
  <2>3. c = [n \in 1..N |-> c[n]]
    <3> HIDE DEF Value
    <3> QED BY <1>1, <1>8, <2>1 DEF N
  <2> QED BY <1>4, <2>2, <2>3
<1> QED
  <2>1. ASSUME NEW n \in 2..N PROVE f[n] = f[n - 1] + EntryLength(entries[n - 1])
    <3>1. f[n - 1] \in Nat
      BY <1>4, <1>5
    <3> QED BY <1>4, <1>5, <3>1
  <2> QED BY <1>4, <1>9, <1>12, <2>1

\* Where an entry begins, and where the archive ends.
Begin(entries, n) ==
  IF n <= Len(entries) THEN CP!Starts(entries)[n]
  ELSE CP!Starts(entries)[Len(entries)] + EntryLength(entries[Len(entries)])

\* An entry begins where the one before it ends, and later than that one.
LEMMA EntriesFollow ==
  ASSUME CP!CpioAssumption, NEW entries \in Archives
  PROVE  /\ Begin(entries, 1) = 0
         /\ \A n \in 1..(Len(entries) + 1) : Begin(entries, n) \in Nat
         /\ \A n \in 1..Len(entries) :
              /\ Begin(entries, n) = CP!Starts(entries)[n]
              /\ Begin(entries, n + 1) = Begin(entries, n) + EntryLength(entries[n])
              /\ EntryLength(entries[n]) \in Nat
<1> DEFINE N     == Len(entries)
           start == CP!Starts(entries)
           size(n) == EntryLength(entries[n])
<1>1. N \in Nat \ {0}
  BY ArchiveIs
<1>2. \A n \in 1..N : size(n) \in Nat
  <2> TAKE n \in 1..N
  <2>1. Sized(entries[n]) /\ Header \in Nat \ {0}
    BY ArchiveIs
  <2> HIDE DEF N
  <2> QED BY <2>1, EntryLengthIs
<1>3. /\ start \in [1..N -> Nat] /\ start[1] = 0
      /\ \A n \in 2..N : start[n] = start[n - 1] + size(n - 1)
  BY StartsFollow
<1>4. \A n : Begin(entries, n) = IF n <= N THEN start[n] ELSE start[N] + size(N)
  BY DEF Begin
<1> HIDE DEF N, start, size
<1>5. Begin(entries, 1) = 0
  BY <1>1, <1>3, <1>4
<1>6. \A n \in 1..N : Begin(entries, n) = start[n]
  BY <1>1, <1>4
<1>7. ASSUME NEW n \in 1..(N + 1) PROVE Begin(entries, n) \in Nat
  <2>1. N \in 1..N /\ start[N] \in Nat /\ size(N) \in Nat
    BY <1>1, <1>2, <1>3
  <2>2. start[N] + size(N) \in Nat
    BY <2>1
  <2>3. n <= N => start[n] \in Nat
    BY <1>1, <1>3
  <2> QED BY <1>4, <2>2, <2>3
<1>8. ASSUME NEW n \in 1..N PROVE Begin(entries, n + 1) = Begin(entries, n) + size(n)
  <2>1. CASE n = N
    BY <1>1, <1>4, <2>1
  <2>2. CASE n # N
    <3>1. n + 1 \in 2..N /\ (n + 1) - 1 = n
      BY <1>1, <2>2
    <3>2. start[n + 1] = start[n] + size(n)
      BY <1>3, <3>1
    <3> QED BY <1>1, <1>6, <3>1, <3>2
  <2> QED BY <2>1, <2>2
<1> QED BY <1>2, <1>5, <1>6, <1>7, <1>8 DEF N, start, size

\* Entries begin in their order.
LEMMA EntriesAscend ==
  ASSUME CP!CpioAssumption, NEW entries \in Archives, NEW m \in 1..(Len(entries) + 1)
  PROVE  \A n \in m..(Len(entries) + 1) : Begin(entries, m) <= Begin(entries, n)
<1> DEFINE N == Len(entries)
           B(n) == Begin(entries, n)
<1>1. /\ N \in Nat
      /\ \A n \in 1..(N + 1) : B(n) \in Nat
      /\ \A n \in 1..N : B(n) <= B(n + 1)
  <2>1. N \in Nat
    BY ArchiveIs
  <2>2. \A n \in 1..(N + 1) : B(n) \in Nat
    BY EntriesFollow
  <2>3. \A n \in 1..N : /\ B(n + 1) = B(n) + EntryLength(entries[n])
                       /\ EntryLength(entries[n]) \in Nat
    BY EntriesFollow
  <2> HIDE DEF N, B
  <2> QED BY <2>1, <2>2, <2>3
<1> HIDE DEF B, N
<1>2. m \in 1..(N + 1)
  BY DEF N
<1> DEFINE T == {n \in m..(N + 1) : ~(B(m) <= B(n))}
<1>3. T = {}
  <2> SUFFICES ASSUME T # {} PROVE FALSE
    OBVIOUS
  <2>1. T \in SUBSET Nat
    BY <1>1, <1>2
  <2>2. PICK x \in T : \A y \in T : x <= y
    <3> HIDE DEF T
    <3> QED BY <2>1, Least
  <2>3. x \in m..(N + 1) /\ ~(B(m) <= B(x))
    OBVIOUS
  <2>4. x # m
    BY <1>1, <1>2, <2>3
  <2>5. x - 1 \in m..(N + 1) /\ x - 1 \notin T /\ x - 1 \in 1..N /\ (x - 1) + 1 = x
    <3> HIDE DEF T
    <3> QED BY <1>1, <1>2, <2>2, <2>3, <2>4
  <2>6. B(m) <= B(x - 1)
    BY <2>5
  <2>7. B(x - 1) <= B(x)
    <3>1. B(x - 1) <= B((x - 1) + 1)
      BY <1>1, <2>5
    <3> QED BY <2>5, <3>1
  <2>8. x - 1 \in 1..(N + 1) /\ x \in 1..(N + 1)
    BY <1>1, <1>2, <2>3, <2>5
  <2> QED BY <1>1, <1>2, <2>3, <2>6, <2>7, <2>8
<1>4. \A n \in m..(N + 1) : B(m) <= B(n)
  BY <1>3
<1> QED BY <1>4 DEF B, N

\* What lies at an address is of the entry that the address is in.
LEMMA LiesIn ==
  ASSUME CP!CpioAssumption, archive \in Archives, NEW n \in 1..Len(archive), NEW x \in Nat,
         Begin(archive, n) <= x, n < Len(archive) => x < Begin(archive, n + 1)
  PROVE  LET begin == Begin(archive, n)
             data  == begin + Header + CP!Padded(archive[n].namesize)
         IN  CP!At(x) =
               CASE x = begin -> CP!HeaderOf(archive[n].namesize, archive[n].filesize, order)
                 [] x = begin + Header -> [kind |-> "name", name |-> archive[n].name]
                 [] x >= data /\ x < data + archive[n].filesize -> CP!HeaderOf(0, 0, order)
                 [] x >= data + archive[n].filesize -> [kind |-> "erased"]
                 [] OTHER -> [kind |-> "filler"]
<1> DEFINE N     == Len(archive)
           start == CP!Starts(archive)
           In(m) == start[m] <= x /\ (m < Len(archive) => x < start[m + 1])
<1>1. N \in Nat \ {0} /\ DOMAIN archive = 1..N
  BY ArchiveIs
<1>2. \A m \in 1..N : Begin(archive, m) = start[m] /\ Begin(archive, m) \in Nat
  <2>1. \A m \in 1..N : Begin(archive, m) = start[m]
    BY EntriesFollow
  <2>2. \A m \in 1..(N + 1) : Begin(archive, m) \in Nat
    BY EntriesFollow
  <2> HIDE DEF N, start
  <2> QED BY <1>1, <2>1, <2>2
<1>3. ASSUME NEW m \in 1..N PROVE In(m) <=> m = n
  <2> DEFINE B(k) == Begin(archive, k)
  <2>1. In(m) <=> B(m) <= x /\ (m < N => x < B(m + 1))
    <3>1. m < N => m + 1 \in 1..N
      BY <1>1
    <3>2. B(m) = start[m] /\ (m < N => B(m + 1) = start[m + 1])
      BY <1>2, <3>1
    <3> HIDE DEF B, start
    <3> QED BY <3>2
  <2>2. \A j \in 1..(N + 1) : \A k \in j..(N + 1) : B(j) <= B(k)
    BY EntriesAscend
  <2>3. n \in 1..N /\ B(n) <= x /\ (n < N => x < B(n + 1))
    OBVIOUS
  <2>4. \A k \in 1..N : B(k) \in Nat
    BY <1>2
  <2> HIDE DEF In, B, N
  <2>5. CASE m < n
    <3>1. m + 1 \in 1..(N + 1) /\ n \in (m + 1)..(N + 1) /\ m < N /\ m + 1 \in 1..N
      BY <1>1, <2>3, <2>5
    <3>2. B(m + 1) <= B(n) /\ B(m + 1) \in Nat /\ B(n) \in Nat
      BY <2>2, <2>3, <2>4, <3>1
    <3> QED BY <2>1, <2>3, <2>5, <3>1, <3>2
  <2>6. CASE n < m
    <3>1. n + 1 \in 1..(N + 1) /\ m \in (n + 1)..(N + 1) /\ n < N /\ n + 1 \in 1..N
      BY <1>1, <2>3, <2>6
    <3>2. B(n + 1) <= B(m) /\ B(n + 1) \in Nat /\ B(m) \in Nat
      BY <2>2, <2>4, <3>1
    <3> QED BY <2>1, <2>3, <2>6, <3>1, <3>2
  <2> QED BY <2>1, <2>3, <2>5, <2>6
<1>4. (CHOOSE m \in DOMAIN archive : In(m)) = n
  <2> HIDE DEF In
  <2> QED BY <1>1, <1>3
<1>5. start[n] = Begin(archive, n)
  BY <1>2
<1> QED BY <1>4, <1>5 DEF CP!At

\* What the loop reads at an entry, and at the end of the archive.
LEMMA EntryReads ==
  ASSUME CP!CpioAssumption, archive \in Archives, NEW n \in 1..Len(archive)
  PROVE  /\ CP!At(Begin(archive, n)) =
              CP!HeaderOf(archive[n].namesize, archive[n].filesize, order)
         /\ CP!At(Begin(archive, n) + Header) = [kind |-> "name", name |-> archive[n].name]
<1> DEFINE begin == Begin(archive, n)
           e     == archive[n]
           data  == begin + Header + CP!Padded(e.namesize)
<1>1. /\ Sized(e) /\ Header \in Nat \ {0} /\ begin \in Nat /\ EntryLength(e) \in Nat
      /\ Begin(archive, n + 1) = begin + EntryLength(e)
  BY ArchiveIs, EntriesFollow
<1>2. EntryLength(e) > Header /\ CP!Padded(e.namesize) \in Nat \ {0} /\ e.filesize \in Nat
  <2> HIDE DEF e
  <2> QED BY <1>1, EntryLengthIs DEF Sized
<1>3. CP!At(begin) = CP!HeaderOf(e.namesize, e.filesize, order)
  <2>1. /\ begin <= begin /\ begin < Begin(archive, n + 1)
        /\ begin # begin + Header /\ ~(begin >= data)
        /\ ~(begin >= data + e.filesize)
    <3> HIDE DEF begin, e
    <3> QED BY <1>1, <1>2
  <2> HIDE DEF begin
  <2> QED BY <1>1, <2>1, LiesIn DEF begin
<1>4. CP!At(begin + Header) = [kind |-> "name", name |-> e.name]
  <2> DEFINE x == begin + Header
  <2>1. /\ x \in Nat /\ begin <= x /\ x < Begin(archive, n + 1) /\ x # begin /\ ~(x >= data)
        /\ ~(x >= data + e.filesize)
    <3> HIDE DEF begin, e
    <3> QED BY <1>1, <1>2
  <2>2. x = begin + Header
    OBVIOUS
  <2> HIDE DEF x
  <2> QED BY <2>1, <2>2, LiesIn
<1> QED BY <1>3, <1>4

\* Behind the last entry.
LEMMA EndReads ==
  ASSUME CP!CpioAssumption, archive \in Archives
  PROVE  CP!At(Begin(archive, Len(archive) + 1)) = [kind |-> "erased"]
<1> DEFINE n     == Len(archive)
           begin == Begin(archive, n)
           e     == archive[n]
           data  == begin + Header + CP!Padded(e.namesize)
           x     == Begin(archive, n + 1)
<1>0. n \in Nat \ {0} /\ n \in 1..n
  BY ArchiveIs
<1>1. /\ Sized(e) /\ Header \in Nat \ {0} /\ begin \in Nat /\ EntryLength(e) \in Nat
      /\ x = begin + EntryLength(e)
  BY <1>0, ArchiveIs, EntriesFollow
<1>2. /\ EntryLength(e) > Header /\ CP!Padded(e.namesize) \in Nat \ {0} /\ e.filesize \in Nat
      /\ CP!Padded(e.filesize) \in Nat /\ CP!Padded(e.filesize) >= e.filesize
  <2> HIDE DEF e
  <2> QED BY <1>1, EntryLengthIs DEF Sized
<1>3. /\ x \in Nat /\ begin <= x /\ x # begin /\ x # begin + Header /\ x >= data + e.filesize
      /\ ~(x >= data /\ x < data + e.filesize) /\ ~(n < Len(archive))
  <2>1. ~(n < Len(archive))
    BY <1>0
  <2> HIDE DEF begin, e, x, n
  <2> QED BY <1>1, <1>2, <2>1 DEF EntryLength
<1> HIDE DEF x
<1>4. CP!At(x) = [kind |-> "erased"]
  BY <1>0, <1>3, LiesIn
<1> QED BY <1>4 DEF x

-----------------------------------------------------------------------------
(***************************************************************************)
(* Cpio: headers, and the loop.                                            *)
(***************************************************************************)

\* Swapping the bytes of a half word twice leaves it as it was.
LEMMA SwappedTwice ==
  ASSUME CP!CpioAssumption, NEW half \in Nat, half < CP!Half
  PROVE  CP!Swap16(half) \in Nat /\ CP!Swap16(CP!Swap16(half)) = half
<1> DEFINE q == half \div CpioByte
           r == half % CpioByte
<1>1. CpioByte \in Nat \ {0, 1, 2} /\ CP!Half = CpioByte * CpioByte
  BY DEF CP!CpioAssumption, CP!Half
<1>2. q \in Int /\ r \in Nat /\ r < CpioByte /\ half = CpioByte * q + r
  BY <1>1, SMTT(30)
<1> HIDE DEF q, r
<1>3. q \in Nat
  <2> SUFFICES ASSUME q <= -1 PROVE FALSE
    BY <1>2
  <2>1. CpioByte * q <= CpioByte * (-1)
    BY <1>1, <1>2
  <2> QED BY <1>1, <1>2, <2>1
<1>4. q < CpioByte
  <2> SUFFICES ASSUME q >= CpioByte PROVE FALSE
    BY <1>1, <1>3
  <2>1. CpioByte * q >= CpioByte * CpioByte
    BY <1>1, <1>3
  <2> QED BY <1>1, <1>2, <1>3, <2>1
<1> DEFINE s == r * CpioByte + q
<1>5. CP!Swap16(half) = s
  BY DEF CP!Swap16, q, r
<1>6. s \in Nat /\ s = CpioByte * r + q
  BY <1>1, <1>2, <1>3
<1> HIDE DEF s
<1>7. s \div CpioByte = r /\ s % CpioByte = q
  BY <1>1, <1>2, <1>3, <1>4, <1>6, Division
<1>8. CP!Swap16(s) = q * CpioByte + r
  BY <1>7 DEF CP!Swap16
<1> QED BY <1>1, <1>2, <1>3, <1>5, <1>6, <1>8

\* The two half words of a size.
LEMMA HalvesOf ==
  ASSUME NEW h \in Nat \ {0}, NEW size \in Nat, size < h * h
  PROVE  \E q, r \in Nat : /\ size \div h = q /\ size % h = r
                          /\ q < h /\ r < h /\ q * h + r = size
<1>1. PICK q \in Int, r \in Nat :
        r < h /\ size = h * q + r /\ size \div h = q /\ size % h = r
  BY SMTT(30)
<1>2. q \in Nat
  <2> SUFFICES ASSUME q <= -1 PROVE FALSE
    BY <1>1
  <2>1. h * q <= h * (-1)
    BY <1>1
  <2> QED BY <1>1, <2>1
<1>3. q < h
  <2> SUFFICES ASSUME q >= h PROVE FALSE
    BY <1>2
  <2>1. h * q >= h * h
    BY <1>2
  <2> QED BY <1>1, <1>2, <2>1
<1>4. q * h + r = size
  BY <1>1, <1>2
<1> QED BY <1>1, <1>2, <1>3, <1>4

\* A header says what its entry is like, whatever the byte order.
LEMMA HeadSays ==
  ASSUME CP!CpioAssumption, order \in Orders, NEW entry, Sized(entry)
  PROVE  LET head == CP!HeaderOf(entry.namesize, entry.filesize, order)
         IN  /\ head.kind = "header" /\ head.magic \in {CP!Magic, CP!Swap16(CP!Magic)}
             /\ CP!NameSize(head) = entry.namesize /\ CP!FileSize(head) = entry.filesize
<1> DEFINE head == CP!HeaderOf(entry.namesize, entry.filesize, order)
           high == entry.filesize \div CP!Half
           low  == entry.filesize % CP!Half
<1>1. /\ CpioByte \in Nat \ {0, 1, 2} /\ order \in {"same", "other"}
      /\ CP!Half = CpioByte * CpioByte /\ CP!Half \in Nat \ {0}
  <2>1. CpioByte \in Nat \ {0, 1, 2} /\ order \in {"same", "other"}
    BY DEF CP!CpioAssumption
  <2>2. CP!Half = CpioByte * CpioByte
    BY DEF CP!Half
  <2>3. CpioByte * CpioByte \in Nat \ {0}
    BY <2>1
  <2> QED BY <2>1, <2>2, <2>3
<1>2. /\ entry.namesize \in Nat /\ entry.namesize < CP!Half
      /\ entry.filesize \in Nat /\ entry.filesize < CP!Half * CP!Half
  BY DEF Sized, CP!Word
<1>3. /\ high \in Nat /\ high < CP!Half /\ low \in Nat /\ low < CP!Half
      /\ high * CP!Half + low = entry.filesize
  BY <1>1, <1>2, HalvesOf
<1>4. /\ head.kind = "header" /\ head.magic = CP!Written(CP!Magic, order)
      /\ head.namesize = CP!Written(entry.namesize, order)
      /\ head.filesize_hi = CP!Written(high, order)
      /\ head.filesize_lw = CP!Written(low, order)
  BY DEF CP!HeaderOf
<1> HIDE DEF head, high, low
<1>5. CP!Swap16(CP!Magic) # CP!Magic
  <2> DEFINE m == CpioByte + 2
  <2>1. m = CpioByte * 1 + 2 /\ m \in Nat
    BY <1>1
  <2>2. m \div CpioByte = 1 /\ m % CpioByte = 2
    <3>1. 2 \in Nat /\ 1 \in Nat /\ CpioByte \in Nat /\ 2 < CpioByte
      BY <1>1
    <3> HIDE DEF m
    <3> QED BY <2>1, <3>1, Division
  <2>3. CP!Swap16(m) = 2 * CpioByte + 1
    <3> HIDE DEF m
    <3> QED BY <2>2 DEF CP!Swap16
  <2> QED BY <1>1, <2>3 DEF CP!Magic
<1>6. CASE order = "same"
  <2>1. \A half : CP!Written(half, order) = half
    BY <1>6 DEF CP!Written
  <2>2. \A half : CP!Fixed(head, half) = half
    BY <1>4, <2>1 DEF CP!Fixed
  <2> QED BY <1>3, <1>4, <2>1, <2>2 DEF CP!NameSize, CP!FileSize, head
<1>7. CASE order = "other"
  <2>1. \A half : CP!Written(half, order) = CP!Swap16(half)
    BY <1>7 DEF CP!Written, CP!Swap16
  <2>2. \A half : CP!Fixed(head, half) = CP!Swap16(half)
    BY <1>4, <1>5, <2>1 DEF CP!Fixed
  <2>3. \A half \in Nat : half < CP!Half => CP!Swap16(CP!Swap16(half)) = half
    BY SwappedTwice
  <2>4. CP!NameSize(head) = entry.namesize
    BY <1>2, <1>4, <2>1, <2>2, <2>3 DEF CP!NameSize
  <2>5. CP!FileSize(head) = entry.filesize
    <3>1. CP!Fixed(head, head.filesize_hi) = high /\ CP!Fixed(head, head.filesize_lw) = low
      BY <1>3, <1>4, <2>1, <2>2, <2>3
    <3> QED BY <1>3, <3>1 DEF CP!FileSize
  <2> QED BY <1>4, <2>1, <2>4, <2>5 DEF head
<1> QED BY <1>1, <1>6, <1>7

\* The loop is at an entry or at the end, and has passed neither the file nor the
\* trailer.
Passed(n) ==
  \A m \in 1..(n - 1) : archive[m].name # filename /\ archive[m].name # "TRAILER!!!"

CpioInv ==
  /\ archive \in Archives /\ order \in Orders
  /\ ptr \in Nat /\ datasize \in Nat
  /\ found = <<>> =>
       \E n \in 1..(Len(archive) + 1) : ptr + datasize = Begin(archive, n) /\ Passed(n)
  /\ CP!CpioFound

\* The search begins at the first entry.
LEMMA CpioStarts == CP!CpioAssumption /\ CP!Init => CpioInv
<1> SUFFICES ASSUME CP!CpioAssumption, CP!Init PROVE CpioInv
  OBVIOUS
<1>1. archive \in Archives /\ order \in Orders /\ ptr = 0 /\ datasize = 0 /\ found = <<>>
  BY DEF CP!Init, CP!Call
<1>2. Len(archive) \in Nat /\ Begin(archive, 1) = 0
  BY <1>1, ArchiveIs, EntriesFollow
<1> DEFINE N == Len(archive)
<1>3. 1 \in 1..(N + 1) /\ ptr + datasize = Begin(archive, 1) /\ Passed(1)
  <2>1. Passed(1)
    BY DEF Passed
  <2> HIDE DEF N
  <2> QED BY <1>1, <1>2, <2>1 DEF N
<1> QED BY <1>1, <1>3 DEF CpioInv, CP!CpioFound

\* A pass of the loop returns the file, or nothing, or goes on to the next entry.
LEMMA CpioSteps == CP!CpioAssumption /\ CpioInv /\ CP!Next => CpioInv'
<1> SUFFICES ASSUME CP!CpioAssumption, CpioInv, CP!Next PROVE CpioInv'
  OBVIOUS
<1> DEFINE N == Len(archive)
           head == CP!cpio_head
<1>1. found = <<>> /\ UNCHANGED <<archive, order, filename>>
  BY DEF CP!Next, CP!NoHeader, CP!Match, CP!Trailer, CP!NextEntry, CP!Return
<1>2. archive \in Archives /\ order \in Orders /\ ptr \in Nat /\ datasize \in Nat
  BY DEF CpioInv
<1>3. PICK n \in 1..(N + 1) : ptr + datasize = Begin(archive, n) /\ Passed(n)
  BY <1>1 DEF CpioInv
<1>4. N \in Nat \ {0} /\ DOMAIN archive = 1..N
  BY <1>2, ArchiveIs
<1> DEFINE e == archive[n]
           begin == Begin(archive, n)
<1>5. ASSUME n \in 1..N
      PROVE  /\ CP!IsHeader /\ CP!NameSize(head) = e.namesize /\ CP!FileSize(head) = e.filesize
             /\ \A name : CP!Names(name) <=> e.name = name
             /\ Sized(e) /\ begin \in Nat /\ Header \in Nat \ {0}
             /\ CP!Starts(archive)[n] = begin /\ Begin(archive, n + 1) = begin + EntryLength(e)
             /\ CP!Even(e.namesize) = CP!Padded(e.namesize) /\ CP!Padded(e.namesize) \in Nat
             /\ CP!Even(e.filesize) = CP!Padded(e.filesize) /\ CP!Padded(e.filesize) \in Nat
             /\ (CP!Padded(e.namesize) + CP!Padded(e.filesize)) % CP!Word
                  = CP!Padded(e.namesize) + CP!Padded(e.filesize)
  <2>1. /\ CP!At(begin) = CP!HeaderOf(e.namesize, e.filesize, order)
        /\ CP!At(begin + Header) = [kind |-> "name", name |-> e.name]
    BY <1>2, <1>5, EntryReads
  <2>2. /\ Sized(e) /\ begin \in Nat /\ Header \in Nat \ {0}
        /\ CP!Starts(archive)[n] = begin /\ Begin(archive, n + 1) = begin + EntryLength(e)
    BY <1>2, <1>5, ArchiveIs, EntriesFollow
  <2>3. ptr + datasize = begin
    BY <1>3
  <2>4. head = CP!HeaderOf(e.namesize, e.filesize, order)
    BY <2>1, <2>3 DEF CP!cpio_head
  <2> HIDE DEF e, begin, head
  <2>5. /\ head.kind = "header" /\ head.magic \in {CP!Magic, CP!Swap16(CP!Magic)}
        /\ CP!NameSize(head) = e.namesize /\ CP!FileSize(head) = e.filesize
    BY <1>2, <2>2, <2>4, HeadSays
  <2>6. CP!IsHeader
    BY <2>5 DEF CP!IsHeader, head
  <2>7. ASSUME NEW name PROVE CP!Names(name) <=> e.name = name
    <3>1. CP!Names(name) <=>
            [kind |-> "name", name |-> e.name] = [kind |-> "name", name |-> name]
      BY <2>1, <2>3 DEF CP!Names
    <3> QED BY <3>1
  <2>8. CP!Word \in Nat \ {0}
    BY <1>2, ArchiveIs
  <2> QED BY <2>2, <2>5, <2>6, <2>7, <2>8, EvenIs
<1>6. n = N + 1 => ~CP!IsHeader
  <2> SUFFICES ASSUME n = N + 1 PROVE ~CP!IsHeader
    OBVIOUS
  <2>1. head = [kind |-> "erased"]
    BY <1>2, <1>3, EndReads DEF CP!cpio_head
  <2> QED BY <2>1 DEF CP!IsHeader
<1>7. CP!IsHeader <=> n \in 1..N
  <2> HIDE DEF N
  <2> QED BY <1>3, <1>4, <1>5, <1>6
<1>8. \A m \in 1..N : m < n => m \notin CP!Matches
  BY <1>3, <1>4 DEF Passed, CP!Matches
<1>9. ASSUME CP!Matches = {}, found' = <<0, 0>>, UNCHANGED <<ptr, datasize>> PROVE CpioInv'
  <2>1. CP!Matches' = CP!Matches
    BY <1>1 DEF CP!Matches
  <2>2. found' # <<>>
    BY <1>9
  <2> QED BY <1>1, <1>2, <1>9, <2>1, <2>2 DEF CpioInv, CP!CpioFound
<1>10. CASE CP!NoHeader
  <2>1. n = N + 1 /\ found' = <<0, 0>> /\ UNCHANGED <<ptr, datasize>>
    <3>1. n \notin 1..N /\ found' = <<0, 0>> /\ UNCHANGED <<ptr, datasize>>
      BY <1>7, <1>10 DEF CP!NoHeader, CP!Return
    <3> HIDE DEF N
    <3> QED BY <1>3, <1>4, <3>1
  <2>2. CP!Matches = {}
    <3>1. \A m \in 1..N : m < n
      <4> HIDE DEF N
      <4> QED BY <1>4, <2>1
    <3>2. CP!Matches \subseteq 1..N
      BY <1>4 DEF CP!Matches
    <3> QED BY <1>8, <3>1, <3>2
  <2> QED BY <1>9, <2>1, <2>2
<1>11. CASE CP!Match
  <2>1. n \in 1..N
    BY <1>7, <1>11 DEF CP!Match
  <2>2. /\ e.name = filename
        /\ found' = <<ptr + datasize + Header + CP!Even(CP!NameSize(head)), CP!FileSize(head)>>
        /\ UNCHANGED <<ptr, datasize>>
    BY <1>5, <1>11, <2>1 DEF CP!Match, CP!Return
  <2>3. n \in CP!Matches
    BY <1>3, <1>4, <2>1, <2>2 DEF CP!Matches, Passed
  <2>4. \A m \in CP!Matches : n <= m
    <3>1. CP!Matches \subseteq 1..N
      BY <1>4 DEF CP!Matches
    <3>2. \A m \in 1..N : m \in CP!Matches => ~(m < n)
      BY <1>8
    <3> HIDE DEF N
    <3> QED BY <1>3, <1>4, <3>1, <3>2
  <2>5. found' = <<CP!DataStart(archive, n), e.filesize>>
    <3>1. ptr + datasize + Header + CP!Even(CP!NameSize(head)) = CP!DataStart(archive, n)
      <4>1. ptr + datasize = begin
        BY <1>3
      <4>2. CP!DataStart(archive, n) = begin + Header + CP!Padded(e.namesize)
        BY <1>5, <2>1 DEF CP!DataStart
      <4>3. CP!Even(CP!NameSize(head)) = CP!Padded(e.namesize)
        BY <1>5, <2>1
      <4> HIDE DEF begin, e, head
      <4> QED BY <1>2, <4>1, <4>2, <4>3
    <3> QED BY <1>5, <2>1, <2>2, <3>1
  <2>6. found' # <<>>
    BY <2>5
  <2>7. CP!Matches' = CP!Matches /\ CP!DataStart(archive, n)' = CP!DataStart(archive, n)
    BY <1>1 DEF CP!Matches, CP!DataStart, CP!Starts
  <2>8. CP!CpioFound'
    <3>1. found' = <<CP!DataStart(archive', n), (archive')[n].filesize>>
      BY <1>1, <2>5
    <3>2. n \in CP!Matches' /\ \A m \in CP!Matches' : n <= m
      BY <2>3, <2>4, <2>7
    <3> QED BY <3>1, <3>2 DEF CP!CpioFound
  <2> QED BY <1>1, <1>2, <2>2, <2>6, <2>8 DEF CpioInv
<1>12. CASE CP!Trailer
  <2>1. n \in 1..N
    BY <1>7, <1>12 DEF CP!Trailer
  <2>2. /\ e.name # filename /\ e.name = "TRAILER!!!"
        /\ found' = <<0, 0>> /\ UNCHANGED <<ptr, datasize>>
    BY <1>5, <1>12, <2>1 DEF CP!Trailer, CP!Return
  <2>3. ASSUME NEW m \in 1..N, m \in CP!Matches PROVE FALSE
    <3>1. archive[m].name = filename /\ \A k \in 1..(m - 1) : archive[k].name # "TRAILER!!!"
      BY <2>3 DEF CP!Matches
    <3>2. m # n /\ ~(m < n)
      BY <1>8, <2>2, <2>3, <3>1
    <3>3. n \in 1..(m - 1)
      <4> HIDE DEF N
      <4> QED BY <1>4, <2>1, <3>2
    <3> QED BY <2>2, <3>1, <3>3
  <2>4. CP!Matches = {}
    BY <1>4, <2>3 DEF CP!Matches
  <2> QED BY <1>9, <2>2, <2>4
<1>13. CASE CP!NextEntry
  <2>1. n \in 1..N
    BY <1>7, <1>13 DEF CP!NextEntry
  <2>2. /\ e.name # filename /\ e.name # "TRAILER!!!" /\ found' = found
        /\ ptr' = ptr + datasize + Header
        /\ datasize' = (CP!Even(CP!NameSize(head)) + CP!Even(CP!FileSize(head))) % CP!Word
    BY <1>5, <1>13, <2>1 DEF CP!NextEntry
  <2>3. /\ ptr' \in Nat /\ datasize' \in Nat
        /\ ptr' + datasize' = Begin(archive, n + 1)
    <3>1. /\ ptr + datasize = begin /\ Begin(archive, n + 1) = begin + EntryLength(e)
          /\ Header \in Nat
          /\ CP!Even(CP!NameSize(head)) = CP!Padded(e.namesize)
          /\ CP!Even(CP!FileSize(head)) = CP!Padded(e.filesize)
          /\ (CP!Padded(e.namesize) + CP!Padded(e.filesize)) % CP!Word
               = CP!Padded(e.namesize) + CP!Padded(e.filesize)
          /\ CP!Padded(e.namesize) \in Nat /\ CP!Padded(e.filesize) \in Nat
      BY <1>3, <1>5, <2>1
    <3> HIDE DEF begin, e, head
    <3> QED BY <1>2, <2>2, <3>1 DEF EntryLength
  <2>4. n + 1 \in 1..(N + 1) /\ Passed(n + 1)
    <3>1. \A m \in 1..((n + 1) - 1) : m = n \/ m \in 1..(n - 1)
      <4> HIDE DEF N
      <4> QED BY <1>4, <2>1
    <3>2. Passed(n + 1)
      BY <1>3, <2>2, <3>1 DEF Passed
    <3>3. n + 1 \in 1..(N + 1)
      <4> HIDE DEF N
      <4> QED BY <1>4, <2>1
    <3> QED BY <3>2, <3>3
  <2>5. Passed(n + 1)'
    BY <1>1, <2>4 DEF Passed
  <2>6. \E k \in 1..(Len(archive') + 1) : ptr' + datasize' = Begin(archive', k) /\ Passed(k)'
    <3>1. archive' = archive
      BY <1>1
    <3> QED BY <2>3, <2>4, <2>5, <3>1
  <2>7. CP!CpioFound'
    BY <1>1, <2>2 DEF CP!CpioFound
  <2> QED BY <1>1, <1>2, <2>3, <2>6, <2>7 DEF CpioInv
<1> QED BY <1>10, <1>11, <1>12, <1>13 DEF CP!Next

-----------------------------------------------------------------------------
(***************************************************************************)
(* Dtb: words.                                                             *)
(***************************************************************************)

\* Dividing with remainder, and by a product.
LEMMA Divided ==
  ASSUME NEW p \in Nat \ {0}, NEW m \in Nat
  PROVE  \E q, r \in Nat : m = p * q + r /\ r < p /\ m \div p = q /\ m % p = r
<1>1. PICK q \in Int, r \in Nat : r < p /\ m = p * q + r /\ m \div p = q /\ m % p = r
  BY SMTT(30)
<1>2. q \in Nat
  <2> SUFFICES ASSUME q <= -1 PROVE FALSE
    BY <1>1
  <2>1. p * q <= p * (-1)
    BY <1>1
  <2> QED BY <1>1, <2>1
<1> QED BY <1>1, <1>2

\* Dividing by a product is dividing by its factors, one after the other.
LEMMA DividedTwice ==
  ASSUME NEW p \in Nat \ {0}, NEW q \in Nat \ {0}, NEW m \in Nat
  PROVE  m \div (p * q) = (m \div p) \div q
<1>1. PICK x, r \in Nat : m = p * x + r /\ r < p /\ m \div p = x
  BY Divided
<1>2. PICK y, s \in Nat : x = q * y + s /\ s < q /\ x \div q = y
  BY Divided
<1> DEFINE t == p * s + r
           pq == p * q
<1>3. m = p * (q * y + s) + r
  BY <1>1, <1>2
<1>4. m = pq * y + t
  BY <1>3
<1>5. t \in Nat /\ pq \in Nat
  BY <1>1, <1>2
<1>6. t < pq
  <2>1. p * (s + 1) <= p * q
    BY <1>2
  <2>2. p * (s + 1) = p * s + p
    BY <1>2
  <2> QED BY <1>1, <1>5, <2>1, <2>2
<1> HIDE DEF t, pq
<1>7. m \div pq = y
  BY <1>2, <1>4, <1>5, <1>6, Division
<1> QED BY <1>1, <1>2, <1>7 DEF pq

\* What is below a product.
LEMMA DividedBelow ==
  ASSUME NEW p \in Nat \ {0}, NEW q \in Nat, NEW m \in Nat, m < p * q
  PROVE  m \div p < q
<1>1. PICK x, r \in Nat : m = p * x + r /\ r < p /\ m \div p = x
  BY Divided
<1>2. SUFFICES ASSUME q <= x PROVE FALSE
  BY <1>1
<1>3. p * q <= p * x
  BY <1>1, <1>2
<1> QED BY <1>1, <1>3

\* What is used of the assumptions on the constants.
LEMMA BytesAre ==
  ASSUME DT!DtbAssumption
  PROVE  /\ DtbByte \in Nat \ {0} /\ DtbByte > 9 /\ DT!Square = DtbByte * DtbByte
         /\ DT!Square \in Nat \ {0} /\ DT!Square * DtbByte \in Nat \ {0}
         /\ DT!Square > 9 /\ DT!Square * DT!Square \in Nat /\ DT!Square * DT!Square > 99
<1>1. DtbByte \in Nat \ {0} /\ DtbByte > 9
  BY DEF DT!DtbAssumption
<1>2. DT!Square = DtbByte * DtbByte
  BY DEF DT!Square
<1> DEFINE s == DtbByte * DtbByte
<1>3. s \in Nat /\ s >= 10 * 10
  <2>1. 10 * DtbByte <= DtbByte * DtbByte
    BY <1>1
  <2> QED BY <1>1, <2>1
<1> HIDE DEF s
<1>4. s * s \in Nat /\ s * s > 99
  <2>1. 100 * s <= s * s
    BY <1>3
  <2> QED BY <1>3, <2>1
<1>5. s * DtbByte \in Nat \ {0}
  <2>1. 10 * s <= DtbByte * s
    BY <1>1, <1>3
  <2> QED BY <1>1, <1>3, <2>1
<1> QED BY <1>1, <1>2, <1>3, <1>4, <1>5 DEF s

\* The bytes of a word, and back.
LEMMA WordBytes ==
  ASSUME DT!DtbAssumption, NEW n \in Nat, n < DT!Square * DT!Square
  PROVE  /\ DT!WordOf(n) \in Seq(0..(DtbByte - 1)) /\ Len(DT!WordOf(n)) = 4
         /\ DT!Word4(DT!WordOf(n)[1], DT!WordOf(n)[2], DT!WordOf(n)[3], DT!WordOf(n)[4]) = n
<1>1. /\ DtbByte \in Nat \ {0} /\ DtbByte > 9 /\ DT!Square = DtbByte * DtbByte
      /\ DT!Square \in Nat \ {0} /\ DT!Square * DtbByte \in Nat \ {0}
  BY BytesAre
<1> DEFINE B == DtbByte
           S == DT!Square
<1>2. PICK a1, r0 \in Nat : n = B * a1 + r0 /\ r0 < B /\ n \div B = a1 /\ n % B = r0
  BY <1>1, Divided
<1>3. PICK a2, r1 \in Nat : a1 = B * a2 + r1 /\ r1 < B /\ a1 \div B = a2 /\ a1 % B = r1
  BY <1>1, Divided
<1>4. PICK a3, r2 \in Nat : a2 = B * a3 + r2 /\ r2 < B /\ a2 \div B = a3 /\ a2 % B = r2
  BY <1>1, Divided
<1>5. n \div S = a2
  BY <1>1, <1>2, <1>3, DividedTwice
<1>6. n \div (S * B) = a3
  <2>1. S \in Nat \ {0} /\ B \in Nat \ {0}
    BY <1>1
  <2> HIDE DEF S, B
  <2>2. n \div (S * B) = (n \div S) \div B
    BY <2>1, DividedTwice
  <2> QED BY <1>4, <1>5, <2>2
<1>7. a3 < B
  <2>1. n < S * (B * B)
    BY <1>1
  <2>2. B * B \in Nat
    BY <1>1
  <2>3. a2 < B * B
    BY <1>1, <1>5, <2>1, <2>2, DividedBelow
  <2> QED BY <1>1, <1>4, <2>3, DividedBelow
<1>8. DT!WordOf(n) = <<a3, r2, r1, r0>>
  BY <1>2, <1>3, <1>4, <1>5, <1>6 DEF DT!WordOf
<1>9. DT!Word4(a3, r2, r1, r0) = n
  <2>1. a3 * B + r2 = a2
    BY <1>1, <1>4
  <2>2. a2 * B + r1 = a1
    BY <1>1, <1>3
  <2>3. a1 * B + r0 = n
    BY <1>1, <1>2
  <2> QED BY <2>1, <2>2, <2>3 DEF DT!Word4
<1>10. DT!WordOf(n) \in Seq(0..(DtbByte - 1)) /\ Len(DT!WordOf(n)) = 4
  <2>1. /\ a3 \in 0..(B - 1) /\ r2 \in 0..(B - 1) /\ r1 \in 0..(B - 1) /\ r0 \in 0..(B - 1)
    BY <1>1, <1>2, <1>3, <1>4, <1>7
  <2> DEFINE D == 0..(B - 1)
  <2> HIDE DEF D
  <2>2. a3 \in D /\ r2 \in D /\ r1 \in D /\ r0 \in D
    BY <2>1 DEF D
  <2>3. <<a3, r2, r1, r0>> \in Seq(D) /\ Len(<<a3, r2, r1, r0>>) = 4
    BY <2>2
  <2> QED BY <1>8, <2>3 DEF D
<1> QED BY <1>8, <1>9, <1>10

\* A number with a digit appended.
Appended(q, p, r) == q * p + r

\* A digit that is appended is the last one.
LEMMA Digit ==
  ASSUME NEW p \in Nat, NEW q \in Nat, NEW r \in Nat, r < p
  PROVE  /\ Appended(q, p, r) \in Nat
         /\ Appended(q, p, r) \div p = q /\ Appended(q, p, r) % p = r
<1> DEFINE m == q * p + r
<1>1. m \in Nat /\ m = p * q + r
  OBVIOUS
<1> HIDE DEF m
<1>2. m \div p = q /\ m % p = r
  BY <1>1, Division
<1> QED BY <1>1, <1>2 DEF Appended, m

\* The digits of a number of four.
LEMMA FourDigits ==
  ASSUME NEW B \in Nat \ {0}, NEW b3 \in Nat, NEW b2 \in Nat, NEW b1 \in Nat, NEW b0 \in Nat,
         b2 < B, b1 < B, b0 < B,
         NEW w, w = Appended(Appended(Appended(b3, B, b2), B, b1), B, b0)
  PROVE  /\ w % B = b0 /\ (w \div B) % B = b1
         /\ (w \div (B * B)) % B = b2 /\ w \div ((B * B) * B) = b3
<1>1. PICK w2 : w2 = Appended(b3, B, b2) /\ w2 \in Nat /\ w2 \div B = b3 /\ w2 % B = b2
  BY Digit
<1>2. PICK w1 : w1 = Appended(w2, B, b1) /\ w1 \in Nat /\ w1 \div B = w2 /\ w1 % B = b1
  BY <1>1, Digit
<1>3. w \in Nat /\ w \div B = w1 /\ w % B = b0
  BY <1>1, <1>2, Digit
<1>4. w \div (B * B) = w2
  <2>1. w \div (B * B) = (w \div B) \div B
    BY <1>3, DividedTwice
  <2> QED BY <1>2, <1>3, <2>1
<1>5. w \div ((B * B) * B) = b3
  <2>1. B * B \in Nat \ {0}
    OBVIOUS
  <2>2. w \div ((B * B) * B) = (w \div (B * B)) \div B
    BY <1>3, <2>1, DividedTwice
  <2> QED BY <1>1, <1>4, <2>2
<1> QED BY <1>1, <1>2, <1>3, <1>4, <1>5

\* The bytes of a word in the other order are swapped.
LEMMA SwappedWord ==
  ASSUME DT!DtbAssumption, NEW b3 \in 0..(DtbByte - 1), NEW b2 \in 0..(DtbByte - 1),
         NEW b1 \in 0..(DtbByte - 1), NEW b0 \in 0..(DtbByte - 1)
  PROVE  DT!Swap32(DT!Word4(b3, b2, b1, b0)) = DT!Word4(b0, b1, b2, b3)
<1>1. DtbByte \in Nat \ {0} /\ DT!Square = DtbByte * DtbByte
  BY BytesAre
<1>2. b3 \in Nat /\ b2 \in Nat /\ b1 \in Nat /\ b0 \in Nat
      /\ b2 < DtbByte /\ b1 < DtbByte /\ b0 < DtbByte
  BY <1>1
<1> DEFINE w == Appended(Appended(Appended(b3, DtbByte, b2), DtbByte, b1), DtbByte, b0)
<1>3. w = DT!Word4(b3, b2, b1, b0)
  BY DEF Appended, DT!Word4
<1> HIDE DEF w
<1>4. /\ w % DtbByte = b0 /\ (w \div DtbByte) % DtbByte = b1
      /\ (w \div DT!Square) % DtbByte = b2 /\ w \div (DT!Square * DtbByte) = b3
  BY <1>1, <1>2, FourDigits DEF w
<1>5. DT!Swap32(w) = DT!Word4(b0, b1, b2, b3)
  BY <1>4 DEF DT!Swap32
<1> QED BY <1>3, <1>5

\* A word is read as it was written, on either kind of machine.
LEMMA WordReads ==
  ASSUME DT!DtbAssumption, NEW n \in Nat, n < DT!Square * DT!Square, NEW o \in Nat,
         \A k \in 1..4 : DT!ByteAt(dt_struct, o + k - 1) = DT!WordOf(n)[k]
  PROVE  DT!Word(o) = n
<1> DEFINE w == DT!WordOf(n)
           D == 0..(DtbByte - 1)
<1>1. w \in Seq(D) /\ Len(w) = 4 /\ DT!Word4(w[1], w[2], w[3], w[4]) = n
  BY WordBytes
<1>2. w[1] \in D /\ w[2] \in D /\ w[3] \in D /\ w[4] \in D
  <2> HIDE DEF w, D
  <2>1. w \in Seq(D) /\ \A k \in 1..4 : k \in 1..Len(w)
    BY <1>1
  <2> QED BY <2>1, ElementOfSeq
<1>3. /\ DT!ByteAt(dt_struct, o) = w[1] /\ DT!ByteAt(dt_struct, o + 1) = w[2]
      /\ DT!ByteAt(dt_struct, o + 2) = w[3] /\ DT!ByteAt(dt_struct, o + 3) = w[4]
  <2>1. /\ o + 1 - 1 = o /\ o + 2 - 1 = o + 1 /\ o + 3 - 1 = o + 2 /\ o + 4 - 1 = o + 3
    OBVIOUS
  <2> HIDE DEF w
  <2>2. \A k \in 1..4 : DT!ByteAt(dt_struct, o + k - 1) = w[k]
    BY DEF w
  <2>3. /\ DT!ByteAt(dt_struct, o + 1 - 1) = w[1] /\ DT!ByteAt(dt_struct, o + 2 - 1) = w[2]
        /\ DT!ByteAt(dt_struct, o + 3 - 1) = w[3] /\ DT!ByteAt(dt_struct, o + 4 - 1) = w[4]
    BY <2>2
  <2> QED BY <2>1, <2>3
<1> HIDE DEF w
<1>4. DT!Swap32(DT!Word4(w[4], w[3], w[2], w[1])) = n
  BY <1>1, <1>2, SwappedWord
<1>5. DT!Load32(o) = IF magic = "little" THEN DT!Word4(w[4], w[3], w[2], w[1]) ELSE n
  BY <1>1, <1>3 DEF DT!Load32
<1> QED BY <1>4, <1>5 DEF DT!Word

-----------------------------------------------------------------------------
(***************************************************************************)
(* Dtb: the block.                                                         *)
(***************************************************************************)

\* Two sequences, one after the other.
LEMMA Joined ==
  ASSUME NEW D, NEW s \in Seq(D), NEW t \in Seq(D)
  PROVE  /\ s \o t \in Seq(D) /\ Len(s \o t) = Len(s) + Len(t)
         /\ \A k \in 1..Len(s) : (s \o t)[k] = s[k]
         /\ \A k \in 1..Len(t) : (s \o t)[Len(s) + k] = t[k]
<1>1. Len(s) \in Nat /\ Len(t) \in Nat
  BY LenProperties
<1>2. /\ s \o t \in Seq(D) /\ Len(s \o t) = Len(s) + Len(t)
      /\ \A k \in 1..(Len(s) + Len(t)) :
           (s \o t)[k] = IF k <= Len(s) THEN s[k] ELSE t[k - Len(s)]
  BY ConcatProperties
<1> DEFINE m == Len(s)
           n == Len(t)
           st == s \o t
<1>3. m \in Nat /\ n \in Nat /\ \A k \in 1..(m + n) : st[k] = IF k <= m THEN s[k] ELSE t[k - m]
  BY <1>1, <1>2
<1> HIDE DEF m, n, st
<1>4. \A k \in 1..m : st[k] = s[k]
  BY <1>3
<1>5. ASSUME NEW k \in 1..n PROVE st[m + k] = t[k]
  <2>1. m + k \in 1..(m + n) /\ ~(m + k <= m) /\ (m + k) - m = k
    BY <1>3
  <2> QED BY <1>3, <2>1
<1> QED BY <1>2, <1>4, <1>5 DEF m, n, st

\* Where each of some sequences begins in them flattened, and where the last ends.
Laid(seqs, block, off) ==
  /\ off \in [1..(Len(seqs) + 1) -> Nat]
  /\ off[1] = 0 /\ off[Len(seqs) + 1] = Len(block)
  /\ \A n \in 1..Len(seqs) :
       /\ off[n + 1] = off[n] + Len(seqs[n]) /\ off[n + 1] <= Len(block)
       /\ \A k \in 1..Len(seqs[n]) : block[off[n] + k] = seqs[n][k]

\* Flattening goes from one sequence to the next.
Flattens(f, D, N, seqs) ==
  /\ f \in [1..N -> Seq(D)] /\ f[1] = seqs[1]
  /\ \A n \in 2..N : f[n] = f[n - 1] \o seqs[n]
  /\ DT!FlattenSeq(seqs) = f[N]

\* FlattenSeq appends one sequence after the other.
LEMMA FlattenFollows ==
  ASSUME NEW D, NEW N \in Nat \ {0}, NEW seqs \in [1..N -> Seq(D)], Len(seqs) = N
  PROVE  \E f : Flattens(f, D, N, seqs)
<1> DEFINE S     == Seq(D)
           first == seqs[1]
           next  == [n \in 1..N |-> [s \in S |-> s \o seqs[n]]]
           Value(f, n) == IF n = 1 THEN seqs[n] ELSE f[n - 1] \o seqs[n]
           Is(f) == f = [n \in 1..Len(seqs) |-> Value(f, n)]
<1>1. first \in S /\ \A n \in 1..N : seqs[n] \in S
  OBVIOUS
<1>2. next \in [1..N -> [S -> S]]
  <2>1. ASSUME NEW n \in 1..N, NEW s \in S PROVE s \o seqs[n] \in S
    BY <1>1, Joined
  <2> HIDE DEF S
  <2> QED BY <2>1
<1>3. PICK f : Follows(f, N, S, first, next)
  <2> HIDE DEF S, first, next
  <2> QED BY <1>1, <1>2, Recursion
<1>4. f \in [1..N -> S] /\ f[1] = seqs[1] /\ \A n \in 2..N : f[n] = next[n][f[n - 1]]
  BY <1>3 DEF Follows
<1>5. ASSUME NEW n \in 2..N PROVE f[n - 1] \in S /\ f[n] = f[n - 1] \o seqs[n]
  <2>1. n - 1 \in 1..N /\ n \in 1..N
    OBVIOUS
  <2>2. f[n - 1] \in S
    BY <1>4, <2>1
  <2> QED BY <1>4, <2>1, <2>2
<1>6. ASSUME NEW n \in 1..N PROVE f[n] = Value(f, n)
  <2>1. n # 1 => n \in 2..N
    OBVIOUS
  <2> QED BY <1>4, <1>5, <2>1
<1>7. Is(f)
  <2> HIDE DEF Value
  <2> QED BY <1>4, <1>6
<1> DEFINE c == CHOOSE g : Is(g)
<1>8. Is(c)
  BY <1>7
<1>9. DT!FlattenSeq(seqs) = c[N]
  BY DEF DT!FlattenSeq
<1> HIDE DEF c
<1>10. \A n \in 1..N : c[n] = Value(c, n)
  <2> HIDE DEF Value
  <2> QED BY <1>8
<1> DEFINE T == {n \in 1..N : c[n] # f[n]}
<1>11. T = {}
  <2> SUFFICES ASSUME T # {} PROVE FALSE
    OBVIOUS
  <2>1. PICK x \in T : \A y \in T : x <= y
    <3>1. T \in SUBSET Nat
      OBVIOUS
    <3> HIDE DEF T
    <3> QED BY <3>1, Least
  <2>2. x # 1
    BY <1>6, <1>10
  <2>3. x - 1 \in 1..N /\ x - 1 \notin T
    BY <2>1, <2>2
  <2>4. c[x - 1] = f[x - 1]
    BY <2>3
  <2>5. x \in 1..N /\ c[x] # f[x]
    BY <2>1
  <2>6. f[x] = f[x - 1] \o seqs[x]
    BY ONLY <1>6, <2>2, <2>5
  <2>7. c[x] = c[x - 1] \o seqs[x]
    BY ONLY <1>10, <2>2, <2>5
  <2> QED BY ONLY <2>4, <2>5, <2>6, <2>7
<1>12. c[N] = f[N]
  BY <1>11
<1> QED BY <1>4, <1>5, <1>9, <1>12 DEF Flattens

\* Places behind an offset.
LEMMA PlacesInside ==
  ASSUME NEW p \in Nat, NEW l \in Nat, NEW m \in Nat, p + l <= m
  PROVE  \A j \in 1..l : p + j \in 1..m
OBVIOUS

\* Sequences flattened are laid one after the other.
LEMMA FlattenLays ==
  ASSUME NEW D, NEW N \in Nat \ {0}, NEW seqs \in [1..N -> Seq(D)], Len(seqs) = N
  PROVE  \E off : Laid(seqs, DT!FlattenSeq(seqs), off)
<1>1. PICK f : /\ f \in [1..N -> Seq(D)] /\ f[1] = seqs[1]
               /\ \A n \in 2..N : f[n] = f[n - 1] \o seqs[n]
               /\ DT!FlattenSeq(seqs) = f[N]
  <2>1. \E f : Flattens(f, D, N, seqs)
    BY FlattenFollows
  <2> QED BY <2>1 DEF Flattens
<1> DEFINE off == [n \in 1..(N + 1) |-> IF n = 1 THEN 0 ELSE Len(f[n - 1])]
<1>2. ASSUME NEW n \in 1..N
      PROVE  f[n] \in Seq(D) /\ Len(f[n]) \in Nat /\ seqs[n] \in Seq(D) /\ Len(seqs[n]) \in Nat
  <2>1. f[n] \in Seq(D) /\ seqs[n] \in Seq(D)
    BY <1>1
  <2> QED BY <2>1, LenProperties
<1>3. /\ off[1] = 0 /\ \A n \in 1..N : off[n + 1] = Len(f[n])
  OBVIOUS
<1>4. off \in [1..(N + 1) -> Nat]
  <2>1. ASSUME NEW n \in 1..(N + 1) PROVE (IF n = 1 THEN 0 ELSE Len(f[n - 1])) \in Nat
    <3>1. n # 1 => n - 1 \in 1..N
      OBVIOUS
    <3> QED BY <1>2, <3>1
  <2> QED BY <2>1
<1> HIDE DEF off
<1>5. \A n \in 1..N : off[n] \in Nat /\ off[n + 1] = off[n] + Len(seqs[n])
  <2> TAKE n \in 1..N
  <2>1. off[n] \in Nat
    BY <1>4
  <2>2. CASE n = 1
    <3>1. off[n + 1] = Len(seqs[1]) /\ off[n] = 0
      BY <1>1, <1>3, <2>2
    <3> QED BY <1>2, <2>1, <2>2, <3>1
  <2>3. CASE n # 1
    <3>1. n \in 2..N /\ n - 1 \in 1..N /\ (n - 1) + 1 = n
      BY <2>3
    <3>2. off[n] = Len(f[n - 1]) /\ off[n + 1] = Len(f[n])
      BY <1>3, <3>1
    <3>3. f[n] = f[n - 1] \o seqs[n]
      BY <1>1, <3>1
    <3>4. f[n - 1] \in Seq(D) /\ seqs[n] \in Seq(D)
      BY <1>2, <3>1
    <3>5. Len(f[n]) = Len(f[n - 1]) + Len(seqs[n])
      BY <3>3, <3>4, Joined
    <3> QED BY <2>1, <3>2, <3>5
  <2> QED BY <2>2, <2>3
<1> DEFINE In(k, n) == /\ off[n + 1] <= Len(f[k])
                       /\ \A j \in 1..Len(seqs[n]) : f[k][off[n] + j] = seqs[n][j]
           T == {k \in 1..N : ~\A n \in 1..k : In(k, n)}
<1>6. ASSUME NEW k \in 1..N PROVE In(k, k)
  <2>1. CASE k = 1
    <3>1. off[k] = 0 /\ off[k + 1] = Len(f[k]) /\ f[k] = seqs[k] /\ Len(f[k]) \in Nat
      BY <1>1, <1>2, <1>3, <2>1
    <3>2. \A j \in 1..Len(seqs[k]) : off[k] + j = j
      BY <1>2, <3>1
    <3> QED BY <3>1, <3>2
  <2>2. CASE k # 1
    <3>1. k \in 2..N /\ k - 1 \in 1..N /\ (k - 1) + 1 = k
      BY <2>2
    <3>2. off[k] = Len(f[k - 1]) /\ off[k + 1] = Len(f[k]) /\ Len(f[k]) \in Nat
      BY <1>2, <1>3, <3>1
    <3>3. f[k] = f[k - 1] \o seqs[k] /\ f[k - 1] \in Seq(D) /\ seqs[k] \in Seq(D)
      BY <1>1, <1>2, <3>1
    <3>4. \A j \in 1..Len(seqs[k]) : f[k][Len(f[k - 1]) + j] = seqs[k][j]
      BY <3>3, Joined
    <3> QED BY <3>2, <3>4
  <2> QED BY <2>1, <2>2
<1>7. T = {}
  <2> SUFFICES ASSUME T # {} PROVE FALSE
    OBVIOUS
  <2>1. T \in SUBSET Nat
    OBVIOUS
  <2>2. PICK x \in T : \A y \in T : x <= y
    <3> HIDE DEF T
    <3> QED BY <2>1, Least
  <2>3. x \in 1..N
    OBVIOUS
  <2>4. PICK n \in 1..x : ~In(x, n)
    <3> HIDE DEF In
    <3> QED OBVIOUS
  <2>5. n \in 1..N /\ n # x /\ n \in 1..(x - 1) /\ x \in 2..N /\ x - 1 \in 1..N
    <3>1. n # x
      <4> HIDE DEF In, T
      <4> QED BY <1>6, <2>3, <2>4
    <3> HIDE DEF In, T
    <3> QED BY <2>3, <2>4, <3>1
  <2>6. x - 1 \notin T
    <3> HIDE DEF T
    <3> QED BY <2>2, <2>3
  <2>7. In(x - 1, n)
    <3> HIDE DEF In
    <3> QED BY <2>5, <2>6
  <2>8. f[x] = f[x - 1] \o seqs[x] /\ f[x - 1] \in Seq(D) /\ seqs[x] \in Seq(D)
    BY <1>1, <1>2, <2>3, <2>5
  <2>9. /\ Len(f[x]) = Len(f[x - 1]) + Len(seqs[x])
        /\ \A j \in 1..Len(f[x - 1]) : f[x][j] = f[x - 1][j]
    BY <2>8, Joined
  <2>10. /\ Len(f[x - 1]) \in Nat /\ Len(seqs[x]) \in Nat /\ Len(seqs[n]) \in Nat
         /\ off[n] \in Nat /\ off[n + 1] = off[n] + Len(seqs[n])
         /\ off[n + 1] <= Len(f[x - 1])
    BY <1>2, <1>5, <2>3, <2>5, <2>7
  <2>11. \A j \in 1..Len(seqs[n]) : off[n] + j \in 1..Len(f[x - 1])
    BY <2>10, PlacesInside
  <2>12. \A j \in 1..Len(seqs[n]) : f[x][off[n] + j] = seqs[n][j]
    BY <2>7, <2>9, <2>11
  <2>13. off[n + 1] <= Len(f[x])
    BY <2>9, <2>10
  <2> QED BY <2>4, <2>12, <2>13
<1>8. \A n \in 1..N : In(N, n)
  <2>1. N \in 1..N /\ N \notin T
    <3> HIDE DEF T
    <3> QED BY <1>7
  <2> HIDE DEF In
  <2> QED BY <2>1
<1>9. off[N + 1] = Len(f[N])
  BY <1>3
<1> DEFINE block == f[N]
<1>10. \A n \in 1..N :
         /\ off[n + 1] = off[n] + Len(seqs[n]) /\ off[n + 1] <= Len(block)
         /\ \A k \in 1..Len(seqs[n]) : block[off[n] + k] = seqs[n][k]
  BY <1>5, <1>8
<1> HIDE DEF block
<1>11. Laid(seqs, block, off)
  BY <1>3, <1>4, <1>9, <1>10 DEF Laid, block
<1> QED BY <1>1, <1>11 DEF block

-----------------------------------------------------------------------------
(***************************************************************************)
(* Dtb: items.                                                             *)
(***************************************************************************)

\* The values of a byte.
ByteValues == 0..(DtbByte - 1)

\* An item that the block can hold.
ItemFits(item) ==
  /\ item.token \in Nat /\ item.token < DT!Square * DT!Square
  /\ item.bytes \in Seq(ByteValues)
  /\ item.token = DT!FDT_BEGIN_NODE => \A k \in DOMAIN item.bytes : item.bytes[k] # 0
  /\ item.token = DT!FDT_PROP =>
       Len(item.bytes) < DT!Square * DT!Square /\ item.nameoff \in 0..10

\* What is assumed of trees.
LEMMA TreeIs ==
  ASSUME DT!DtbAssumption, NEW items \in Trees
  PROVE  /\ Len(items) \in Nat \ {0} /\ DOMAIN items = 1..Len(items)
         /\ \A n \in 1..Len(items) : ItemFits(items[n])
         /\ \A m, n \in DT!InitrdItems(items) : m = n
<1>1. DT!Square * DT!Square \in Nat
  BY BytesAre
<1> DEFINE d == 1..Len(items)
<1>2. /\ Len(items) \in Nat \ {0} /\ DOMAIN items = d
      /\ \A m, n \in DT!InitrdItems(items) : m = n
  BY DEF DT!DtbAssumption
<1>3. Len(DT!strings) = 11
  BY DEF DT!strings
<1>4. \A n \in DOMAIN items :
        /\ items[n].token \in 0..(DT!Square * DT!Square - 1)
        /\ items[n].bytes \in Seq(ByteValues)
        /\ items[n].token = DT!FDT_BEGIN_NODE =>
             \A k \in DOMAIN items[n].bytes : items[n].bytes[k] # 0
        /\ items[n].token = DT!FDT_PROP =>
             /\ Len(items[n].bytes) < DT!Square * DT!Square
             /\ items[n].nameoff \in 0..(11 - 1)
  BY <1>3 DEF DT!DtbAssumption, ByteValues
<1> HIDE DEF d
<1>5. ASSUME NEW n \in d PROVE ItemFits(items[n])
  <2> DEFINE item == items[n]
  <2>1. /\ item.token \in 0..(DT!Square * DT!Square - 1)
        /\ item.bytes \in Seq(ByteValues)
        /\ item.token = DT!FDT_BEGIN_NODE => \A k \in DOMAIN item.bytes : item.bytes[k] # 0
        /\ item.token = DT!FDT_PROP =>
             Len(item.bytes) < DT!Square * DT!Square /\ item.nameoff \in 0..(11 - 1)
    BY <1>2, <1>4
  <2> HIDE DEF item
  <2>2. ItemFits(item)
    BY <1>1, <2>1 DEF ItemFits
  <2> QED BY <2>2 DEF item
<1> QED BY <1>2, <1>5 DEF d

\* How long a padding is, and its bytes.
PadLength(n) == (4 - (n % 4)) % 4

\* Padding is made of bytes, and is as long as it should be.
LEMMA PaddingIs ==
  ASSUME DT!DtbAssumption, NEW n \in Nat
  PROVE  DT!Padding(n) \in Seq(ByteValues) /\ Len(DT!Padding(n)) = PadLength(n)
<1> DEFINE m == PadLength(n)
<1>1. m \in Nat
  BY DEF PadLength
<1>2. 0 \in ByteValues
  BY BytesAre DEF ByteValues
<1> HIDE DEF m
<1>3. [k \in 1..m |-> 0] \in Seq(ByteValues) /\ Len([k \in 1..m |-> 0]) = m
  BY <1>1, <1>2
<1> QED BY <1>3 DEF DT!Padding, PadLength, m

\* A zero ends a string.
LEMMA ZeroIs ==
  ASSUME DT!DtbAssumption
  PROVE  <<0>> \in Seq(ByteValues) /\ Len(<<0>>) = 1 /\ <<0>>[1] = 0
<1>1. 0 \in ByteValues
  BY BytesAre DEF ByteValues
<1> QED BY <1>1

\* Four sequences, and five.
LEMMA FourJoined ==
  ASSUME NEW D, NEW s \in Seq(D), NEW t \in Seq(D), NEW u \in Seq(D), NEW v \in Seq(D)
  PROVE  /\ s \o t \o u \in Seq(D) /\ s \o t \o u \o v \in Seq(D)
         /\ Len(s \o t \o u \o v) = Len(s) + Len(t) + Len(u) + Len(v)
<1>1. PICK st : st = s \o t /\ st \in Seq(D) /\ Len(st) = Len(s) + Len(t)
  BY Joined
<1>2. PICK stu : stu = st \o u /\ stu \in Seq(D) /\ Len(stu) = Len(st) + Len(u)
  BY <1>1, Joined
<1>3. PICK stuv : stuv = stu \o v /\ stuv \in Seq(D) /\ Len(stuv) = Len(stu) + Len(v)
  BY <1>2, Joined
<1> QED BY <1>1, <1>2, <1>3

\* Five sequences, one after the other.
LEMMA FiveJoined ==
  ASSUME NEW D, NEW s \in Seq(D), NEW t \in Seq(D), NEW u \in Seq(D), NEW v \in Seq(D),
         NEW w \in Seq(D)
  PROVE  /\ s \o t \o u \o v \o w \in Seq(D)
         /\ Len(s \o t \o u \o v \o w) = Len(s) + Len(t) + Len(u) + Len(v) + Len(w)
<1>1. PICK stuv : stuv = s \o t \o u \o v
  OBVIOUS
<1>3. stuv \in Seq(D) /\ Len(stuv) = Len(s) + Len(t) + Len(u) + Len(v)
  <2>1. s \o t \o u \o v \in Seq(D)
    BY FourJoined, Zenon
  <2>2. Len(s \o t \o u \o v) = Len(s) + Len(t) + Len(u) + Len(v)
    BY FourJoined
  <2> QED BY <1>1, <2>1, <2>2
<1>2. PICK all : all = stuv \o w /\ all \in Seq(D) /\ Len(all) = Len(stuv) + Len(w)
  BY <1>3, Joined
<1> QED BY <1>1, <1>3, <1>2

\* The parts of an item, by its token.
LEMMA PartsOf ==
  ASSUME NEW item
  PROVE  /\ item.token = DT!FDT_BEGIN_NODE =>
              DT!Spelled(item) =
                DT!WordOf(item.token) \o item.bytes \o <<0>> \o DT!Padding(Len(item.bytes) + 1)
         /\ item.token = DT!FDT_PROP =>
              DT!Spelled(item) =
                DT!WordOf(item.token) \o DT!WordOf(Len(item.bytes)) \o DT!WordOf(item.nameoff)
                  \o item.bytes \o DT!Padding(Len(item.bytes))
         /\ item.token \notin {DT!FDT_BEGIN_NODE, DT!FDT_PROP} =>
              DT!Spelled(item) = DT!WordOf(item.token)
<1>1. DT!FDT_BEGIN_NODE # DT!FDT_PROP
  BY DEF DT!FDT_BEGIN_NODE, DT!FDT_PROP
<1>2. CASE item.token = DT!FDT_BEGIN_NODE
  BY <1>1, <1>2, Zenon DEF DT!Spelled
<1>3. CASE item.token = DT!FDT_PROP
  BY <1>1, <1>3, Zenon DEF DT!Spelled
<1>4. CASE item.token \notin {DT!FDT_BEGIN_NODE, DT!FDT_PROP}
  BY <1>1, <1>4, Zenon DEF DT!Spelled
<1> QED BY <1>2, <1>3, <1>4

\* The parts are sequences of bytes.
LEMMA PartsAre ==
  ASSUME DT!DtbAssumption, NEW item, ItemFits(item)
  PROVE  LET L == Len(item.bytes)
         IN  /\ DT!WordOf(item.token) \in Seq(ByteValues) /\ Len(DT!WordOf(item.token)) = 4
             /\ item.bytes \in Seq(ByteValues) /\ L \in Nat
             /\ \A n \in Nat : /\ DT!Padding(n) \in Seq(ByteValues)
                               /\ Len(DT!Padding(n)) = PadLength(n)
             /\ item.token = DT!FDT_PROP =>
                  /\ L < DT!Square * DT!Square
                  /\ item.nameoff \in Nat /\ item.nameoff < DT!Square * DT!Square
                  /\ DT!WordOf(L) \in Seq(ByteValues) /\ Len(DT!WordOf(L)) = 4
                  /\ DT!WordOf(item.nameoff) \in Seq(ByteValues)
                  /\ Len(DT!WordOf(item.nameoff)) = 4
<1>1. DT!WordOf(item.token) \in Seq(ByteValues) /\ Len(DT!WordOf(item.token)) = 4
  BY WordBytes DEF ItemFits, ByteValues
<1>2. PICK L \in Nat : L = Len(item.bytes) /\ item.bytes \in Seq(ByteValues)
  BY LenProperties DEF ItemFits
<1>3. ASSUME item.token = DT!FDT_PROP
      PROVE  /\ L < DT!Square * DT!Square
             /\ item.nameoff \in Nat /\ item.nameoff < DT!Square * DT!Square
             /\ DT!WordOf(L) \in Seq(ByteValues) /\ Len(DT!WordOf(L)) = 4
             /\ DT!WordOf(item.nameoff) \in Seq(ByteValues)
             /\ Len(DT!WordOf(item.nameoff)) = 4
  <2>1. L < DT!Square * DT!Square /\ item.nameoff \in 0..10
    BY <1>2, <1>3 DEF ItemFits
  <2>2. DT!Square * DT!Square \in Nat /\ DT!Square * DT!Square > 99
    BY BytesAre
  <2>3. item.nameoff \in Nat /\ item.nameoff < DT!Square * DT!Square
    BY <2>1, <2>2
  <2> QED BY <2>1, <2>3, WordBytes DEF ByteValues
<1> QED BY <1>1, <1>2, <1>3, PaddingIs

\* An item is spelled in bytes.
LEMMA SpelledInBytes ==
  ASSUME DT!DtbAssumption, NEW item, ItemFits(item)
  PROVE  DT!Spelled(item) \in Seq(ByteValues) /\ Len(DT!Spelled(item)) \in Nat
<1>1. DT!Spelled(item) \in Seq(ByteValues)
  <2>1. CASE item.token = DT!FDT_BEGIN_NODE
    <3>1. Len(item.bytes) + 1 \in Nat
      BY PartsAre
    <3>2. DT!Padding(Len(item.bytes) + 1) \in Seq(ByteValues) /\ <<0>> \in Seq(ByteValues)
      BY <3>1, PaddingIs, ZeroIs
    <3>3. DT!WordOf(item.token) \in Seq(ByteValues) /\ item.bytes \in Seq(ByteValues)
      BY PartsAre
    <3>4. DT!WordOf(item.token) \o item.bytes \o <<0>> \o DT!Padding(Len(item.bytes) + 1)
            \in Seq(ByteValues)
      BY <3>2, <3>3, FourJoined, Zenon
    <3> QED BY <2>1, <3>4, PartsOf, Zenon
  <2>2. CASE item.token = DT!FDT_PROP
    <3>1. DT!Padding(Len(item.bytes)) \in Seq(ByteValues)
      BY PartsAre
    <3>2. /\ DT!WordOf(item.token) \in Seq(ByteValues) /\ item.bytes \in Seq(ByteValues)
          /\ DT!WordOf(Len(item.bytes)) \in Seq(ByteValues)
          /\ DT!WordOf(item.nameoff) \in Seq(ByteValues)
      BY <2>2, PartsAre
    <3>3. DT!WordOf(item.token) \o DT!WordOf(Len(item.bytes)) \o DT!WordOf(item.nameoff)
            \o item.bytes \o DT!Padding(Len(item.bytes)) \in Seq(ByteValues)
      BY <3>1, <3>2, FiveJoined, Zenon
    <3> QED BY <2>2, <3>3, PartsOf, Zenon
  <2>3. CASE item.token \notin {DT!FDT_BEGIN_NODE, DT!FDT_PROP}
    BY <2>3, PartsOf, PartsAre
  <2> QED BY <2>1, <2>2, <2>3
<1> QED BY <1>1, LenProperties

\* The items of a tree, spelled.
Spellings(items) == [n \in DOMAIN items |-> DT!Spelled(items[n])]

\* The items lie in the block one after the other.
LEMMA TreeLies ==
  ASSUME DT!DtbAssumption, NEW items \in Trees
  PROVE  /\ \E off : Laid(Spellings(items), DT!FlattenSeq(Spellings(items)), off)
         /\ Len(Spellings(items)) = Len(items)
         /\ \A n \in 1..Len(items) : Spellings(items)[n] = DT!Spelled(items[n])
<1> DEFINE N    == Len(items)
           seqs == Spellings(items)
<1>1. N \in Nat \ {0} /\ DOMAIN items = 1..N /\ \A n \in 1..N : ItemFits(items[n])
  BY TreeIs
<1>2. seqs = [n \in 1..N |-> DT!Spelled(items[n])]
  BY <1>1 DEF Spellings
<1>3. \A n \in 1..N : DT!Spelled(items[n]) \in Seq(ByteValues)
  BY <1>1, SpelledInBytes
<1> HIDE DEF N, seqs
<1>4. seqs \in [1..N -> Seq(ByteValues)] /\ Len(seqs) = N
  BY <1>1, <1>2, <1>3
<1>5. \E off : Laid(seqs, DT!FlattenSeq(seqs), off)
  BY <1>1, <1>4, FlattenLays
<1> QED BY <1>2, <1>4, <1>5 DEF N, seqs

-----------------------------------------------------------------------------
(***************************************************************************)
(* Dtb: reading items.                                                     *)
(***************************************************************************)

\* What the bytes from an offset on are.
Reads(o, s) == \A k \in 1..Len(s) : DT!ByteAt(dt_struct, o + k - 1) = s[k]

\* The parts of what is read.
LEMMA PartsRead ==
  ASSUME NEW D, NEW s \in Seq(D), NEW t \in Seq(D), NEW o \in Nat, Reads(o, s \o t)
  PROVE  Reads(o, s) /\ Reads(o + Len(s), t)
<1> DEFINE m == Len(s)
           n == Len(t)
           st == s \o t
<1>1. m \in Nat /\ n \in Nat
  BY LenProperties
<1>2. /\ Len(st) = m + n /\ \A k \in 1..m : st[k] = s[k]
      /\ \A k \in 1..n : st[m + k] = t[k]
  BY Joined
<1>3. \A k \in 1..(m + n) : DT!ByteAt(dt_struct, o + k - 1) = st[k]
  BY <1>2 DEF Reads
<1> HIDE DEF m, n, st
<1>4. ASSUME NEW k \in 1..m PROVE DT!ByteAt(dt_struct, o + k - 1) = s[k]
  <2>1. k \in 1..(m + n)
    BY <1>1
  <2> QED BY <1>2, <1>3, <2>1
<1>5. ASSUME NEW k \in 1..n PROVE DT!ByteAt(dt_struct, (o + m) + k - 1) = t[k]
  <2>1. m + k \in 1..(m + n) /\ o + (m + k) - 1 = (o + m) + k - 1
    BY <1>1
  <2>2. DT!ByteAt(dt_struct, o + (m + k) - 1) = st[m + k]
    BY <1>2, <1>3, <2>1
  <2> QED BY <1>2, <2>1, <2>2
<1> QED BY <1>4, <1>5 DEF Reads, m, n

\* Places before an end.
LEMMA PlaceInside ==
  ASSUME NEW o \in Nat, NEW l \in Nat, NEW most \in Nat, o + l <= most, NEW k \in 1..l
  PROVE  o + k - 1 < most /\ (o + k - 1) + 1 = o + k
OBVIOUS

\* An item is read where it lies.
LEMMA ItemReads ==
  ASSUME NEW seqs, NEW N \in Nat, Len(seqs) = N, NEW off, Laid(seqs, dt_struct, off),
         NEW n \in 1..N, Len(seqs[n]) \in Nat, Len(dt_struct) \in Nat
  PROVE  /\ off[n] \in Nat /\ off[n + 1] = off[n] + Len(seqs[n]) /\ off[n + 1] \in Nat
         /\ off[n + 1] <= Len(dt_struct) /\ Reads(off[n], seqs[n])
<1>1. /\ off \in [1..(N + 1) -> Nat] /\ off[n + 1] = off[n] + Len(seqs[n])
      /\ off[n + 1] <= Len(dt_struct)
      /\ \A k \in 1..Len(seqs[n]) : dt_struct[off[n] + k] = seqs[n][k]
  BY DEF Laid
<1>2. off[n] \in Nat /\ off[n + 1] \in Nat
  BY <1>1
<1>4. ASSUME NEW k \in 1..Len(seqs[n])
      PROVE  DT!ByteAt(dt_struct, off[n] + k - 1) = seqs[n][k]
  <2>1. off[n] + Len(seqs[n]) <= Len(dt_struct)
    BY <1>1
  <2>2. off[n] + k - 1 < Len(dt_struct) /\ (off[n] + k - 1) + 1 = off[n] + k
    BY <1>2, <2>1, PlaceInside
  <2> QED BY <1>1, <2>2 DEF DT!ByteAt
<1> QED BY <1>1, <1>2, <1>4 DEF Reads

\* A word is read.
LEMMA WordIsRead ==
  ASSUME DT!DtbAssumption, NEW n \in Nat, n < DT!Square * DT!Square, NEW o \in Nat,
         Reads(o, DT!WordOf(n))
  PROVE  DT!Word(o) = n
<1>1. Len(DT!WordOf(n)) = 4
  BY WordBytes
<1> QED BY <1>1, WordReads DEF Reads

\* Rounded up.
LEMMA AlignedIs ==
  ASSUME NEW o \in Nat, o % 4 = 0, NEW l \in Nat
  PROVE  /\ DT!Aligned(o + l) = o + l + PadLength(l) /\ DT!Aligned(o + l) % 4 = 0
         /\ (o + 4) % 4 = 0
<1>1. PICK p, r \in Nat : l = 4 * p + r /\ r < 4 /\ l % 4 = r
  BY Divided
<1>2. PICK q \in Nat : o = 4 * q
  <2>1. PICK q, z \in Nat : o = 4 * q + z /\ o % 4 = z
    BY Divided
  <2> QED BY <2>1
<1>3. (o + l) % 4 = r
  <2>1. o + l = 4 * (p + q) + r /\ p + q \in Nat /\ o + l \in Nat
    BY <1>1, <1>2
  <2> QED BY <1>1, <2>1
<1>4. (4 - r) % 4 = IF r = 0 THEN 0 ELSE 4 - r
  <2>1. r \in {0, 1, 2, 3}
    BY <1>1
  <2> QED BY <2>1
<1>5. DT!Aligned(o + l) = IF r = 0 THEN 4 * (p + q) ELSE 4 * (p + q + 1)
  BY <1>1, <1>2, <1>3 DEF DT!Aligned
<1>6. o + l + PadLength(l) = IF r = 0 THEN 4 * (p + q) ELSE 4 * (p + q + 1)
  <2>1. PadLength(l) = IF r = 0 THEN 0 ELSE 4 - r
    BY <1>1, <1>4 DEF PadLength
  <2> QED BY <1>1, <1>2, <2>1
<1> QED BY <1>1, <1>2, <1>5, <1>6

\* The parts of four sequences, and of five.
LEMMA FourRead ==
  ASSUME NEW D, NEW s \in Seq(D), NEW t \in Seq(D), NEW u \in Seq(D), NEW v \in Seq(D),
         NEW o \in Nat, Reads(o, s \o t \o u \o v)
  PROVE  Reads(o, s) /\ Reads(o + Len(s), t) /\ Reads(o + (Len(s) + Len(t)), u)
<1>1. PICK st : st = s \o t /\ st \in Seq(D) /\ Len(st) = Len(s) + Len(t)
  BY Joined
<1>2. PICK stu : stu = st \o u /\ stu \in Seq(D)
  BY <1>1, Joined
<1>3. Reads(o, stu \o v)
  BY <1>1, <1>2
<1>4. Reads(o, stu)
  BY <1>2, <1>3, PartsRead
<1>5. Reads(o, st) /\ Reads(o + Len(st), u)
  BY <1>1, <1>2, <1>4, PartsRead
<1>6. Reads(o, s) /\ Reads(o + Len(s), t)
  BY <1>1, <1>5, PartsRead
<1> QED BY <1>1, <1>5, <1>6

\* The parts of five sequences.
LEMMA FiveRead ==
  ASSUME NEW D, NEW s \in Seq(D), NEW t \in Seq(D), NEW u \in Seq(D), NEW v \in Seq(D),
         NEW w \in Seq(D), NEW o \in Nat, Reads(o, s \o t \o u \o v \o w)
  PROVE  /\ Reads(o, s) /\ Reads(o + Len(s), t) /\ Reads(o + (Len(s) + Len(t)), u)
         /\ Reads(o + (Len(s) + Len(t) + Len(u)), v)
<1>1. PICK st : st = s \o t /\ st \in Seq(D) /\ Len(st) = Len(s) + Len(t)
  BY Joined
<1>2. PICK stu : stu = st \o u /\ stu \in Seq(D) /\ Len(stu) = Len(st) + Len(u)
  BY <1>1, Joined
<1>3. PICK stuv : stuv = stu \o v /\ stuv \in Seq(D)
  BY <1>2, Joined
<1>4. Reads(o, stuv \o w)
  BY <1>1, <1>2, <1>3
<1>5. Reads(o, stuv)
  BY <1>3, <1>4, PartsRead
<1>6. Reads(o, stu) /\ Reads(o + Len(stu), v)
  BY <1>2, <1>3, <1>5, PartsRead
<1>7. Reads(o, st) /\ Reads(o + Len(st), u)
  BY <1>1, <1>2, <1>6, PartsRead
<1>8. Reads(o, s) /\ Reads(o + Len(s), t)
  BY <1>1, <1>7, PartsRead
<1> QED BY <1>1, <1>2, <1>6, <1>7, <1>8

\* The length of a string is the place of its zero.
LEMMA StringEnds ==
  ASSUME NEW block, NEW o \in Nat, Len(block) \in Nat, NEW n \in 0..Len(block),
         DT!ByteAt(block, o + n) = 0, \A m \in 0..(n - 1) : DT!ByteAt(block, o + m) # 0
  PROVE  DT!strlen(block, o) = n
<1> DEFINE Ends(k) == /\ DT!ByteAt(block, o + k) = 0
                      /\ \A m \in 0..(k - 1) : DT!ByteAt(block, o + m) # 0
<1>1. Ends(n)
  OBVIOUS
<1>2. ASSUME NEW k \in 0..Len(block), Ends(k) PROVE k = n
  <2>1. ~(k < n)
    BY <1>2
  <2>2. ~(n < k)
    BY <1>2
  <2> QED BY <2>1, <2>2
<1> HIDE DEF Ends
<1>3. (CHOOSE k \in 0..Len(block) : Ends(k)) = n
  BY <1>1, <1>2
<1> QED BY <1>3 DEF DT!strlen, Ends

\* What the walk reads of a node.
LEMMA NodeReads ==
  ASSUME DT!DtbAssumption, NEW item, ItemFits(item), item.token = DT!FDT_BEGIN_NODE,
         NEW o \in Nat, o % 4 = 0, Reads(o, DT!Spelled(item)),
         Len(dt_struct) \in Nat, o + Len(DT!Spelled(item)) <= Len(dt_struct)
  PROVE  /\ DT!Word(o) = item.token
         /\ DT!Aligned(o + 4 + DT!strlen(dt_struct, o + 4) + 1) = o + Len(DT!Spelled(item))
         /\ (o + Len(DT!Spelled(item))) % 4 = 0 /\ Len(DT!Spelled(item)) > 0
<1>1. PICK L \in Nat : L = Len(item.bytes)
  BY PartsAre
<1>2. PICK word : word = DT!WordOf(item.token) /\ word \in Seq(ByteValues) /\ Len(word) = 4
  BY PartsAre
<1>3. PICK bytes : bytes = item.bytes /\ bytes \in Seq(ByteValues) /\ Len(bytes) = L
  BY <1>1, PartsAre
<1>4. PICK pad : /\ pad = DT!Padding(L + 1) /\ pad \in Seq(ByteValues)
                 /\ Len(pad) = PadLength(L + 1)
  <2>1. L + 1 \in Nat
    OBVIOUS
  <2> QED BY <2>1, PaddingIs
<1>5. PICK zero : zero = <<0>> /\ zero \in Seq(ByteValues) /\ Len(zero) = 1 /\ zero[1] = 0
  BY ZeroIs
<1>6. DT!Spelled(item) = word \o bytes \o zero \o pad
  BY <1>1, <1>2, <1>3, <1>4, <1>5, PartsOf
<1>7. Len(DT!Spelled(item)) = 4 + L + 1 + PadLength(L + 1)
  <2>1. /\ word \in Seq(ByteValues) /\ bytes \in Seq(ByteValues)
        /\ zero \in Seq(ByteValues) /\ pad \in Seq(ByteValues)
    BY <1>2, <1>3, <1>4, <1>5
  <2>2. Len(word \o bytes \o zero \o pad) = Len(word) + Len(bytes) + Len(zero) + Len(pad)
    BY <2>1, FourJoined
  <2> QED BY <1>2, <1>3, <1>4, <1>5, <1>6, <2>2
<1>8. Reads(o, word) /\ Reads(o + 4, bytes) /\ Reads(o + (4 + L), zero)
  <2>1. /\ word \in Seq(ByteValues) /\ bytes \in Seq(ByteValues)
        /\ zero \in Seq(ByteValues) /\ pad \in Seq(ByteValues)
    BY <1>2, <1>3, <1>4, <1>5
  <2>2. Reads(o, word \o bytes \o zero \o pad)
    BY <1>6
  <2>3. /\ Reads(o, word) /\ Reads(o + Len(word), bytes)
        /\ Reads(o + (Len(word) + Len(bytes)), zero)
    BY <2>1, <2>2, FourRead, Zenon
  <2> QED BY <1>2, <1>3, <2>3
<1>9. DT!Word(o) = item.token
  BY <1>2, <1>8, WordIsRead DEF ItemFits
<1>10. PadLength(L + 1) \in Nat
  BY DEF PadLength
<1>11. DT!strlen(dt_struct, o + 4) = L
  <2>1. DT!ByteAt(dt_struct, (o + 4) + L) = 0
    <3>1. DT!ByteAt(dt_struct, o + (4 + L) + 1 - 1) = zero[1]
      BY <1>5, <1>8 DEF Reads
    <3>2. o + (4 + L) + 1 - 1 = (o + 4) + L
      OBVIOUS
    <3> QED BY <1>5, <3>1, <3>2
  <2>2. ASSUME NEW m \in 0..(L - 1) PROVE DT!ByteAt(dt_struct, (o + 4) + m) # 0
    <3>1. m + 1 \in 1..L /\ (o + 4) + (m + 1) - 1 = (o + 4) + m
      OBVIOUS
    <3>2. DT!ByteAt(dt_struct, (o + 4) + (m + 1) - 1) = bytes[m + 1]
      BY <1>3, <1>8, <3>1 DEF Reads
    <3>3. DOMAIN bytes = 1..L
      BY <1>3, LenProperties
    <3>4. bytes[m + 1] # 0
      BY <1>3, <3>1, <3>3 DEF ItemFits
    <3> QED BY <3>1, <3>2, <3>4
  <2>3. o + 4 \in Nat /\ L \in 0..Len(dt_struct)
    BY <1>7, <1>10
  <2> QED BY <2>1, <2>2, <2>3, StringEnds
<1>12. /\ DT!Aligned((o + 4) + (L + 1)) = (o + 4) + (L + 1) + PadLength(L + 1)
       /\ DT!Aligned((o + 4) + (L + 1)) % 4 = 0
  <2>1. o + 4 \in Nat /\ (o + 4) % 4 = 0 /\ L + 1 \in Nat
    BY AlignedIs
  <2> QED BY <2>1, AlignedIs
<1>13. o + 4 + L + 1 = (o + 4) + (L + 1)
  OBVIOUS
<1>14. (o + 4) + (L + 1) + PadLength(L + 1) = o + (4 + L + 1 + PadLength(L + 1))
  BY <1>10
<1>15. Len(DT!Spelled(item)) > 0
  BY <1>7, <1>10
<1> QED BY <1>7, <1>9, <1>11, <1>12, <1>13, <1>14, <1>15

\* What the walk reads of a property.
LEMMA PropReads ==
  ASSUME DT!DtbAssumption, NEW item, ItemFits(item), item.token = DT!FDT_PROP,
         NEW o \in Nat, o % 4 = 0, Reads(o, DT!Spelled(item))
  PROVE  /\ DT!Word(o) = item.token
         /\ DT!Word(o + 4) = Len(item.bytes) /\ DT!Word(o + 8) = item.nameoff
         /\ DT!Bytes(dt_struct, o + 12, Len(item.bytes)) = item.bytes
         /\ DT!Aligned(o + 12 + Len(item.bytes)) = o + Len(DT!Spelled(item))
         /\ (o + Len(DT!Spelled(item))) % 4 = 0 /\ Len(DT!Spelled(item)) > 0
<1>1. PICK L \in Nat : L = Len(item.bytes) /\ L < DT!Square * DT!Square
  BY PartsAre
<1>2. PICK word : word = DT!WordOf(item.token) /\ word \in Seq(ByteValues) /\ Len(word) = 4
  BY PartsAre
<1>3. PICK bytes : bytes = item.bytes /\ bytes \in Seq(ByteValues) /\ Len(bytes) = L
  BY <1>1, PartsAre
<1>4. PICK pad : pad = DT!Padding(L) /\ pad \in Seq(ByteValues) /\ Len(pad) = PadLength(L)
  BY PaddingIs
<1>5. PICK len : len = DT!WordOf(L) /\ len \in Seq(ByteValues) /\ Len(len) = 4
  BY <1>1, PartsAre
<1>6. PICK name : /\ name = DT!WordOf(item.nameoff) /\ name \in Seq(ByteValues)
                  /\ Len(name) = 4
  BY PartsAre
<1>7. DT!Spelled(item) = word \o len \o name \o bytes \o pad
  BY <1>1, <1>2, <1>3, <1>4, <1>5, <1>6, PartsOf
<1>8. Len(DT!Spelled(item)) = 4 + 4 + 4 + L + PadLength(L)
  <2>1. /\ word \in Seq(ByteValues) /\ len \in Seq(ByteValues) /\ name \in Seq(ByteValues)
        /\ bytes \in Seq(ByteValues) /\ pad \in Seq(ByteValues)
    BY <1>2, <1>3, <1>4, <1>5, <1>6
  <2>2. Len(word \o len \o name \o bytes \o pad) =
          Len(word) + Len(len) + Len(name) + Len(bytes) + Len(pad)
    BY <2>1, FiveJoined
  <2> QED BY <1>2, <1>3, <1>4, <1>5, <1>6, <1>7, <2>2
<1>9. /\ Reads(o, word) /\ Reads(o + 4, len) /\ Reads(o + (4 + 4), name)
      /\ Reads(o + (4 + 4 + 4), bytes)
  <2>1. /\ word \in Seq(ByteValues) /\ len \in Seq(ByteValues) /\ name \in Seq(ByteValues)
        /\ bytes \in Seq(ByteValues) /\ pad \in Seq(ByteValues)
    BY <1>2, <1>3, <1>4, <1>5, <1>6
  <2>2. Reads(o, word \o len \o name \o bytes \o pad)
    BY <1>7
  <2>3. /\ Reads(o, word) /\ Reads(o + Len(word), len)
        /\ Reads(o + (Len(word) + Len(len)), name)
        /\ Reads(o + (Len(word) + Len(len) + Len(name)), bytes)
    BY <2>1, <2>2, FiveRead, Zenon
  <2> QED BY <1>2, <1>5, <1>6, <2>3
<1>10. PadLength(L) \in Nat
  BY DEF PadLength
<1>11. DT!Word(o) = item.token
  BY <1>2, <1>9, WordIsRead DEF ItemFits
<1>12. DT!Word(o + 4) = L
  <2>1. o + 4 \in Nat
    OBVIOUS
  <2> QED BY <1>1, <1>5, <1>9, <2>1, WordIsRead
<1>13. DT!Word(o + 8) = item.nameoff
  <2>1. o + 8 \in Nat /\ o + (4 + 4) = o + 8
    OBVIOUS
  <2>2. item.nameoff \in Nat /\ item.nameoff < DT!Square * DT!Square
    BY PartsAre
  <2>3. Reads(o + 8, name)
    BY <1>9, <2>1
  <2> QED BY <1>6, <2>1, <2>2, <2>3, WordIsRead
<1>14. DT!Bytes(dt_struct, o + 12, L) = bytes
  <2>1. o + (4 + 4 + 4) = o + 12
    OBVIOUS
  <2>2. \A k \in 1..L : DT!ByteAt(dt_struct, o + 12 + k - 1) = bytes[k]
    BY <1>3, <1>9, <2>1 DEF Reads
  <2>3. bytes = [k \in 1..L |-> bytes[k]]
    BY <1>3, LenProperties
  <2> QED BY <2>2, <2>3 DEF DT!Bytes
<1>15. /\ DT!Aligned((o + 12) + L) = (o + 12) + L + PadLength(L)
       /\ DT!Aligned((o + 12) + L) % 4 = 0
  <2>1. o + 12 \in Nat /\ (o + 12) % 4 = 0
    OBVIOUS
  <2> QED BY <2>1, AlignedIs
<1>16. (o + 12) + L + PadLength(L) = o + (4 + 4 + 4 + L + PadLength(L))
  BY <1>10
<1>17. Len(DT!Spelled(item)) > 0
  BY <1>8, <1>10
<1>18. /\ DT!Word(o + 4) = Len(item.bytes) /\ DT!Word(o + 8) = item.nameoff
       /\ DT!Bytes(dt_struct, o + 12, Len(item.bytes)) = item.bytes
  BY <1>1, <1>3, <1>12, <1>13, <1>14
<1>19. /\ DT!Aligned(o + 12 + Len(item.bytes)) = o + Len(DT!Spelled(item))
       /\ (o + Len(DT!Spelled(item))) % 4 = 0
  BY <1>1, <1>8, <1>15, <1>16
<1> QED BY <1>11, <1>17, <1>18, <1>19

\* What the walk reads of any other item.
LEMMA OtherReads ==
  ASSUME DT!DtbAssumption, NEW item, ItemFits(item),
         item.token \notin {DT!FDT_BEGIN_NODE, DT!FDT_PROP},
         NEW o \in Nat, o % 4 = 0, Reads(o, DT!Spelled(item))
  PROVE  /\ DT!Word(o) = item.token /\ Len(DT!Spelled(item)) = 4
         /\ (o + Len(DT!Spelled(item))) % 4 = 0
<1>1. DT!Spelled(item) = DT!WordOf(item.token) /\ Len(DT!WordOf(item.token)) = 4
  BY PartsOf, PartsAre
<1>2. DT!Word(o) = item.token
  BY <1>1, WordIsRead DEF ItemFits
<1>3. (o + 4) % 4 = 0
  OBVIOUS
<1> QED BY <1>1, <1>2, <1>3

\* The names that are linux,initrd-start are the two that end with it.
LEMMA NamesCompare ==
  ASSUME NEW o \in 0..10
  PROVE  DT!strcmp_equal(o, DT!Initrd) <=> o \in {0, 8}
<1> DEFINE byte(k) == DT!ByteAt(DT!strings, k)
<1>1. Len(DT!strings) = 11 /\ 11 \in Nat
  BY DEF DT!strings
<1>2. /\ byte(0) = 1 /\ byte(1) = 2 /\ byte(2) = 0 /\ byte(3) = 1 /\ byte(4) = 2
      /\ byte(5) = 1 /\ byte(6) = 0 /\ byte(7) = 2 /\ byte(8) = 1 /\ byte(9) = 2
      /\ byte(10) = 0
  BY <1>1 DEF DT!ByteAt, DT!strings
<1> HIDE DEF byte
<1>3. ASSUME NEW n \in 0..11, byte(o + n) = 0, \A m \in 0..(n - 1) : byte(o + m) # 0
      PROVE  DT!strcmp_equal(o, DT!Initrd) <=> n = 2 /\ byte(o) = 1 /\ byte(o + 1) = 2
  <2>1. DT!strlen(DT!strings, o) = n
    <3>1. o \in Nat /\ n \in 0..Len(DT!strings) /\ Len(DT!strings) \in Nat
      BY <1>1
    <3>2. /\ DT!ByteAt(DT!strings, o + n) = 0
          /\ \A m \in 0..(n - 1) : DT!ByteAt(DT!strings, o + m) # 0
      BY <1>3 DEF byte
    <3> QED BY <3>1, <3>2, StringEnds
  <2> DEFINE bytes == [k \in 1..n |-> byte(o + k - 1)]
  <2>2. DT!strcmp_equal(o, DT!Initrd) <=> bytes = <<1, 2>>
    BY <2>1 DEF DT!strcmp_equal, DT!Bytes, DT!Initrd, byte
  <2>3. ASSUME bytes = <<1, 2>> PROVE n = 2 /\ byte(o) = 1 /\ byte(o + 1) = 2
    <3>1. DOMAIN bytes = 1..2
      BY <2>3
    <3>2. n = 2
      BY <3>1
    <3>3. bytes[1] = 1 /\ bytes[2] = 2
      BY <2>3
    <3>4. bytes[1] = byte(o + 1 - 1) /\ bytes[2] = byte(o + 2 - 1)
      BY <3>2
    <3>5. o + 1 - 1 = o /\ o + 2 - 1 = o + 1
      OBVIOUS
    <3> QED BY <3>2, <3>3, <3>4, <3>5
  <2>4. ASSUME n = 2, byte(o) = 1, byte(o + 1) = 2 PROVE bytes = <<1, 2>>
    <3>1. o + 1 - 1 = o /\ o + 2 - 1 = o + 1
      OBVIOUS
    <3>2. bytes = [k \in 1..2 |-> IF k = 1 THEN 1 ELSE 2]
      BY <2>4, <3>1
    <3> QED BY <3>2
  <2> QED BY <2>2, <2>3, <2>4
<1>4. CASE o \in {2, 6, 10}
  <2>1. byte(o + 0) = 0
    BY <1>2, <1>4
  <2> QED BY <1>3, <1>4, <2>1
<1>5. CASE o \in {1, 5, 9}
  <2>1. byte(o) # 0 /\ byte(o + 1) = 0
    BY <1>2, <1>5
  <2>2. \A m \in 0..(1 - 1) : byte(o + m) # 0
    BY <2>1
  <2> QED BY <1>3, <1>5, <2>1, <2>2
<1>6. CASE o \in {0, 4, 8}
  <2>1. byte(o) # 0 /\ byte(o + 1) # 0 /\ byte(o + 2) = 0 /\ (byte(o) = 1 <=> o # 4)
        /\ (o # 4 => byte(o + 1) = 2)
    BY <1>2, <1>6
  <2>2. \A m \in 0..(2 - 1) : byte(o + m) # 0
    BY <2>1
  <2> QED BY <1>3, <1>6, <2>1, <2>2
<1>7. CASE o \in {3, 7}
  <2>1. byte(o) # 0 /\ byte(o + 1) # 0 /\ byte(o + 2) # 0 /\ byte(o + 3) = 0
    BY <1>2, <1>7
  <2>2. \A m \in 0..(3 - 1) : byte(o + m) # 0
    <3>1. \A m \in 0..(3 - 1) : m \in {0, 1, 2}
      OBVIOUS
    <3> QED BY <2>1, <3>1
  <2> QED BY <1>3, <1>7, <2>1, <2>2
<1> QED BY <1>4, <1>5, <1>6, <1>7

-----------------------------------------------------------------------------
(***************************************************************************)
(* Dtb: the walk.                                                          *)
(***************************************************************************)

\* The walk has come to the n-th item, in front of which the tree does not end, and
\* has taken linux,initrd-start if it is in front of it.
Walked(n) ==
  /\ \A m \in 1..(n - 1) : tree[m].token # DT!FDT_END
  /\ \/ initrd_start = 0 /\ \A m \in 1..(n - 1) : m \notin DT!InitrdItems(tree)
     \/ \E m \in 1..(n - 1) :
          m \in DT!InitrdItems(tree) /\ initrd_start = DT!Shifted(0, tree[m].bytes)

WalksAt(off, n) == offset = off[n] /\ offset % 4 = 0 /\ Walked(n)

DtbInv ==
  /\ tree \in Trees
  /\ dt_struct = DT!FlattenSeq(Spellings(tree))
  /\ walk = "walk" =>
       \E off : /\ Laid(Spellings(tree), dt_struct, off)
                /\ \E n \in 1..(Len(tree) + 1) : WalksAt(off, n)
  /\ walk = "walk" /\ magic = "wrong" => initrd_start = 0
  /\ DT!DtbFound

\* The walk begins at the first item.
LEMMA DtbStarts == DT!DtbAssumption /\ DT!Init => DtbInv
<1> SUFFICES ASSUME DT!DtbAssumption, DT!Init PROVE DtbInv
  OBVIOUS
<1>1. /\ tree \in Trees /\ dt_struct = DT!FlattenSeq(Spellings(tree))
      /\ offset = 0 /\ initrd_start = 0 /\ walk = "walk"
  BY DEF DT!Init, DT!Call, Spellings
<1>2. PICK off : Laid(Spellings(tree), dt_struct, off)
  BY <1>1, TreeLies
<1>3. off[1] = 0
  BY <1>2 DEF Laid
<1>4. WalksAt(off, 1)
  BY <1>1, <1>3 DEF WalksAt, Walked
<1>5. 1 \in 1..(Len(tree) + 1)
  <2>1. PICK N \in Nat : N = Len(tree)
    BY <1>1, TreeIs
  <2>2. 1 \in 1..(N + 1)
    OBVIOUS
  <2> QED BY <2>1, <2>2
<1> QED BY <1>1, <1>2, <1>4, <1>5 DEF DtbInv, DT!DtbFound

\* The items are read where they lie.
LEMMA TreeReads ==
  ASSUME DT!DtbAssumption, tree \in Trees, dt_struct = DT!FlattenSeq(Spellings(tree)),
         NEW off, Laid(Spellings(tree), dt_struct, off)
  PROVE  /\ Len(dt_struct) \in Nat /\ off[Len(tree) + 1] = Len(dt_struct)
         /\ \A n \in 1..Len(tree) :
              /\ ItemFits(tree[n]) /\ off[n] \in Nat
              /\ off[n + 1] = off[n] + Len(DT!Spelled(tree[n]))
              /\ off[n + 1] <= Len(dt_struct)
              /\ Reads(off[n], DT!Spelled(tree[n]))
<1>1. PICK N \in Nat \ {0} : N = Len(tree) /\ \A n \in 1..N : ItemFits(tree[n])
  BY TreeIs
<1>2. PICK seqs : seqs = Spellings(tree)
  OBVIOUS
<1>3. Len(seqs) = N /\ \A n \in 1..N : seqs[n] = DT!Spelled(tree[n])
  BY <1>1, <1>2, TreeLies
<1>4. Laid(seqs, dt_struct, off)
  BY <1>2
<1>5. Len(dt_struct) \in Nat /\ off[N + 1] = Len(dt_struct)
  <2>1. off \in [1..(N + 1) -> Nat] /\ off[N + 1] = Len(dt_struct) /\ N + 1 \in 1..(N + 1)
    BY <1>3, <1>4 DEF Laid
  <2> QED BY <2>1
<1>6. ASSUME NEW n \in 1..N
      PROVE  /\ off[n] \in Nat /\ off[n + 1] = off[n] + Len(seqs[n])
             /\ off[n + 1] <= Len(dt_struct) /\ Reads(off[n], seqs[n])
  <2>1. Len(seqs[n]) \in Nat
    BY <1>1, <1>3, SpelledInBytes
  <2> QED BY <1>3, <1>4, <1>5, <2>1, ItemReads
<1> QED BY <1>1, <1>3, <1>5, <1>6

\* An item begins with its token, inside the block.
LEMMA TokenReads ==
  ASSUME DT!DtbAssumption, tree \in Trees, dt_struct = DT!FlattenSeq(Spellings(tree)),
         NEW off, Laid(Spellings(tree), dt_struct, off), NEW n \in 1..Len(tree),
         off[n] % 4 = 0
  PROVE  DT!Word(off[n]) = tree[n].token /\ off[n] < Len(dt_struct)
<1>1. PICK item : item = tree[n]
  OBVIOUS
<1>2. /\ ItemFits(item) /\ off[n] \in Nat /\ Len(dt_struct) \in Nat
      /\ off[n] + Len(DT!Spelled(item)) <= Len(dt_struct)
      /\ Reads(off[n], DT!Spelled(item))
  BY <1>1, TreeReads
<1>3. Len(DT!Spelled(item)) \in Nat
  BY <1>2, SpelledInBytes
<1>4. PICK o \in Nat : o = off[n] /\ o % 4 = 0
  BY <1>2
<1>5. Reads(o, DT!Spelled(item)) /\ o + Len(DT!Spelled(item)) <= Len(dt_struct)
  BY <1>2, <1>4
<1>6. DT!Word(o) = item.token /\ Len(DT!Spelled(item)) > 0
  <2>1. CASE item.token = DT!FDT_BEGIN_NODE
    BY <1>2, <1>4, <1>5, <2>1, NodeReads
  <2>2. CASE item.token = DT!FDT_PROP
    BY <1>2, <1>4, <1>5, <2>2, PropReads
  <2>3. CASE item.token \notin {DT!FDT_BEGIN_NODE, DT!FDT_PROP}
    <3>1. DT!Word(o) = item.token /\ Len(DT!Spelled(item)) = 4
      BY <1>2, <1>4, <1>5, <2>3, OtherReads
    <3> QED BY <3>1
  <2> QED BY <2>1, <2>2, <2>3
<1> QED BY <1>1, <1>2, <1>3, <1>4, <1>5, <1>6

\* A pass takes linux,initrd-start and goes on to the next item.
LEMMA DtbGoesOn ==
  ASSUME DT!DtbAssumption, DtbInv, walk = "walk", magic # "wrong",
         NEW off, Laid(Spellings(tree), dt_struct, off),
         NEW n \in 1..Len(tree), WalksAt(off, n),
         tree[n].token # DT!FDT_END,
         DT!GoOn(off[n + 1]), off[n + 1] % 4 = 0,
         initrd_start' = IF n \in DT!InitrdItems(tree)
                         THEN DT!Shifted(initrd_start, tree[n].bytes) ELSE initrd_start
  PROVE  DtbInv'
<1>1. /\ tree \in Trees /\ dt_struct = DT!FlattenSeq(Spellings(tree))
      /\ Walked(n)
  BY DEF DtbInv, WalksAt
<1>2. PICK N \in Nat : N = Len(tree) /\ \A k, m \in DT!InitrdItems(tree) : k = m
  BY <1>1, TreeIs
<1>3. /\ offset' = off[n + 1] /\ tree' = tree /\ magic' = magic /\ dt_struct' = dt_struct
      /\ walk' = walk
  BY DEF DT!GoOn
<1>4. n \in 1..N /\ n + 1 \in 1..(N + 1) /\ (n + 1) - 1 = n /\ n \notin 1..(n - 1)
      /\ 1..(n - 1) \subseteq 1..n /\ \A m \in 1..n : m \in 1..(n - 1) \/ m = n
  BY <1>2
<1>5. \A m \in 1..n : tree[m].token # DT!FDT_END
  BY <1>1, <1>4 DEF Walked
<1>6. \/ initrd_start' = 0 /\ \A m \in 1..n : m \notin DT!InitrdItems(tree)
      \/ \E m \in 1..n :
           m \in DT!InitrdItems(tree) /\ initrd_start' = DT!Shifted(0, tree[m].bytes)
  <2>1. CASE n \in DT!InitrdItems(tree)
    <3>1. initrd_start = 0
      BY <1>1, <1>2, <1>4, <2>1 DEF Walked
    <3> QED BY <1>4, <2>1, <3>1
  <2>2. CASE n \notin DT!InitrdItems(tree)
    BY <1>1, <1>4, <2>2 DEF Walked
  <2> QED BY <2>1, <2>2
<1>7. WalksAt(off, n + 1)'
  BY <1>3, <1>4, <1>5, <1>6 DEF WalksAt, Walked, DT!InitrdItems
<1>8. Spellings(tree)' = Spellings(tree)
  BY <1>3 DEF Spellings, DT!Spelled
<1>9. n + 1 \in 1..(Len(tree') + 1)
  BY <1>2, <1>3, <1>4
<1>10. Laid(Spellings(tree)', dt_struct', off)
  BY <1>3, <1>8
<1>11. dt_struct' = DT!FlattenSeq(Spellings(tree)')
  BY <1>1, <1>3, <1>8
<1>12. walk' # "done" /\ magic' # "wrong"
  BY <1>3
<1> QED BY <1>1, <1>3, <1>7, <1>9, <1>10, <1>11, <1>12 DEF DtbInv, DT!DtbFound

\* The walk ends with the tree, or at once.
LEMMA DtbFinishes == DT!DtbAssumption /\ DtbInv /\ DT!Finish => DtbInv'
<1> SUFFICES ASSUME DT!DtbAssumption, DtbInv, DT!Finish PROVE DtbInv'
  OBVIOUS
<1>1. /\ walk = "walk" /\ walk' = "done"
      /\ magic = "wrong" \/ offset >= Len(dt_struct) \/ DT!Word(offset) = DT!FDT_END
      /\ UNCHANGED <<tree, magic, dt_struct, offset, initrd_start>>
  BY DEF DT!Finish
<1>2. tree \in Trees /\ dt_struct = DT!FlattenSeq(Spellings(tree))
  BY DEF DtbInv
<1>3. CASE magic = "wrong"
  <2>1. initrd_start = 0
    BY <1>1, <1>3 DEF DtbInv
  <2> QED BY <1>1, <1>2, <1>3, <2>1 DEF DtbInv, DT!DtbFound, Spellings, DT!Spelled
<1>4. CASE magic # "wrong"
  <2>1. PICK off : /\ Laid(Spellings(tree), dt_struct, off)
                   /\ \E n \in 1..(Len(tree) + 1) : WalksAt(off, n)
    BY <1>1 DEF DtbInv
  <2>2. PICK n \in 1..(Len(tree) + 1) : WalksAt(off, n)
    BY <2>1
  <2>3. PICK N \in Nat \ {0} : /\ N = Len(tree) /\ DOMAIN tree = 1..N
                               /\ \A m \in 1..N : ItemFits(tree[m])
    BY <1>2, TreeIs
  <2>4. n \in 1..(N + 1) /\ offset = off[n] /\ offset % 4 = 0 /\ Walked(n)
    BY <2>2, <2>3 DEF WalksAt
  <2>5. n = N + 1 \/ tree[n].token = DT!FDT_END
    <3> SUFFICES ASSUME n \in 1..N PROVE tree[n].token = DT!FDT_END
      BY <2>4
    <3>1. /\ DT!Word(off[n]) = tree[n].token /\ off[n] < Len(dt_struct)
      BY <1>2, <2>1, <2>3, <2>4, TokenReads
    <3>2. off[n] \in Nat /\ Len(dt_struct) \in Nat
      BY <1>2, <2>1, <2>3, TreeReads
    <3> QED BY <1>1, <1>4, <2>4, <3>1, <3>2
  <2>6. ASSUME NEW m \in DT!InitrdItems(tree) PROVE m \in 1..(n - 1)
    <3>1. /\ m \in 1..N /\ tree[m].token = DT!FDT_PROP
          /\ \A k \in 1..(m - 1) : tree[k].token # DT!FDT_END
      BY <2>3 DEF DT!InitrdItems
    <3>2. tree[m].token # DT!FDT_END
      BY <3>1 DEF DT!FDT_PROP, DT!FDT_END
    <3>3. tree[n].token = DT!FDT_END => m # n /\ n \notin 1..(m - 1)
      BY <3>1, <3>2
    <3> QED BY <2>4, <2>5, <3>1, <3>3
  <2>7. DT!DtbFound'
    <3>1. CASE initrd_start = 0 /\ \A m \in 1..(n - 1) : m \notin DT!InitrdItems(tree)
      <4>1. DT!Initrds = {}
        BY <2>6, <3>1 DEF DT!Initrds
      <4>2. DT!Initrds' = {}
        BY <1>1, <4>1 DEF DT!Initrds, DT!InitrdItems
      <4> QED BY <1>1, <1>4, <3>1, <4>2 DEF DT!DtbFound
    <3>2. CASE \E m \in 1..(n - 1) :
                 m \in DT!InitrdItems(tree) /\ initrd_start = DT!Shifted(0, tree[m].bytes)
      <4>1. PICK value \in DT!Initrds : initrd_start = DT!Shifted(0, value)
        BY <3>2 DEF DT!Initrds
      <4>2. value \in DT!Initrds'
        BY <1>1 DEF DT!Initrds, DT!InitrdItems
      <4>3. initrd_start' = DT!Shifted(0, value)
        BY <1>1, <4>1
      <4> QED BY <1>1, <1>4, <4>2, <4>3 DEF DT!DtbFound
    <3> QED BY <2>4, <3>1, <3>2 DEF Walked
  <2> QED BY <1>1, <1>2, <2>7 DEF DtbInv, Spellings, DT!Spelled
<1> QED BY <1>3, <1>4

\* A pass of the loop goes on to the next item, or ends the walk.
LEMMA DtbSteps == DT!DtbAssumption /\ DtbInv /\ DT!Next => DtbInv'
<1> SUFFICES ASSUME DT!DtbAssumption, DtbInv, DT!Next, ~DT!Finish PROVE DtbInv'
  BY DtbFinishes
<1>1. walk = "walk" /\ magic # "wrong" /\ offset < Len(dt_struct)
  BY DEF DT!Next, DT!EndNode, DT!BeginNode, DT!Nop, DT!Prop, DT!Other, DT!Token, DT!Inside
<1>2. tree \in Trees /\ dt_struct = DT!FlattenSeq(Spellings(tree))
  BY DEF DtbInv
<1>3. PICK off : /\ Laid(Spellings(tree), dt_struct, off)
                 /\ \E n \in 1..(Len(tree) + 1) : WalksAt(off, n)
  BY <1>1 DEF DtbInv
<1>4. PICK n \in 1..(Len(tree) + 1) : WalksAt(off, n)
  BY <1>3
<1>5. PICK N \in Nat \ {0} : N = Len(tree) /\ DOMAIN tree = 1..N
  BY <1>2, TreeIs
<1>6. offset = off[n] /\ offset % 4 = 0
  BY <1>4 DEF WalksAt
<1>7. n \in 1..N
  <2>1. off[N + 1] = Len(dt_struct) /\ Len(dt_struct) \in Nat
    BY <1>2, <1>3, <1>5, TreeReads
  <2>2. n # N + 1
    BY <1>1, <1>6, <2>1
  <2> QED BY <1>4, <1>5, <2>2
<1>8. /\ ItemFits(tree[n]) /\ off[n] \in Nat /\ Len(dt_struct) \in Nat
      /\ off[n + 1] = off[n] + Len(DT!Spelled(tree[n])) /\ off[n + 1] <= Len(dt_struct)
      /\ Reads(off[n], DT!Spelled(tree[n]))
  BY <1>2, <1>3, <1>5, <1>7, TreeReads
<1>9. DT!Word(offset) = tree[n].token
  BY <1>2, <1>3, <1>5, <1>6, <1>7, TokenReads
<1>10. n \in DT!InitrdItems(tree) => tree[n].token = DT!FDT_PROP
  BY DEF DT!InitrdItems
<1>11. /\ DT!FDT_END \notin {DT!FDT_BEGIN_NODE, DT!FDT_END_NODE, DT!FDT_PROP, DT!FDT_NOP}
       /\ {DT!FDT_BEGIN_NODE, DT!FDT_PROP} \cap {DT!FDT_END_NODE, DT!FDT_NOP} = {}
       /\ DT!FDT_BEGIN_NODE # DT!FDT_PROP
  BY DEF DT!FDT_END, DT!FDT_BEGIN_NODE, DT!FDT_END_NODE, DT!FDT_PROP, DT!FDT_NOP
<1>12. ASSUME tree[n].token # DT!FDT_END, DT!GoOn(off[n + 1]), off[n + 1] % 4 = 0,
              initrd_start' = IF n \in DT!InitrdItems(tree)
                              THEN DT!Shifted(initrd_start, tree[n].bytes) ELSE initrd_start
       PROVE  DtbInv'
  <2>1. n \in 1..Len(tree)
    BY <1>5, <1>7
  <2> QED BY <1>1, <1>3, <1>4, <1>12, <2>1, DtbGoesOn
<1>13. ASSUME tree[n].token \notin {DT!FDT_BEGIN_NODE, DT!FDT_PROP, DT!FDT_END},
              DT!GoOn(offset + 4), UNCHANGED initrd_start
       PROVE  DtbInv'
  <2>1. off[n + 1] = offset + 4 /\ off[n + 1] % 4 = 0
    BY <1>6, <1>8, <1>13, OtherReads
  <2> QED BY <1>10, <1>12, <1>13, <2>1
<1>14. CASE DT!EndNode
  BY <1>9, <1>11, <1>13, <1>14 DEF DT!EndNode, DT!Token
<1>15. CASE DT!Nop
  BY <1>9, <1>11, <1>13, <1>15 DEF DT!Nop, DT!Token
<1>16. CASE DT!Other
  BY <1>9, <1>13, <1>16 DEF DT!Other
<1>17. CASE DT!BeginNode
  <2>1. /\ tree[n].token = DT!FDT_BEGIN_NODE /\ initrd_start' = initrd_start
        /\ DT!GoOn(DT!Aligned(offset + 4 + DT!strlen(dt_struct, offset + 4) + 1))
    BY <1>9, <1>17 DEF DT!BeginNode, DT!Token
  <2>2. /\ DT!Aligned(offset + 4 + DT!strlen(dt_struct, offset + 4) + 1) = off[n + 1]
        /\ off[n + 1] % 4 = 0
    BY <1>6, <1>8, <2>1, NodeReads
  <2> QED BY <1>10, <1>11, <1>12, <2>1, <2>2
<1>18. CASE DT!Prop
  <2>1. tree[n].token = DT!FDT_PROP
    BY <1>9, <1>18 DEF DT!Prop, DT!Token
  <2>2. /\ DT!Word(offset + 4) = Len(tree[n].bytes) /\ DT!Word(offset + 8) = tree[n].nameoff
        /\ DT!Bytes(dt_struct, offset + 12, Len(tree[n].bytes)) = tree[n].bytes
        /\ DT!Aligned(offset + 12 + Len(tree[n].bytes)) = off[n + 1] /\ off[n + 1] % 4 = 0
    BY <1>6, <1>8, <2>1, PropReads
  <2>3. /\ initrd_start' = IF DT!strcmp_equal(tree[n].nameoff, DT!Initrd)
                           THEN DT!Shifted(initrd_start, tree[n].bytes) ELSE initrd_start
        /\ DT!GoOn(off[n + 1])
    BY <1>18, <2>2 DEF DT!Prop
  <2>4. DT!strcmp_equal(tree[n].nameoff, DT!Initrd) <=> tree[n].nameoff \in {0, 8}
    BY <1>8, <2>1, NamesCompare DEF ItemFits
  <2>5. \A m \in 1..(n - 1) : tree[m].token # DT!FDT_END
    BY <1>4 DEF WalksAt, Walked
  <2>6. DT!strcmp_equal(tree[n].nameoff, DT!Initrd) <=> n \in DT!InitrdItems(tree)
    BY <1>5, <1>7, <2>1, <2>4, <2>5 DEF DT!InitrdItems
  <2> QED BY <1>11, <1>12, <2>1, <2>2, <2>3, <2>6
<1> QED BY <1>14, <1>15, <1>16, <1>17, <1>18 DEF DT!Next

\* A step that leaves its variables alone keeps the invariant.
LEMMA DtbStays == DtbInv /\ UNCHANGED dtVars => DtbInv'
<1> SUFFICES ASSUME DtbInv, UNCHANGED dtVars PROVE DtbInv'
  OBVIOUS
<1>1. /\ tree' = tree /\ magic' = magic /\ dt_struct' = dt_struct
      /\ offset' = offset /\ initrd_start' = initrd_start /\ walk' = walk
  BY DEF dtVars
<1>2. /\ Spellings(tree)' = Spellings(tree) /\ DT!InitrdItems(tree)' = DT!InitrdItems(tree)
      /\ DT!Initrds' = DT!Initrds
  BY <1>1 DEF Spellings, DT!Spelled, DT!InitrdItems, DT!Initrds
<1>3. tree' \in Trees /\ dt_struct' = DT!FlattenSeq(Spellings(tree)')
  BY <1>1, <1>2 DEF DtbInv
<1>4. ASSUME NEW off, NEW n, WalksAt(off, n) PROVE WalksAt(off, n)'
  BY <1>1, <1>2, <1>4 DEF WalksAt, Walked
<1>5. walk' = "walk" =>
        \E off : /\ Laid(Spellings(tree)', dt_struct', off)
                /\ \E n \in 1..(Len(tree') + 1) : WalksAt(off, n)'
  BY <1>1, <1>2, <1>4 DEF DtbInv
<1>6. DT!DtbFound' /\ (walk' = "walk" /\ magic' = "wrong" => initrd_start' = 0)
  BY <1>1, <1>2 DEF DtbInv, DT!DtbFound
<1> QED BY <1>3, <1>5, <1>6 DEF DtbInv


-----------------------------------------------------------------------------
(***************************************************************************)
(* printm: numerals.                                                       *)
(***************************************************************************)

Pow(radix, p) == radix^p

\* The characters of texts, strings, directives, and those that printm writes itself.
Marks == {"%", "-", "+", " ", "#", "x", "X", "h", "l", "z"}
Chars ==
  STRING \cup Marks \cup PR!Conversions
    \cup {"0", "1", "2", "3", "4", "5", "6", "7", "8", "9", "a", "b", "c", "d", "e", "f"}
    \cup {"A", "B", "C", "D", "E", "F"}

\* What is used of powers.
LEMMA PowersAre ==
  ASSUME PR!PrintmAssumption, NEW radix \in PR!Bases
  PROVE  /\ BufSize \in Nat /\ BufSize > 1 /\ radix \in Nat \ {0, 1}
         /\ Pow(radix, 0) = 1 /\ Pow(radix, 1) = radix
         /\ \A p \in 0..(BufSize - 1) : Pow(radix, p + 1) = radix * Pow(radix, p)
         /\ \A p \in 0..BufSize : Pow(radix, p) \in Nat \ {0}
<1>1. /\ BufSize \in Nat /\ BufSize > 1 /\ radix \in {8, 10, 16}
      /\ Pow(radix, 0) = 1
      /\ \A p \in 0..(BufSize - 1) : Pow(radix, p + 1) = radix * Pow(radix, p)
  BY DEF PR!PrintmAssumption, PR!Powers, PR!Bases, Pow
<1> DEFINE T == {p \in 0..BufSize : Pow(radix, p) \notin Nat \ {0}}
<1>2. T = {}
  <2> SUFFICES ASSUME T # {} PROVE FALSE
    OBVIOUS
  <2>1. PICK x \in T : \A y \in T : x <= y
    <3>1. T \in SUBSET Nat
      BY <1>1
    <3> HIDE DEF T
    <3> QED BY <3>1, Least
  <2>2. x # 0
    BY <1>1
  <2>3. x - 1 \in 0..(BufSize - 1) /\ x - 1 \in 0..BufSize /\ x - 1 \notin T /\ (x - 1) + 1 = x
    BY <1>1, <2>1, <2>2
  <2>4. Pow(radix, x - 1) \in Nat \ {0} /\ Pow(radix, x) = radix * Pow(radix, x - 1)
    BY <1>1, <2>3
  <2>5. Pow(radix, x) \in Nat \ {0}
    BY <1>1, <2>4
  <2> QED BY <2>1, <2>5
<1>3. Pow(radix, 1) = radix
  <2>1. 0 \in 0..(BufSize - 1) /\ 0 + 1 = 1
    BY <1>1
  <2>2. Pow(radix, 0 + 1) = radix * Pow(radix, 0)
    BY <1>1, <2>1
  <2> QED BY <1>1, <2>1, <2>2
<1>4. radix \in Nat \ {0, 1}
  BY <1>1
<1> QED BY <1>1, <1>2, <1>3, <1>4

\* What a power times its base is more than.
LEMMA Shrinks ==
  ASSUME NEW radix \in PR!Bases, NEW n \in Nat, NEW x \in Nat
  PROVE  /\ n \div radix \in Nat /\ n % radix \in 0..(radix - 1)
         /\ (n \div radix = 0 <=> n < radix) /\ (n > 0 => n \div radix < n)
         /\ (n < radix * x <=> n \div radix < x)
<1>1. radix \in {8, 10, 16}
  BY DEF PR!Bases
<1>2. CASE radix = 8
  BY <1>2
<1>3. CASE radix = 10
  BY <1>3
<1>4. CASE radix = 16
  BY <1>4
<1> QED BY <1>1, <1>2, <1>3, <1>4

\* Powers grow.
LEMMA PowersGrow ==
  ASSUME PR!PrintmAssumption, NEW radix \in PR!Bases, NEW p \in 0..BufSize
  PROVE  \A q \in p..BufSize : Pow(radix, p) <= Pow(radix, q)
<1> DEFINE T == {q \in p..BufSize : ~(Pow(radix, p) <= Pow(radix, q))}
<1>1. /\ BufSize \in Nat /\ radix \in Nat \ {0, 1}
      /\ \A q \in 0..(BufSize - 1) : Pow(radix, q + 1) = radix * Pow(radix, q)
      /\ \A q \in 0..BufSize : Pow(radix, q) \in Nat \ {0}
  BY PowersAre
<1>2. SUFFICES ASSUME T # {} PROVE FALSE
  OBVIOUS
<1>3. PICK x \in T : \A y \in T : x <= y
  <2>1. T \in SUBSET Nat
    BY <1>1
  <2> HIDE DEF T
  <2> QED BY <1>2, <2>1, Least
<1>4. x # p
  BY <1>1
<1>5. /\ x - 1 \in p..BufSize /\ x - 1 \in 0..(BufSize - 1) /\ x - 1 \in 0..BufSize
      /\ x - 1 \notin T /\ (x - 1) + 1 = x /\ x \in 0..BufSize
  BY <1>1, <1>3, <1>4
<1>6. Pow(radix, p) <= Pow(radix, x - 1) /\ Pow(radix, x) = radix * Pow(radix, x - 1)
  BY <1>1, <1>5
<1>7. PICK a0, b0, c0 \in Nat : a0 = Pow(radix, p) /\ b0 = Pow(radix, x - 1) /\ c0 = Pow(radix, x)
  BY <1>1, <1>5
<1>8. b0 <= radix * b0
  BY <1>1
<1>9. a0 <= c0
  BY <1>1, <1>6, <1>7, <1>8
<1> QED BY <1>3, <1>7, <1>9

\* A number has as many places as it takes.
LEMMA PlacesOnly ==
  ASSUME PR!PrintmAssumption, NEW radix \in PR!Bases, NEW n \in Nat,
         NEW p \in 1..BufSize, n < Pow(radix, p), p > 1 => Pow(radix, p - 1) <= n
  PROVE  PR!Places(n, radix) = p
<1>1. /\ BufSize \in Nat /\ \A q \in 0..BufSize : Pow(radix, q) \in Nat \ {0}
  BY PowersAre
<1> DEFINE Is(q) == n < Pow(radix, q) /\ (q > 1 => Pow(radix, q - 1) <= n)
<1>2. ASSUME NEW q \in 1..BufSize, Is(q) PROVE q = p
  <2>1. CASE q < p
    <3>1. q \in 0..BufSize /\ p - 1 \in q..BufSize /\ p - 1 \in 0..BufSize /\ p > 1
      BY <1>1, <2>1
    <3>2. Pow(radix, q) <= Pow(radix, p - 1)
      BY <3>1, PowersGrow
    <3> QED BY <1>1, <1>2, <3>1, <3>2
  <2>2. CASE p < q
    <3>1. p \in 0..BufSize /\ q - 1 \in p..BufSize /\ q - 1 \in 0..BufSize /\ q > 1
      BY <1>1, <2>2
    <3>2. Pow(radix, p) <= Pow(radix, q - 1)
      BY <3>1, PowersGrow
    <3> QED BY <1>1, <1>2, <3>1, <3>2
  <2> QED BY <1>1, <2>1, <2>2
<1>3. p = CHOOSE q \in 1..BufSize : Is(q)
  <2>1. Is(p)
    OBVIOUS
  <2> HIDE DEF Is
  <2> QED BY <1>2, <2>1
<1> QED BY <1>3 DEF PR!Places, Pow

\* It has that many.
LEMMA PlacesAre ==
  ASSUME PR!PrintmAssumption, NEW radix \in PR!Bases, NEW n \in Nat, n < Pow(radix, BufSize)
  PROVE  /\ PR!Places(n, radix) \in 1..BufSize
         /\ n < Pow(radix, PR!Places(n, radix))
         /\ PR!Places(n, radix) > 1 => Pow(radix, PR!Places(n, radix) - 1) <= n
<1>1. /\ BufSize \in Nat /\ BufSize > 1 /\ \A q \in 0..BufSize : Pow(radix, q) \in Nat \ {0}
  BY PowersAre
<1> DEFINE T == {p \in 1..BufSize : n < Pow(radix, p)}
<1>2. PICK p \in T : \A q \in T : p <= q
  <2>1. T \in SUBSET Nat /\ BufSize \in T
    BY <1>1
  <2> HIDE DEF T
  <2> QED BY <2>1, Least
<1>3. p > 1 => Pow(radix, p - 1) <= n
  <2> SUFFICES ASSUME p > 1 PROVE Pow(radix, p - 1) <= n
    OBVIOUS
  <2>1. p - 1 \in 1..BufSize /\ p - 1 \notin T /\ p - 1 \in 0..BufSize
    BY <1>1, <1>2
  <2> QED BY <1>1, <2>1
<1>4. PR!Places(n, radix) = p
  BY <1>2, <1>3, PlacesOnly
<1> QED BY <1>2, <1>3, <1>4

\* A number without its last place.
LEMMA PlacesDown ==
  ASSUME PR!PrintmAssumption, NEW radix \in PR!Bases, NEW n \in Nat, n < Pow(radix, BufSize)
  PROVE  /\ n < radix => PR!Places(n, radix) = 1
         /\ n >= radix => /\ PR!Places(n, radix) > 1
                         /\ PR!Places(n \div radix, radix) = PR!Places(n, radix) - 1
<1>1. /\ BufSize \in Nat /\ BufSize > 1 /\ \A q \in 0..BufSize : Pow(radix, q) \in Nat \ {0}
      /\ Pow(radix, 1) = radix
      /\ \A p \in 0..(BufSize - 1) : Pow(radix, p + 1) = radix * Pow(radix, p)
  BY PowersAre
<1>2. n < radix => PR!Places(n, radix) = 1
  <2>1. 1 \in 1..BufSize
    BY <1>1
  <2> QED BY <1>1, <2>1, PlacesOnly
<1>3. ASSUME n >= radix
      PROVE  PR!Places(n, radix) > 1 /\ PR!Places(n \div radix, radix) = PR!Places(n, radix) - 1
  <2>1. PICK p \in 1..BufSize : /\ p = PR!Places(n, radix) /\ n < Pow(radix, p)
                                /\ p > 1 => Pow(radix, p - 1) <= n
    BY PlacesAre
  <2>2. p > 1
    BY <1>1, <1>3, <2>1 DEF PR!Bases
  <2>3. /\ p - 1 \in 0..(BufSize - 1) /\ (p - 1) + 1 = p /\ p - 1 \in 1..BufSize
        /\ p - 1 \in 0..BufSize
    BY <1>1, <2>1, <2>2
  <2>4. Pow(radix, p) = radix * Pow(radix, p - 1)
    BY <1>1, <2>3
  <2>5. PICK x \in Nat : x = Pow(radix, p - 1)
    BY <1>1, <2>3
  <2>6. n \div radix \in Nat /\ n \div radix < x
    <3>1. n < radix * x
      BY <2>1, <2>4, <2>5
    <3> QED BY <3>1, Shrinks
  <2>7. p - 1 > 1 => Pow(radix, (p - 1) - 1) <= n \div radix
    <3> SUFFICES ASSUME p - 1 > 1 PROVE Pow(radix, (p - 1) - 1) <= n \div radix
      OBVIOUS
    <3>1. (p - 1) - 1 \in 0..(BufSize - 1) /\ ((p - 1) - 1) + 1 = p - 1 /\ (p - 1) - 1 \in 0..BufSize
      BY <1>1, <2>3
    <3>2. PICK y \in Nat : y = Pow(radix, (p - 1) - 1)
      BY <1>1, <3>1
    <3>3. x = radix * y
      BY <1>1, <2>5, <3>1, <3>2
    <3>4. ~(n < radix * y)
      BY <2>1, <2>2, <2>5, <3>3
    <3>5. ~(n \div radix < y)
      BY <3>4, Shrinks
    <3> QED BY <2>6, <3>2, <3>5
  <2> QED BY <2>1, <2>2, <2>3, <2>5, <2>6, <2>7, PlacesOnly
<1> QED BY <1>2, <1>3

\* One character.
LEMMA SingleIs ==
  ASSUME NEW D, NEW c \in D
  PROVE  <<c>> \in Seq(D) /\ Len(<<c>>) = 1 /\ <<c>>[1] = c
OBVIOUS

\* The digits of a number, the last one first.
Low(n, radix, digits) ==
  [p \in 1..PR!Places(n, radix) |-> digits[((n \div Pow(radix, p - 1)) % radix) + 1]]

\* Sixteen characters.
AreDigits(digits) == digits \in [1..16 -> Chars]

\* The digits of a number are characters.
LEMMA LowIs ==
  ASSUME PR!PrintmAssumption, NEW radix \in PR!Bases, NEW n \in Nat, n < Pow(radix, BufSize),
         NEW digits, AreDigits(digits)
  PROVE  /\ Low(n, radix, digits) \in Seq(Chars)
         /\ Len(Low(n, radix, digits)) = PR!Places(n, radix)
         /\ PR!Places(n, radix) \in 1..BufSize
<1>1. PICK l \in 1..BufSize : l = PR!Places(n, radix)
  BY PlacesAre
<1>2. ASSUME NEW p \in 1..l PROVE digits[((n \div Pow(radix, p - 1)) % radix) + 1] \in Chars
  <2>1. BufSize \in Nat /\ p - 1 \in 0..BufSize
    BY <1>1, PowersAre
  <2>2. PICK w \in Nat \ {0} : w = Pow(radix, p - 1)
    BY <2>1, PowersAre
  <2>3. PICK m \in Nat : m = n \div w
    BY <2>2, Divided
  <2>4. m % radix \in 0..(radix - 1) /\ radix \in {8, 10, 16}
    BY Shrinks DEF PR!Bases
  <2>5. (m % radix) + 1 \in 1..16
    BY <2>4
  <2> QED BY <2>2, <2>3, <2>5 DEF AreDigits
<1>3. BufSize \in Nat
  BY PowersAre
<1> QED BY <1>1, <1>2, <1>3 DEF Low

\* The last digit, and those of the number without it.
LEMMA LowStep ==
  ASSUME PR!PrintmAssumption, NEW radix \in PR!Bases, NEW n \in Nat \ {0},
         n < Pow(radix, BufSize), NEW digits, AreDigits(digits)
  PROVE  Low(n, radix, digits) =
           <<digits[(n % radix) + 1]>> \o
             (IF n \div radix = 0 THEN <<>> ELSE Low(n \div radix, radix, digits))
<1>1. /\ BufSize \in Nat /\ BufSize > 1 /\ \A q \in 0..BufSize : Pow(radix, q) \in Nat \ {0}
      /\ Pow(radix, 0) = 1 /\ radix \in Nat \ {0, 1}
      /\ \A p \in 0..(BufSize - 1) : Pow(radix, p + 1) = radix * Pow(radix, p)
  BY PowersAre
<1>2. PICK l \in 1..BufSize : l = PR!Places(n, radix)
  BY PlacesAre
<1>3. PICK first : first = digits[(n % radix) + 1] /\ first \in Chars
  <2>1. (n % radix) \in 0..(radix - 1) /\ radix \in {8, 10, 16}
    BY Shrinks DEF PR!Bases
  <2>2. (n % radix) + 1 \in 1..16
    BY <2>1
  <2> QED BY <2>2 DEF AreDigits
<1>4. n \div Pow(radix, 1 - 1) = n
  BY <1>1
<1>5. CASE n < radix
  <2>1. l = 1 /\ n \div radix = 0
    BY <1>2, <1>5, PlacesDown, Shrinks
  <2>2. Low(n, radix, digits) = [p \in 1..1 |-> digits[((n \div Pow(radix, p - 1)) % radix) + 1]]
    BY <1>2, <2>1 DEF Low
  <2>3. Low(n, radix, digits) = <<first>>
    <3>1. \A p \in 1..1 : p = 1
      OBVIOUS
    <3>2. Low(n, radix, digits) = [p \in 1..1 |-> first]
      BY <1>3, <1>4, <2>2, <3>1
    <3> QED BY <3>2
  <2>4. <<first>> \o <<>> = <<first>>
    BY <1>3
  <2> QED BY <1>3, <2>1, <2>3, <2>4
<1>6. CASE n >= radix
  <2>1. PICK m \in Nat : m = n \div radix /\ m # 0 /\ m < Pow(radix, BufSize)
    <3>1. n \in Nat /\ ~(n < radix) /\ n > 0
      BY <1>1, <1>6
    <3>2. n \div radix \in Nat /\ n \div radix # 0 /\ n \div radix < n
      BY <3>1, Shrinks
    <3>3. Pow(radix, BufSize) \in Nat
      BY <1>1
    <3> QED BY <3>2, <3>3
  <2>2. l > 1 /\ PR!Places(m, radix) = l - 1
    BY <1>2, <1>6, <2>1, PlacesDown
  <2>3. PICK t : t = Low(m, radix, digits) /\ t \in Seq(Chars) /\ Len(t) = l - 1
    BY <2>1, <2>2, LowIs
  <2>4. PICK s : s = Low(n, radix, digits) /\ s \in Seq(Chars) /\ Len(s) = l
    BY <1>2, LowIs
  <2>5. s[1] = first
    BY <1>2, <1>3, <1>4, <2>4 DEF Low
  <2>6. ASSUME NEW p \in 1..(l - 1) PROVE s[p + 1] = t[p]
    <3>1. /\ p + 1 \in 1..l /\ (p + 1) - 1 = p /\ p - 1 \in 0..(BufSize - 1)
          /\ (p - 1) + 1 = p /\ p - 1 \in 0..BufSize
      BY <1>1, <1>2
    <3>2. PICK w \in Nat \ {0} : w = Pow(radix, p - 1) /\ Pow(radix, p) = radix * w
      BY <1>1, <3>1
    <3>3. n \div (radix * w) = (n \div radix) \div w
      BY <1>1, <3>2, DividedTwice
    <3>4. s[p + 1] = digits[((n \div Pow(radix, p)) % radix) + 1]
      BY <1>2, <2>4, <3>1 DEF Low
    <3>5. t[p] = digits[((m \div Pow(radix, p - 1)) % radix) + 1]
      BY <2>2, <2>3 DEF Low
    <3> QED BY <2>1, <3>2, <3>3, <3>4, <3>5
  <2>7. s = <<first>> \o t
    <3>1. PICK u : u = <<first>> /\ u \in Seq(Chars) /\ Len(u) = 1 /\ u[1] = first
      BY <1>3, SingleIs
    <3>2. /\ u \o t \in Seq(Chars) /\ Len(u \o t) = l /\ (u \o t)[1] = first
          /\ \A k \in 1..(l - 1) : (u \o t)[1 + k] = t[k]
      BY <1>2, <2>3, <3>1, Joined
    <3>3. PICK v : v = u \o t /\ v \in Seq(Chars) /\ Len(v) = l
      BY <3>2
    <3>4. ASSUME NEW k \in 1..l PROVE s[k] = v[k]
      <4>1. CASE k = 1
        BY <2>5, <3>2, <3>3, <4>1
      <4>2. CASE k # 1
        <5>1. k - 1 \in 1..(l - 1) /\ (k - 1) + 1 = k /\ 1 + (k - 1) = k
          BY <1>2, <4>2
        <5>2. s[(k - 1) + 1] = t[k - 1] /\ v[1 + (k - 1)] = t[k - 1]
          BY <2>6, <3>2, <3>3, <5>1
        <5> QED BY <5>1, <5>2
      <4> QED BY <4>1, <4>2
    <3>5. s = v
      <4>1. s \in Seq(Chars) /\ v \in Seq(Chars) /\ Len(s) = Len(v)
        BY <2>4, <3>3
      <4>2. \A k \in 1..Len(s) : s[k] = v[k]
        BY <2>4, <3>4
      <4> QED BY <4>1, <4>2, SeqEqual
    <3> QED BY <3>1, <3>3, <3>5
  <2>8. ~(n \div radix = 0)
    BY <2>1
  <2> QED BY <1>3, <2>1, <2>3, <2>4, <2>7, <2>8
<1> QED BY <1>1, <1>5, <1>6

\* _itoa writes the numeral of a number for which the buffer is long enough.
LEMMA ItoaWrites ==
  ASSUME PR!PrintmAssumption, NEW radix \in PR!Bases, NEW number \in Nat,
         number < Pow(radix, BufSize), NEW digits, AreDigits(digits), digits[1] = "0"
  PROVE  /\ PR!_itoa(number, radix, digits) = PR!Numeral(number, radix, digits)
         /\ PR!Numeral(number, radix, digits) \in Seq(Chars)
<1>1. BufSize \in Nat /\ \A q \in 0..BufSize : Pow(radix, q) \in Nat \ {0}
  BY PowersAre
<1> DEFINE Value(f, n) ==
             IF n = 0 THEN <<>> ELSE <<digits[(n % radix) + 1]>> \o f[n \div radix]
           Is(f) == f = [n \in 0..number |-> Value(f, n)]
           w == [n \in 0..number |-> IF n = 0 THEN <<>> ELSE Low(n, radix, digits)]
           all == CHOOSE f : Is(f)
<1>2. ASSUME NEW n \in 0..number
      PROVE  n \div radix \in 0..number /\ (n # 0 => n \div radix < n)
  <2>1. n \in Nat
    OBVIOUS
  <2>2. n \div radix \in Nat /\ (n > 0 => n \div radix < n) /\ (n \div radix = 0 <=> n < radix)
    BY <2>1, Shrinks
  <2>3. CASE n = 0
    <3>1. radix \in Nat \ {0}
      BY PowersAre
    <3> QED BY <2>2, <2>3, <3>1
  <2>4. CASE n # 0
    BY <2>2, <2>4
  <2> QED BY <2>3, <2>4
<1>3. ASSUME NEW n \in 0..number PROVE w[n] = Value(w, n)
  <2>1. CASE n = 0
    BY <2>1
  <2>2. CASE n # 0
    <3>1. n \in Nat \ {0} /\ n < Pow(radix, BufSize)
      BY <1>1, <2>2
    <3>2. w[n] = <<digits[(n % radix) + 1]>> \o
                   (IF n \div radix = 0 THEN <<>> ELSE Low(n \div radix, radix, digits))
      BY <2>2, <3>1, LowStep
    <3>3. w[n \div radix] = IF n \div radix = 0 THEN <<>> ELSE Low(n \div radix, radix, digits)
      BY <1>2
    <3> HIDE DEF w
    <3> QED BY <2>2, <3>2, <3>3
  <2> QED BY <2>1, <2>2
<1>4. Is(w)
  <2>1. w = [n \in 0..number |-> w[n]]
    OBVIOUS
  <2> HIDE DEF Value, w
  <2> QED BY <1>3, <2>1
<1>5. Is(all)
  <2> HIDE DEF Is
  <2> QED BY <1>4
<1> HIDE DEF all
<1>6. \A n \in 0..number : all[n] = Value(all, n)
  <2> HIDE DEF Value
  <2> QED BY <1>5
<1> DEFINE T == {n \in 0..number : all[n] # w[n]}
<1>7. T = {}
  <2> SUFFICES ASSUME T # {} PROVE FALSE
    OBVIOUS
  <2>1. PICK x \in T : \A y \in T : x <= y
    <3>1. T \in SUBSET Nat
      OBVIOUS
    <3> HIDE DEF T
    <3> QED BY <3>1, Least
  <2> HIDE DEF w
  <2>2. x \in 0..number /\ x # 0
    BY <1>3, <1>6, <2>1
  <2>3. x \div radix \in 0..number /\ x \div radix < x
    BY <1>2, <2>2
  <2>4. x \div radix \notin T
    <3> HIDE DEF T
    <3> QED BY <2>1, <2>2, <2>3
  <2>5. all[x \div radix] = w[x \div radix]
    BY <2>3, <2>4
  <2> QED BY <1>3, <1>6, <2>1, <2>2, <2>5
<1>8. all[number] = IF number = 0 THEN <<>> ELSE Low(number, radix, digits)
  <2>1. number \in 0..number
    OBVIOUS
  <2>2. number \notin T
    <3> HIDE DEF T
    <3> QED BY <1>7
  <2>3. all[number] = w[number]
    BY <2>1, <2>2
  <2> QED BY <2>1, <2>3
<1>9. PR!_itoa(number, radix, digits) =
        IF all[number] = <<>> THEN <<"0">>
        ELSE PR!Reverse(SubSeq(all[number], 1,
               IF Len(all[number]) < BufSize THEN Len(all[number]) ELSE BufSize))
  BY DEF PR!_itoa, all
<1>10. PICK l \in 1..BufSize : l = PR!Places(number, radix)
  BY PlacesAre
<1>11. PICK numeral : /\ numeral = PR!Numeral(number, radix, digits)
                      /\ numeral = [p \in 1..l |->
                           digits[((number \div Pow(radix, l - p)) % radix) + 1]]
  BY <1>10 DEF PR!Numeral, Pow
<1>12. CASE number = 0
  <2>1. radix \in Nat \ {0, 1} /\ Pow(radix, 0) = 1
    BY PowersAre
  <2>2. l = 1
    BY <1>10, <1>12, <2>1, PlacesDown
  <2>3. \A p \in 1..1 : l - p = 0
    BY <2>2
  <2>4. (number \div Pow(radix, 0)) % radix = 0
    <3>1. 0 \div 1 = 0
      OBVIOUS
    <3>2. 0 % radix = 0
      BY <2>1, Shrinks, <1>12
    <3> QED BY <1>12, <2>1, <3>1, <3>2
  <2>5. numeral = [p \in 1..1 |-> "0"]
    BY <1>11, <2>2, <2>3, <2>4
  <2>6. numeral = <<"0">>
    BY <2>5
  <2>7. <<"0">> \in Seq(Chars)
    BY SingleIs DEF AreDigits
  <2> QED BY <1>8, <1>9, <1>11, <1>12, <2>6, <2>7
<1>13. CASE number # 0
  <2>1. PICK s : s = Low(number, radix, digits) /\ s \in Seq(Chars) /\ Len(s) = l
    BY <1>10, LowIs
  <2>2. all[number] = s /\ s # <<>>
    <3>1. Len(<<>>) = 0
      OBVIOUS
    <3> QED BY <1>8, <1>10, <1>13, <2>1, <3>1
  <2>3. (IF Len(s) < BufSize THEN Len(s) ELSE BufSize) = Len(s)
    BY <1>1, <1>10, <2>1
  <2>4. SubSeq(s, 1, Len(s)) = s
    BY <2>1, SubSeqFull
  <2>5. PR!_itoa(number, radix, digits) = [p \in 1..l |-> s[(l - p) + 1]]
    BY <1>9, <2>1, <2>2, <2>3, <2>4 DEF PR!Reverse
  <2>6. ASSUME NEW p \in 1..l
        PROVE  /\ s[(l - p) + 1] = digits[((number \div Pow(radix, l - p)) % radix) + 1]
               /\ s[(l - p) + 1] \in Chars
    <3>1. (l - p) + 1 \in 1..l /\ ((l - p) + 1) - 1 = l - p
      BY <1>1, <1>10
    <3>2. s[(l - p) + 1] \in Chars
      BY <2>1, <3>1, ElementOfSeq
    <3> QED BY <1>10, <2>1, <3>1, <3>2 DEF Low
  <2>7. PR!_itoa(number, radix, digits) = numeral
    BY <1>11, <2>5, <2>6
  <2>8. numeral \in Seq(Chars)
    <3>1. numeral = [p \in 1..l |-> s[(l - p) + 1]]
      BY <2>5, <2>7
    <3>2. l \in Nat
      BY <1>1, <1>10
    <3> QED BY <2>6, <3>1, <3>2
  <2> QED BY <1>11, <2>7, <2>8
<1> QED BY <1>12, <1>13

\* Dividing an integer with remainder.
LEMMA Modulo ==
  ASSUME NEW w \in Nat \ {0}, NEW n \in Int
  PROVE  /\ n % w \in 0..(w - 1) /\ \E q \in Int : n = w * q + (n % w)
         /\ (w * n) % w = 0
<1>1. ASSUME NEW m \in Int PROVE m % w \in 0..(w - 1) /\ \E q \in Int : m = w * q + (m % w)
  <2>1. m % w \in 0..(w - 1)
    OBVIOUS
  <2>2. m \div w \in Int
    OBVIOUS
  <2>3. m = w * (m \div w) + (m % w)
    OBVIOUS
  <2> QED BY <2>1, <2>2, <2>3
<1>2. (w * n) % w = 0
  <2>1. PICK p \in Int : p = w * n
    OBVIOUS
  <2>2. PICK r \in 0..(w - 1) : r = p % w
    BY <1>1
  <2>3. PICK q \in Int : p = w * q + r
    BY <1>1, <2>2
  <2>4. PICK d \in Int : d = n - q
    OBVIOUS
  <2>5. w * d = r
    <3>1. w * (n - q) = w * n - w * q
      OBVIOUS
    <3> QED BY <2>1, <2>3, <2>4, <3>1
  <2>6. CASE d >= 1
    <3>1. w * d >= w
      BY <2>6
    <3> QED BY <2>5, <3>1
  <2>7. CASE d <= -1
    <3>1. w * d <= -w
      BY <2>7
    <3> QED BY <2>5, <3>1
  <2>8. CASE d = 0
    BY <2>1, <2>2, <2>5, <2>8
  <2> QED BY <2>6, <2>7, <2>8
<1> QED BY <1>1, <1>2

\* The number of values of a type.
ValuesOf(length) == 2^Bits[length]
HalfOf(length)   == 2^(Bits[length] - 1)

LEMMA ValuesAre ==
  ASSUME PR!PrintmAssumption, NEW length \in PR!Lengths
  PROVE  /\ ValuesOf(length) \in Nat \ {0} /\ HalfOf(length) \in Nat \ {0}
         /\ ValuesOf(length) = 2 * HalfOf(length)
         /\ \A radix \in PR!Bases : ValuesOf(length) <= Pow(radix, BufSize)
<1>1. /\ HalfOf(length) \in Nat \ {0} /\ ValuesOf(length) = 2 * HalfOf(length)
      /\ \A radix \in PR!Bases : ValuesOf(length) <= Pow(radix, BufSize)
  BY DEF PR!PrintmAssumption, PR!Powers, ValuesOf, HalfOf, Pow
<1> QED BY <1>1

\* An unsigned value has a numeral.
LEMMA UnsignedIs ==
  ASSUME PR!PrintmAssumption, NEW length \in PR!Lengths, NEW n \in Int, NEW radix \in PR!Bases
  PROVE  /\ PR!AsUnsigned(n, length) = n % 2^Bits[length]
         /\ PR!AsUnsigned(n, length) \in Nat
         /\ PR!AsUnsigned(n, length) < Pow(radix, BufSize)
<1>1. PICK w \in Nat \ {0} : w = ValuesOf(length) /\ w <= Pow(radix, BufSize)
  BY ValuesAre
<1>2. n % w \in 0..(w - 1)
  BY Modulo
<1>3. Pow(radix, BufSize) \in Nat
  <2>1. BufSize \in 0..BufSize
    BY PowersAre
  <2> QED BY <2>1, PowersAre
<1>4. n % w \in Nat /\ n % w < Pow(radix, BufSize)
  BY <1>1, <1>2, <1>3
<1> QED BY <1>1, <1>4 DEF PR!AsUnsigned, ValuesOf

\* A signed value is the number that differs from it by a multiple, and its
\* magnitude has a numeral.
LEMMA SignedIs ==
  ASSUME PR!PrintmAssumption, NEW length \in PR!Lengths, NEW n \in Int, NEW radix \in PR!Bases
  PROVE  /\ PR!AsSigned(n, length) = PR!Truncated(n, Bits[length])
         /\ PR!AsSigned(n, length) \in Int
         /\ PR!AsSigned(n, length) < Pow(radix, BufSize)
         /\ -PR!AsSigned(n, length) < Pow(radix, BufSize)
<1>1. PICK w \in Nat \ {0}, h \in Nat \ {0} :
        w = ValuesOf(length) /\ h = HalfOf(length) /\ w = 2 * h /\ w <= Pow(radix, BufSize)
  BY ValuesAre
<1>2. PICK u \in 0..(w - 1), q \in Int : u = n % w /\ n = w * q + u
  BY Modulo
<1>3. PICK m \in Int : m = IF u >= h THEN u - w ELSE u
  BY <1>2
<1>4. PR!AsSigned(n, length) = m
  BY <1>1, <1>2, <1>3 DEF PR!AsSigned, PR!AsUnsigned, ValuesOf, HalfOf
<1>5. m \in (-h)..(h - 1)
  <2>1. u \in Int /\ 0 <= u /\ u < 2 * h
    BY <1>1, <1>2
  <2>2. CASE u >= h
    <3>1. m = u - 2 * h
      BY <1>1, <1>3, <2>2
    <3> QED BY <2>1, <2>2, <3>1
  <2>3. CASE ~(u >= h)
    <3>1. m = u
      BY <1>3, <2>3
    <3> QED BY <2>1, <2>3, <3>1
  <2> QED BY <2>2, <2>3
<1>6. (n - m) % w = 0
  <2>1. CASE u >= h
    <3>1. n - m = w * (q + 1)
      BY <1>2, <1>3, <2>1
    <3> QED BY <3>1, Modulo
  <2>2. CASE ~(u >= h)
    <3>1. n - m = w * q
      BY <1>2, <1>3, <2>2
    <3> QED BY <3>1, Modulo
  <2> QED BY <2>1, <2>2
<1>7. ASSUME NEW k \in (-h)..(h - 1), (n - k) % w = 0 PROVE k = m
  <2>1. PICK x \in Int : n - k = w * x + 0
    <3>1. n - k \in Int
      OBVIOUS
    <3> QED BY <1>7, <3>1, Modulo
  <2>2. PICK y \in Int : n - m = w * y + 0
    <3>1. n - m \in Int
      OBVIOUS
    <3> QED BY <1>6, <3>1, Modulo
  <2>3. PICK d \in Int : d = y - x
    OBVIOUS
  <2>4. k - m = w * d
    <3>1. w * (y - x) = w * y - w * x
      OBVIOUS
    <3> QED BY <2>1, <2>2, <2>3, <3>1
  <2>5. CASE d >= 1
    <3>1. w * d >= w
      BY <2>5
    <3> QED BY <1>1, <1>5, <2>4, <3>1
  <2>6. CASE d <= -1
    <3>1. w * d <= -w
      BY <2>6
    <3> QED BY <1>1, <1>5, <2>4, <3>1
  <2>7. CASE d = 0
    BY <2>4, <2>7
  <2> QED BY <2>5, <2>6, <2>7
<1>8. PR!Truncated(n, Bits[length]) = m
  <2>1. PR!Truncated(n, Bits[length]) = CHOOSE k \in (-h)..(h - 1) : (n - k) % w = 0
    BY <1>1 DEF PR!Truncated, ValuesOf, HalfOf
  <2> QED BY <1>5, <1>6, <1>7, <2>1
<1>9. Pow(radix, BufSize) \in Nat
  <2>1. BufSize \in 0..BufSize
    BY PowersAre
  <2> QED BY <2>1, PowersAre
<1>10. m < Pow(radix, BufSize) /\ -m < Pow(radix, BufSize)
  BY <1>1, <1>5, <1>9
<1> QED BY <1>4, <1>8, <1>10

-----------------------------------------------------------------------------
(***************************************************************************)
(* printm: directives.                                                     *)
(***************************************************************************)

\* The digits are characters, and differ.
LEMMA DigitsAre ==
  /\ AreDigits(PR!Digits) /\ PR!Digits[1] = "0"
  /\ AreDigits(PR!Capital) /\ PR!Capital[1] = "0"
<1>1. \A n \in 1..16 : PR!Digits[n] \in Chars
  BY DEF PR!Digits, Chars
<1>2. \A n \in 1..16 : PR!Capital[n] \in Chars
  BY DEF PR!Digits, PR!Capital, Chars
<1>3. AreDigits(PR!Digits) /\ PR!Digits[1] = "0"
  BY <1>1 DEF PR!Digits, AreDigits
<1>4. AreDigits(PR!Capital) /\ PR!Capital[1] = "0"
  BY <1>2 DEF PR!Digits, PR!Capital, AreDigits
<1> QED BY <1>3, <1>4

\* One character, repeated.
LEMMA Repeated ==
  ASSUME NEW D, NEW c \in D, NEW k \in Nat
  PROVE  [n \in 1..k |-> c] \in Seq(D)
OBVIOUS

\* A field is characters.
LEMMA FieldChars ==
  ASSUME NEW d, NEW prefix \in Seq(Chars), NEW number \in Seq(Chars), PR!Columns(d) \in Nat
  PROVE  PR!Field(d, prefix, number) \in Seq(Chars)
<1>1. PICK body \in Seq(Chars) : body = prefix \o number /\ Len(body) \in Nat
  BY Joined, LenProperties
<1>2. PICK c \in Chars : c = IF PR!Has(d, "0") /\ ~PR!Has(d, "-") THEN "0" ELSE " "
  BY DEF Chars, Marks
<1>3. PICK pad \in Seq(Chars) : pad = [n \in 1..(PR!Columns(d) - Len(body)) |-> c]
  <2>1. PICK k \in Nat : 1..k = 1..(PR!Columns(d) - Len(body))
    <3>1. CASE PR!Columns(d) > Len(body)
      <4>1. PR!Columns(d) - Len(body) \in Nat
        BY <1>1, <3>1
      <4> QED BY <4>1
    <3>2. CASE ~(PR!Columns(d) > Len(body))
      <4>1. 1..0 = 1..(PR!Columns(d) - Len(body)) /\ 0 \in Nat
        BY <1>1, <3>2
      <4> QED BY <4>1
    <3> QED BY <3>1, <3>2
  <2>2. [n \in 1..k |-> c] \in Seq(Chars)
    BY <1>2, Repeated
  <2> QED BY <2>1, <2>2
<1>4. /\ body \o pad \in Seq(Chars) /\ pad \o body \in Seq(Chars)
      /\ prefix \o pad \in Seq(Chars) /\ (prefix \o pad) \o number \in Seq(Chars)
  BY Joined
<1>5. PR!Field(d, prefix, number) =
        CASE PR!Has(d, "-") -> body \o pad
          [] ~PR!Has(d, "-") /\ PR!Has(d, "0") -> prefix \o pad \o number
          [] OTHER -> pad \o body
  BY <1>1, <1>2, <1>3 DEF PR!Field
<1> QED BY <1>4, <1>5

\* A number between its prefix and its padding.
LEMMA LayoutIs ==
  ASSUME NEW d, NEW prefix \in Seq(Chars), NEW number \in Seq(Chars),
         "-" \in flags <=> PR!Has(d, "-"), "0" \in flags <=> PR!Has(d, "0"),
         fdwidth = PR!Columns(d), fdwidth \in Nat
  PROVE  PR!Layout(prefix, number) = PR!Field(d, prefix, number)
<1> DEFINE left == "-" \in flags
           zero == ~left /\ "0" \in flags
<1>1. /\ left <=> PR!Has(d, "-")
      /\ zero <=> PR!Has(d, "0") /\ ~PR!Has(d, "-")
      /\ zero => ~left
  OBVIOUS
<1>2. PICK p, l \in Nat : p = Len(prefix) /\ l = Len(number)
  BY LenProperties
<1>3. PICK body : body = prefix \o number /\ body \in Seq(Chars) /\ Len(body) = p + l
  BY <1>2, Joined
<1>4. PICK c \in Chars : c = IF zero THEN "0" ELSE " "
  BY DEF Chars, Marks
<1> HIDE DEF left, zero
<1>5. PICK k \in Nat : k = IF fdwidth > p + l THEN fdwidth - (p + l) ELSE 0
  BY <1>2
<1>6. PICK pad : pad = [n \in 1..k |-> c] /\ pad \in Seq(Chars)
  <2>1. [n \in 1..k |-> c] \in Seq(Chars)
    BY <1>4, <1>5, Repeated
  <2> QED BY <2>1
<1>7. pad = [n \in 1..(PR!Columns(d) - Len(body)) |->
               IF PR!Has(d, "0") /\ ~PR!Has(d, "-") THEN "0" ELSE " "]
  <2>1. 1..k = 1..(PR!Columns(d) - Len(body))
    BY <1>2, <1>3, <1>5
  <2> QED BY <1>1, <1>4, <1>6, <2>1
<1>8. PR!Layout(prefix, number) =
        (IF left \/ zero THEN prefix ELSE <<>>)
          \o (IF left THEN number ELSE <<>>)
          \o pad
          \o (IF left \/ zero THEN <<>> ELSE prefix)
          \o (IF left THEN <<>> ELSE number)
  BY <1>1, <1>2, <1>4, <1>5, <1>6 DEF PR!Layout, left, zero
<1>9. PR!Field(d, prefix, number) =
        CASE left -> body \o pad
          [] zero -> prefix \o pad \o number
          [] OTHER -> pad \o body
  BY <1>1, <1>3, <1>7 DEF PR!Field
<1>10. /\ body \o pad \in Seq(Chars) /\ pad \o body \in Seq(Chars)
       /\ prefix \o pad \in Seq(Chars) /\ (prefix \o pad) \o number \in Seq(Chars)
       /\ pad \o prefix \in Seq(Chars)
  BY <1>3, <1>6, Joined
<1>11. \A s \in Seq(Chars) : s \o <<>> = s /\ <<>> \o s = s
  BY ConcatEmptySeq
<1>12. CASE left
  <2>1. PR!Layout(prefix, number) = prefix \o number \o pad \o <<>> \o <<>>
    BY <1>8, <1>12
  <2>2. PR!Layout(prefix, number) = body \o pad \o <<>> \o <<>>
    BY <1>3, <2>1
  <2>3. body \o pad \o <<>> \o <<>> = body \o pad
    BY <1>10, <1>11
  <2>4. PR!Field(d, prefix, number) = body \o pad
    BY <1>1, <1>9, <1>12
  <2> QED BY <1>10, <2>2, <2>3, <2>4
<1>13. CASE ~left /\ zero
  <2>1. PR!Layout(prefix, number) = prefix \o <<>> \o pad \o <<>> \o number
    BY <1>8, <1>13
  <2>2. prefix \o <<>> = prefix /\ (prefix \o pad) \o <<>> = prefix \o pad
    BY <1>10, <1>11
  <2>3. PR!Layout(prefix, number) = prefix \o pad \o number
    BY <2>1, <2>2
  <2> QED BY <1>9, <1>10, <1>13, <2>3
<1>14. CASE ~left /\ ~zero
  <2>1. PR!Layout(prefix, number) = <<>> \o <<>> \o pad \o prefix \o number
    BY <1>8, <1>14
  <2>2. <<>> \o <<>> = <<>> /\ <<>> \o pad = pad
    BY <1>6, <1>11, EmptySeq
  <2>3. PR!Layout(prefix, number) = (pad \o prefix) \o number
    BY <2>1, <2>2
  <2>4. (pad \o prefix) \o number = pad \o (prefix \o number)
    BY <1>6, ConcatAssociative
  <2> QED BY <1>3, <1>9, <1>10, <1>14, <2>3, <2>4
<1> QED BY <1>12, <1>13, <1>14

\* A width has one digit or two.
LEMMA WidthIs ==
  ASSUME PR!PrintmAssumption, NEW d, PR!IsDirective(d)
  PROVE  /\ d.width = <<>> => PR!Columns(d) = 0
         /\ d.width # <<>> =>
              /\ PR!Columns(d) \in 1..99
              /\ PR!Columns(d) < 10 => d.width = <<PR!Digits[PR!Columns(d) + 1]>>
              /\ PR!Columns(d) >= 10 =>
                   d.width = <<PR!Digits[(PR!Columns(d) \div 10) + 1],
                               PR!Digits[(PR!Columns(d) % 10) + 1]>>
<1>1. d.width = <<>> => PR!Columns(d) = 0
  BY DEF PR!Columns
<1>2. ASSUME d.width # <<>>
      PROVE  /\ PR!Columns(d) \in 1..99
             /\ PR!Columns(d) < 10 => d.width = <<PR!Digits[PR!Columns(d) + 1]>>
             /\ PR!Columns(d) >= 10 =>
                  d.width = <<PR!Digits[(PR!Columns(d) \div 10) + 1],
                              PR!Digits[(PR!Columns(d) % 10) + 1]>>
  <2>1. PICK n \in 1..99 : n = PR!Columns(d) /\ PR!Numeral(n, 10, PR!Digits) = d.width
    BY <1>2 DEF PR!IsDirective, PR!Columns
  <2>2. 10 \in PR!Bases
    BY DEF PR!Bases
  <2>3. /\ BufSize \in Nat /\ BufSize > 1 /\ Pow(10, 0) = 1 /\ Pow(10, 1) = 10
        /\ \A p \in 0..(BufSize - 1) : Pow(10, p + 1) = 10 * Pow(10, p)
    BY <2>2, PowersAre
  <2>4. Pow(10, 2) = 100
    <3>1. 1 \in 0..(BufSize - 1) /\ 1 + 1 = 2
      BY <2>3
    <3>2. Pow(10, 1 + 1) = 10 * Pow(10, 1)
      BY <2>3, <3>1
    <3> QED BY <2>3, <3>1, <3>2
  <2>5. CASE n < 10
    <3>1. 1 \in 1..BufSize /\ n \in Nat
      BY <2>3
    <3>2. PR!Places(n, 10) = 1
      BY <2>2, <2>3, <2>5, <3>1, PlacesOnly
    <3>3. d.width = [p \in 1..1 |-> PR!Digits[((n \div Pow(10, 1 - p)) % 10) + 1]]
      BY <2>1, <3>2 DEF PR!Numeral, Pow
    <3>4. \A p \in 1..1 : 1 - p = 0
      OBVIOUS
    <3>5. (n \div Pow(10, 0)) % 10 = n
      BY <2>3, <2>5
    <3>6. d.width = [p \in 1..1 |-> PR!Digits[n + 1]]
      BY <3>3, <3>4, <3>5
    <3>7. d.width = <<PR!Digits[n + 1]>>
      BY <3>6
    <3> QED BY <2>1, <2>5, <3>7
  <2>6. CASE n >= 10
    <3>1. 2 \in 1..BufSize /\ n \in Nat /\ 2 - 1 = 1
      BY <2>3
    <3>2. PR!Places(n, 10) = 2
      BY <2>2, <2>3, <2>4, <2>6, <3>1, PlacesOnly
    <3>3. d.width = [p \in 1..2 |-> PR!Digits[((n \div Pow(10, 2 - p)) % 10) + 1]]
      BY <2>1, <3>2 DEF PR!Numeral, Pow
    <3>4. d.width = <<PR!Digits[((n \div Pow(10, 2 - 1)) % 10) + 1],
                      PR!Digits[((n \div Pow(10, 2 - 2)) % 10) + 1]>>
      BY <3>3
    <3>5. (n \div 10) % 10 = n \div 10 /\ n \div 1 = n
      BY <2>6
    <3>6. 2 - 1 = 1 /\ 2 - 2 = 0
      OBVIOUS
    <3>7. /\ (n \div Pow(10, 2 - 1)) % 10 = n \div 10
          /\ (n \div Pow(10, 2 - 2)) % 10 = n % 10
      BY <2>3, <3>5, <3>6
    <3> QED BY <2>1, <2>6, <3>4, <3>7
  <2> QED BY <2>1, <2>5, <2>6
<1> QED BY <1>1, <1>2

\* The modifiers.
LEMMA ModifierIs ==
  ASSUME NEW length \in PR!Lengths
  PROVE  /\ PR!Modifier(length) \in Seq(Chars)
         /\ Len(PR!Modifier(length)) =
              IF length = "" THEN 0 ELSE IF length \in {"hh", "ll"} THEN 2 ELSE 1
         /\ \A k \in 1..Len(PR!Modifier(length)) :
              PR!Modifier(length)[k] =
                IF length \in {"h", "hh"} THEN "h" ELSE IF length = "z" THEN "z" ELSE "l"
<1>1. "h" \in Chars /\ "l" \in Chars /\ "z" \in Chars
  BY DEF Chars, Marks
<1>2. length \in {"", "hh", "h", "l", "ll", "z"}
  BY DEF PR!Lengths
<1>3. CASE length = ""
  <2>1. PR!Modifier(length) = <<>>
    BY <1>3 DEF PR!Modifier
  <2>2. <<>> \in Seq(Chars) /\ Len(<<>>) = 0
    BY EmptySeq
  <2>3. 1..0 = {}
    OBVIOUS
  <2>4. ASSUME NEW k \in 1..Len(PR!Modifier(length)) PROVE FALSE
    BY <2>1, <2>2, <2>3
  <2>5. PR!Modifier(length) \in Seq(Chars) /\ Len(PR!Modifier(length)) = 0
    BY <2>1, <2>2
  <2>6. 0 = IF length = "" THEN 0 ELSE IF length \in {"hh", "ll"} THEN 2 ELSE 1
    BY <1>3
  <2> QED BY <2>4, <2>5, <2>6
<1>4. CASE length = "hh"
  BY <1>1, <1>4 DEF PR!Modifier
<1>5. CASE length = "h"
  BY <1>1, <1>5 DEF PR!Modifier
<1>6. CASE length = "l"
  BY <1>1, <1>6 DEF PR!Modifier
<1>7. CASE length = "ll"
  BY <1>1, <1>7 DEF PR!Modifier
<1>8. CASE length = "z"
  BY <1>1, <1>8 DEF PR!Modifier
<1> QED BY <1>2, <1>3, <1>4, <1>5, <1>6, <1>7, <1>8

\* What a directive prints, by its conversion.
Natural(d)      == d.number % 2^Bits[IF d.conversion = "p" THEN "l" ELSE d.length]
Whole(d)        == PR!Truncated(d.number, Bits[d.length])
Magnitude(d)    == IF Whole(d) < 0 THEN -Whole(d) ELSE Whole(d)
Marked(d, mark) == IF PR!Has(d, "#") THEN mark ELSE <<>>

LEMMA PrintedBy ==
  ASSUME NEW d, d.conversion \in PR!Conversions
  PROVE  /\ d.conversion \in {"d", "i"} =>
              PR!Printed(d) =
                PR!Field(d, PR!Sign(d, Whole(d)), PR!Numeral(Magnitude(d), 10, PR!Digits))
         /\ d.conversion = "u" =>
              PR!Printed(d) = PR!Field(d, <<>>, PR!Numeral(Natural(d), 10, PR!Digits))
         /\ d.conversion = "o" =>
              PR!Printed(d) =
                PR!Field(d, Marked(d, <<"0">>), PR!Numeral(Natural(d), 8, PR!Digits))
         /\ d.conversion \in {"x", "p"} =>
              PR!Printed(d) =
                PR!Field(d, Marked(d, <<"0", "x">>), PR!Numeral(Natural(d), 16, PR!Digits))
         /\ d.conversion = "X" =>
              PR!Printed(d) =
                PR!Field(d, Marked(d, <<"0", "X">>), PR!Numeral(Natural(d), 16, PR!Capital))
         /\ d.conversion = "c" => PR!Printed(d) = <<Head(d.string)>>
         /\ d.conversion = "s" =>
              PR!Printed(d) =
                SubSeq(d.string, 1, IF PR!Columns(d) \in 1..Len(d.string) THEN PR!Columns(d)
                                    ELSE Len(d.string))
         /\ d.conversion = "%" => PR!Printed(d) = <<"%">>
         /\ d.conversion \in PR!Unsupported => PR!Printed(d) = <<>>
<1>1. CASE d.conversion \in {"d", "i"}
  BY <1>1 DEF PR!Printed, PR!Unsupported, Whole, Magnitude
<1>2. CASE d.conversion = "u"
  BY <1>2 DEF PR!Printed, PR!Unsupported, Natural
<1>3. CASE d.conversion = "o"
  BY <1>3 DEF PR!Printed, PR!Unsupported, Natural, Marked
<1>4. CASE d.conversion \in {"x", "p"}
  BY <1>4 DEF PR!Printed, PR!Unsupported, Natural, Marked
<1>5. CASE d.conversion = "X"
  BY <1>5 DEF PR!Printed, PR!Unsupported, Natural, Marked
<1>6. CASE d.conversion = "c"
  BY <1>6 DEF PR!Printed, PR!Unsupported
<1>7. CASE d.conversion = "s"
  BY <1>7 DEF PR!Printed, PR!Unsupported
<1>8. CASE d.conversion = "%"
  BY <1>8 DEF PR!Printed, PR!Unsupported
<1>9. CASE d.conversion \in PR!Unsupported
  BY <1>9 DEF PR!Printed, PR!Unsupported
<1> QED BY <1>1, <1>2, <1>3, <1>4, <1>5, <1>6, <1>7, <1>8, <1>9 DEF PR!Conversions

\* Two characters.
LEMMA PairIs ==
  ASSUME NEW D, NEW c \in D, NEW e \in D
  PROVE  <<c, e>> \in Seq(D) /\ Len(<<c, e>>) = 2 /\ <<c, e>>[1] = c /\ <<c, e>>[2] = e
OBVIOUS

\* The prefixes are characters.
LEMMA PrefixesAre ==
  ASSUME NEW d, NEW n
  PROVE  /\ PR!Sign(d, n) \in Seq(Chars) /\ <<>> \in Seq(Chars)
         /\ Marked(d, <<"0">>) \in Seq(Chars)
         /\ Marked(d, <<"0", "x">>) \in Seq(Chars) /\ Marked(d, <<"0", "X">>) \in Seq(Chars)
<1>1. /\ "0" \in Chars /\ "x" \in Chars /\ "X" \in Chars
      /\ "-" \in Chars /\ "+" \in Chars /\ " " \in Chars
  BY DEF Chars, Marks
<1>2. <<>> \in Seq(Chars)
  BY EmptySeq
<1>3. /\ <<"-">> \in Seq(Chars) /\ <<"+">> \in Seq(Chars) /\ <<" ">> \in Seq(Chars)
      /\ <<"0">> \in Seq(Chars)
  BY <1>1, SingleIs
<1>4. <<"0", "x">> \in Seq(Chars)
  BY <1>1, PairIs
<1>6. <<"0", "X">> \in Seq(Chars)
  BY <1>1, PairIs
<1>5. PR!Sign(d, n) \in Seq(Chars)
  BY <1>2, <1>3 DEF PR!Sign
<1> QED BY <1>2, <1>3, <1>4, <1>5, <1>6 DEF Marked

\* The number that is printed, and its numeral.
LEMMA NumbersAre ==
  ASSUME PR!PrintmAssumption, NEW d, PR!IsDirective(d), NEW radix \in PR!Bases
  PROVE  /\ Natural(d) \in Nat /\ Natural(d) < Pow(radix, BufSize)
         /\ Whole(d) \in Int
         /\ Magnitude(d) \in Nat /\ Magnitude(d) < Pow(radix, BufSize)
         /\ PR!_itoa(Natural(d), radix, PR!Digits) = PR!Numeral(Natural(d), radix, PR!Digits)
         /\ PR!_itoa(Natural(d), radix, PR!Capital) = PR!Numeral(Natural(d), radix, PR!Capital)
         /\ PR!_itoa(Magnitude(d), radix, PR!Digits) = PR!Numeral(Magnitude(d), radix, PR!Digits)
         /\ PR!Numeral(Natural(d), radix, PR!Digits) \in Seq(Chars)
         /\ PR!Numeral(Natural(d), radix, PR!Capital) \in Seq(Chars)
         /\ PR!Numeral(Magnitude(d), radix, PR!Digits) \in Seq(Chars)
<1>1. d.number \in Int /\ d.length \in PR!Lengths
  BY DEF PR!IsDirective
<1>2. Natural(d) \in Nat /\ Natural(d) < Pow(radix, BufSize)
  <2>1. PICK length \in PR!Lengths : length = IF d.conversion = "p" THEN "l" ELSE d.length
    BY <1>1 DEF PR!Lengths
  <2> QED BY <1>1, <2>1, UnsignedIs DEF Natural
<1>3. Whole(d) \in Int /\ Whole(d) < Pow(radix, BufSize) /\ -Whole(d) < Pow(radix, BufSize)
  BY <1>1, SignedIs DEF Whole
<1>4. Magnitude(d) \in Nat /\ Magnitude(d) < Pow(radix, BufSize)
  BY <1>3 DEF Magnitude
<1>5. /\ AreDigits(PR!Digits) /\ PR!Digits[1] = "0"
      /\ AreDigits(PR!Capital) /\ PR!Capital[1] = "0"
  BY DigitsAre
<1> QED BY <1>2, <1>3, <1>4, <1>5, ItoaWrites

\* How wide a field is.
LEMMA ColumnsAre ==
  ASSUME PR!PrintmAssumption, NEW d, PR!IsDirective(d)
  PROVE  PR!Columns(d) \in Nat
<1>1. CASE d.width # <<>>
  <2>1. PR!Columns(d) \in 1..99
    BY <1>1, WidthIs
  <2> QED BY <2>1
<1>2. CASE d.width = <<>>
  <2>1. PR!Columns(d) = 0
    BY <1>2, WidthIs
  <2> QED BY <2>1
<1> QED BY <1>1, <1>2

-----------------------------------------------------------------------------
(***************************************************************************)
(* printm: conversions.                                                    *)
(***************************************************************************)

\* What the interpreter knows of a directive when it reads its conversion.
Ready(d) ==
  /\ PR!Special /\ PR!char = d.conversion
  /\ \A flag \in PR!Flags : flag \in flags <=> PR!Has(d, flag)
  /\ "hh" \in flags <=> d.length = "hh"
  /\ "h" \in flags <=> d.length \in {"h", "hh"}
  /\ "ll" \in flags <=> d.length = "ll"
  /\ "l" \in flags <=> d.length \in {"l", "ll"}
  /\ fdwidth = PR!Columns(d)
  /\ d.conversion \notin {"%"} \cup PR!Unsupported => PR!Arguments[ap + 1] = d

\* The type that is read is as wide as the one the directive names.
LEMMA LengthReadIs ==
  ASSUME PR!PrintmAssumption, NEW d, PR!IsDirective(d), Ready(d)
  PROVE  PR!LengthRead \in PR!Lengths /\ Bits[PR!LengthRead] = Bits[d.length]
<1>1. d.length \in {"", "hh", "h", "l", "ll", "z"}
  BY DEF PR!IsDirective, PR!Lengths
<1>2. PR!LengthRead = IF d.length = "z" THEN "" ELSE d.length
  <2>1. CASE d.length = "hh"
    BY <2>1 DEF PR!LengthRead, Ready
  <2>2. CASE d.length = "ll"
    BY <2>2 DEF PR!LengthRead, Ready
  <2>3. CASE d.length = "h"
    BY <2>3 DEF PR!LengthRead, Ready
  <2>4. CASE d.length = "l"
    BY <2>4 DEF PR!LengthRead, Ready
  <2>5. CASE d.length \in {"", "z"}
    BY <2>5 DEF PR!LengthRead, Ready
  <2> QED BY <1>1, <2>1, <2>2, <2>3, <2>4, <2>5
<1>3. Bits["z"] = Bits[""]
  BY DEF PR!PrintmAssumption
<1> QED BY <1>1, <1>2, <1>3 DEF PR!Lengths

\* The number that is converted.
LEMMA NumbersRead ==
  ASSUME PR!PrintmAssumption, NEW d, PR!IsDirective(d), Ready(d),
         d.conversion \notin {"%"} \cup PR!Unsupported
  PROVE  /\ PR!Argument = d.number
         /\ PR!AsSigned(PR!Argument, PR!LengthRead) = Whole(d)
         /\ PR!AsUnsigned(PR!Argument, IF d.conversion = "p" THEN "l" ELSE PR!LengthRead)
              = Natural(d)
         /\ d.conversion # "p" =>
              PR!AsUnsigned(PR!Argument, PR!LengthRead) = Natural(d)
<1>1. PR!Argument = d.number /\ d.number \in Int
  BY DEF PR!Argument, Ready, PR!IsDirective
<1>2. PR!LengthRead \in PR!Lengths /\ Bits[PR!LengthRead] = Bits[d.length]
  BY LengthReadIs
<1>3. PR!AsSigned(d.number, PR!LengthRead) = Whole(d)
  <2>1. 10 \in PR!Bases
    BY DEF PR!Bases
  <2>2. PR!AsSigned(d.number, PR!LengthRead) = PR!Truncated(d.number, Bits[PR!LengthRead])
    BY <1>1, <1>2, <2>1, SignedIs
  <2> QED BY <1>2, <2>2 DEF Whole
<1>4. CASE d.conversion = "p"
  BY <1>1, <1>3, <1>4 DEF PR!AsUnsigned, Natural
<1>5. CASE d.conversion # "p"
  BY <1>1, <1>2, <1>3, <1>5 DEF PR!AsUnsigned, Natural
<1> QED BY <1>1, <1>3, <1>4, <1>5

\* What a number with a prefix is printed as.
LEMMA FieldIs ==
  ASSUME PR!PrintmAssumption, NEW d, PR!IsDirective(d), Ready(d),
         NEW prefix \in Seq(Chars), NEW number \in Seq(Chars)
  PROVE  PR!Layout(prefix, number) = PR!Field(d, prefix, number)
<1>1. ("-" \in flags <=> PR!Has(d, "-")) /\ ("0" \in flags <=> PR!Has(d, "0"))
  BY DEF Ready, PR!Flags
<1>2. fdwidth = PR!Columns(d) /\ fdwidth \in Nat
  BY ColumnsAre DEF Ready
<1> QED BY <1>1, <1>2, LayoutIs

\* The alternative form.
LEMMA PrefixRead ==
  ASSUME NEW d, Ready(d), NEW mark
  PROVE  PR!Prefix(mark) = Marked(d, mark)
BY DEF Ready, PR!Flags, PR!Prefix, Marked

\* A number that is converted is printed as the directive says.
LEMMA NumberPrints ==
  ASSUME PR!PrintmAssumption, NEW d, PR!IsDirective(d), Ready(d)
  PROVE  /\ PR!SignedDecimal => PR!EndSpecial(PR!Printed(d), 1)
         /\ PR!UnsignedDecimal => PR!EndSpecial(PR!Printed(d), 1)
         /\ PR!Octal => PR!EndSpecial(PR!Printed(d), 1)
         /\ PR!LowerHexadecimal => PR!EndSpecial(PR!Printed(d), 1)
         /\ PR!UpperHexadecimal => PR!EndSpecial(PR!Printed(d), 1)
<1>1. d.conversion \in PR!Conversions /\ PR!char = d.conversion
  BY DEF PR!IsDirective, Ready
<1>2. 8 \in PR!Bases /\ 10 \in PR!Bases /\ 16 \in PR!Bases
  BY DEF PR!Bases
<1>3. ASSUME PR!SignedDecimal PROVE PR!EndSpecial(PR!Printed(d), 1)
  <2>1. d.conversion \in {"d", "i"}
    BY <1>1, <1>3 DEF PR!SignedDecimal
  <2>2. PR!AsSigned(PR!Argument, PR!LengthRead) = Whole(d)
    BY <2>1, NumbersRead DEF PR!Unsupported
  <2>3. PICK sgn : sgn = PR!Sign(d, Whole(d)) /\ sgn \in Seq(Chars)
    BY PrefixesAre
  <2>4. ("+" \in flags <=> PR!Has(d, "+")) /\ (" " \in flags <=> PR!Has(d, " "))
    BY DEF Ready, PR!Flags
  <2>5. PICK numeral : /\ numeral = PR!Numeral(Magnitude(d), 10, PR!Digits)
                       /\ numeral = PR!_itoa(Magnitude(d), 10, PR!Digits)
                       /\ numeral \in Seq(Chars)
    BY <1>2, NumbersAre
  <2>6. PR!EndSpecial(PR!Layout(sgn, numeral), 1)
    BY <1>3, <2>2, <2>3, <2>4, <2>5 DEF PR!SignedDecimal, PR!Sign, Magnitude
  <2>7. PR!Layout(sgn, numeral) = PR!Field(d, sgn, numeral)
    BY <2>3, <2>5, FieldIs
  <2>8. PR!Printed(d) = PR!Field(d, sgn, numeral)
    BY <1>1, <2>1, <2>3, <2>5, PrintedBy
  <2> QED BY <2>6, <2>7, <2>8
<1>4. ASSUME PR!UnsignedDecimal PROVE PR!EndSpecial(PR!Printed(d), 1)
  <2>1. d.conversion = "u"
    BY <1>1, <1>4 DEF PR!UnsignedDecimal
  <2>2. PR!AsUnsigned(PR!Argument, PR!LengthRead) = Natural(d)
    BY <2>1, NumbersRead DEF PR!Unsupported
  <2>3. PICK numeral : /\ numeral = PR!Numeral(Natural(d), 10, PR!Digits)
                       /\ numeral = PR!_itoa(Natural(d), 10, PR!Digits)
                       /\ numeral \in Seq(Chars)
    BY <1>2, NumbersAre
  <2>4. PR!EndSpecial(PR!Layout(<<>>, numeral), 1)
    BY <1>4, <2>2, <2>3 DEF PR!UnsignedDecimal
  <2>5. PR!Layout(<<>>, numeral) = PR!Field(d, <<>>, numeral)
    BY <2>3, FieldIs, PrefixesAre
  <2>6. PR!Printed(d) = PR!Field(d, <<>>, numeral)
    BY <1>1, <2>1, <2>3, PrintedBy
  <2> QED BY <2>4, <2>5, <2>6
<1>5. ASSUME PR!Octal PROVE PR!EndSpecial(PR!Printed(d), 1)
  <2>1. d.conversion = "o"
    BY <1>1, <1>5 DEF PR!Octal
  <2>2. PR!AsUnsigned(PR!Argument, PR!LengthRead) = Natural(d)
    BY <2>1, NumbersRead DEF PR!Unsupported
  <2>3. PICK numeral : /\ numeral = PR!Numeral(Natural(d), 8, PR!Digits)
                       /\ numeral = PR!_itoa(Natural(d), 8, PR!Digits)
                       /\ numeral \in Seq(Chars)
    BY <1>2, NumbersAre
  <2>4. PICK prefix : /\ prefix = Marked(d, <<"0">>) /\ prefix = PR!Prefix(<<"0">>)
                      /\ prefix \in Seq(Chars)
    BY PrefixesAre, PrefixRead
  <2>5. PR!EndSpecial(PR!Layout(prefix, numeral), 1)
    BY <1>5, <2>2, <2>3, <2>4 DEF PR!Octal
  <2>6. PR!Layout(prefix, numeral) = PR!Field(d, prefix, numeral)
    BY <2>3, <2>4, FieldIs
  <2>7. PR!Printed(d) = PR!Field(d, prefix, numeral)
    BY <1>1, <2>1, <2>3, <2>4, PrintedBy
  <2> QED BY <2>5, <2>6, <2>7
<1>6. ASSUME PR!LowerHexadecimal PROVE PR!EndSpecial(PR!Printed(d), 1)
  <2>1. d.conversion \in {"x", "p"}
    BY <1>1, <1>6 DEF PR!LowerHexadecimal
  <2>2. PR!AsUnsigned(PR!Argument, IF d.conversion = "p" THEN "l" ELSE PR!LengthRead)
          = Natural(d)
    BY <2>1, NumbersRead DEF PR!Unsupported
  <2>3. PICK numeral : /\ numeral = PR!Numeral(Natural(d), 16, PR!Digits)
                       /\ numeral = PR!_itoa(Natural(d), 16, PR!Digits)
                       /\ numeral \in Seq(Chars)
    BY <1>2, NumbersAre
  <2>4. PICK prefix : /\ prefix = Marked(d, <<"0", "x">>) /\ prefix = PR!Prefix(<<"0", "x">>)
                      /\ prefix \in Seq(Chars)
    BY PrefixesAre, PrefixRead
  <2>5. PR!EndSpecial(PR!Layout(prefix, numeral), 1)
    BY <1>1, <1>6, <2>2, <2>3, <2>4 DEF PR!LowerHexadecimal
  <2>6. PR!Layout(prefix, numeral) = PR!Field(d, prefix, numeral)
    BY <2>3, <2>4, FieldIs
  <2>7. PR!Printed(d) = PR!Field(d, prefix, numeral)
    BY <1>1, <2>1, <2>3, <2>4, PrintedBy
  <2> QED BY <2>5, <2>6, <2>7
<1>7. ASSUME PR!UpperHexadecimal PROVE PR!EndSpecial(PR!Printed(d), 1)
  <2>1. d.conversion = "X"
    BY <1>1, <1>7 DEF PR!UpperHexadecimal
  <2>2. PR!AsUnsigned(PR!Argument, PR!LengthRead) = Natural(d)
    BY <2>1, NumbersRead DEF PR!Unsupported
  <2>3. PICK numeral : /\ numeral = PR!Numeral(Natural(d), 16, PR!Capital)
                       /\ numeral = PR!_itoa(Natural(d), 16, PR!Capital)
                       /\ numeral \in Seq(Chars)
    BY <1>2, NumbersAre
  <2>4. PICK prefix : /\ prefix = Marked(d, <<"0", "X">>) /\ prefix = PR!Prefix(<<"0", "X">>)
                      /\ prefix \in Seq(Chars)
    BY PrefixesAre, PrefixRead
  <2>5. PR!EndSpecial(PR!Layout(prefix, numeral), 1)
    BY <1>7, <2>2, <2>3, <2>4 DEF PR!UpperHexadecimal
  <2>6. PR!Layout(prefix, numeral) = PR!Field(d, prefix, numeral)
    BY <2>3, <2>4, FieldIs
  <2>7. PR!Printed(d) = PR!Field(d, prefix, numeral)
    BY <1>1, <2>1, <2>3, <2>4, PrintedBy
  <2> QED BY <2>5, <2>6, <2>7
<1> QED BY <1>3, <1>4, <1>5, <1>6, <1>7

\* The whole of a sequence.
LEMMA WholeIs ==
  ASSUME NEW D, NEW s \in Seq(D)
  PROVE  SubSeq(s, 1, Len(s)) = s /\ Len(s) \in Nat
OBVIOUS

\* The beginning of a sequence.
LEMMA BeginningIs ==
  ASSUME NEW D, NEW s \in Seq(D), NEW k \in 0..Len(s)
  PROVE  /\ SubSeq(s, 1, k) \in Seq(D) /\ Len(SubSeq(s, 1, k)) = k
         /\ \A n \in 1..k : SubSeq(s, 1, k)[n] = s[n]
OBVIOUS

\* Texts and strings are characters.
LEMMA TextsAre ==
  ASSUME NEW d, PR!IsDirective(d)
  PROVE  /\ d.text \in Seq(Chars) /\ d.string \in Seq(Chars) /\ d.flags \in Seq(Chars)
         /\ d.conversion \in Chars /\ "%" \in Chars
<1>1. /\ d.text \in Seq(STRING) /\ d.string \in Seq(STRING) /\ d.flags \in Seq(PR!Flags)
      /\ d.conversion \in PR!Conversions
  BY DEF PR!IsDirective
<1>2. /\ STRING \subseteq Chars /\ PR!Conversions \subseteq Chars
      /\ PR!Flags \subseteq Chars /\ "%" \in Chars
  BY DEF Chars, Marks, PR!Flags
<1>3. Seq(STRING) \subseteq Seq(Chars) /\ Seq(PR!Flags) \subseteq Seq(Chars)
  BY <1>2, SeqMonotonic
<1> QED BY <1>1, <1>2, <1>3

\* A string that is converted is printed as the directive says.
LEMMA StringPrints ==
  ASSUME PR!PrintmAssumption, NEW d, PR!IsDirective(d), Ready(d)
  PROVE  /\ PR!Character => PR!EndSpecial(PR!Printed(d), 1)
         /\ PR!CString => PR!EndSpecial(PR!Printed(d), 1)
         /\ PR!Percent => PR!EndSpecial(PR!Printed(d), 0)
         /\ PR!NotSupported => PR!EndSpecial(PR!Printed(d), 0)
<1>1. d.conversion \in PR!Conversions /\ PR!char = d.conversion
  BY DEF PR!IsDirective, Ready
<1>2. ASSUME PR!Character PROVE PR!EndSpecial(PR!Printed(d), 1)
  <2>1. d.conversion = "c"
    BY <1>1, <1>2 DEF PR!Character
  <2>2. PR!Arguments[ap + 1] = d
    BY <2>1 DEF Ready, PR!Unsupported
  <2>3. Head(d.string) = d.string[1]
    <3>1. d.string \in Seq(Chars) /\ d.string # <<>>
      BY <2>1, TextsAre DEF PR!IsDirective
    <3> QED BY <3>1
  <2>4. PR!EndSpecial(<<d.string[1]>>, 1)
    BY <1>2, <2>2 DEF PR!Character
  <2>5. PR!Printed(d) = <<Head(d.string)>>
    BY <1>1, <2>1, PrintedBy
  <2> QED BY <2>3, <2>4, <2>5
<1>3. ASSUME PR!CString PROVE PR!EndSpecial(PR!Printed(d), 1)
  <2>1. d.conversion = "s"
    BY <1>1, <1>3 DEF PR!CString
  <2>2. PR!Arguments[ap + 1] = d
    BY <2>1 DEF Ready, PR!Unsupported
  <2>3. PICK s \in Seq(Chars) : s = d.string
    BY TextsAre
  <2>4. SubSeq(s, 1, Len(s)) = s /\ Len(s) \in Nat
    BY WholeIs
  <2>5. PICK w \in Nat : w = PR!Columns(d) /\ w = fdwidth
    BY ColumnsAre DEF Ready
  <2>6. PR!EndSpecial(IF w > 0 /\ w < Len(s) THEN SubSeq(s, 1, w) ELSE s, 1)
    BY <1>3, <2>2, <2>3, <2>5 DEF PR!CString
  <2>7. PR!Printed(d) = SubSeq(s, 1, IF w \in 1..Len(s) THEN w ELSE Len(s))
    BY <1>1, <2>1, <2>3, <2>5, PrintedBy
  <2>8. PR!Printed(d) = IF w > 0 /\ w < Len(s) THEN SubSeq(s, 1, w) ELSE s
    <3>1. CASE w > 0 /\ w < Len(s)
      <4>1. w \in 1..Len(s)
        BY <2>4, <3>1
      <4> QED BY <2>7, <3>1, <4>1
    <3>2. CASE w = Len(s)
      BY <2>4, <2>7, <3>2
    <3>3. CASE w = 0 \/ w > Len(s)
      <4>1. w \notin 1..Len(s) /\ ~(w > 0 /\ w < Len(s))
        BY <2>4, <3>3
      <4> QED BY <2>4, <2>7, <4>1
    <3>4. PICK l \in Nat : l = Len(s)
      BY <2>4
    <3>5. (w > 0 /\ w < l) \/ w = l \/ w = 0 \/ w > l
      OBVIOUS
    <3> QED BY <3>1, <3>2, <3>3, <3>4, <3>5
  <2> QED BY <2>6, <2>8
<1>4. ASSUME PR!Percent PROVE PR!EndSpecial(PR!Printed(d), 0)
  <2>1. PR!Printed(d) = <<"%">>
    BY <1>1, <1>4, PrintedBy DEF PR!Percent
  <2> QED BY <1>4, <2>1 DEF PR!Percent
<1>5. ASSUME PR!NotSupported PROVE PR!EndSpecial(PR!Printed(d), 0)
  <2>1. PR!Printed(d) = <<>>
    BY <1>1, <1>5, PrintedBy DEF PR!NotSupported
  <2> QED BY <1>5, <2>1 DEF PR!NotSupported
<1> QED BY <1>2, <1>3, <1>4, <1>5

\* What is printed are characters.
LEMMA CharsPrinted ==
  ASSUME PR!PrintmAssumption, NEW d, PR!IsDirective(d)
  PROVE  PR!Printed(d) \in Seq(Chars)
<1>1. d.conversion \in PR!Conversions
  BY DEF PR!IsDirective
<1>2. 8 \in PR!Bases /\ 10 \in PR!Bases /\ 16 \in PR!Bases
  BY DEF PR!Bases
<1>3. ASSUME NEW prefix \in Seq(Chars), NEW number \in Seq(Chars)
      PROVE  PR!Field(d, prefix, number) \in Seq(Chars)
  BY ColumnsAre, FieldChars
<1>4. CASE d.conversion \in {"d", "i"}
  <2>1. PICK prefix : prefix = PR!Sign(d, Whole(d)) /\ prefix \in Seq(Chars)
    BY PrefixesAre
  <2>2. PICK number : number = PR!Numeral(Magnitude(d), 10, PR!Digits) /\ number \in Seq(Chars)
    BY <1>2, NumbersAre
  <2> QED BY <1>1, <1>3, <1>4, <2>1, <2>2, PrintedBy
<1>5. CASE d.conversion = "u"
  <2>1. PICK number : number = PR!Numeral(Natural(d), 10, PR!Digits) /\ number \in Seq(Chars)
    BY <1>2, NumbersAre
  <2>2. <<>> \in Seq(Chars)
    BY PrefixesAre
  <2>3. PR!Field(d, <<>>, number) \in Seq(Chars)
    BY <1>3, <2>1, <2>2
  <2> QED BY <1>1, <1>5, <2>1, <2>3, PrintedBy
<1>6. CASE d.conversion = "o"
  <2>1. PICK prefix : prefix = Marked(d, <<"0">>) /\ prefix \in Seq(Chars)
    BY PrefixesAre
  <2>2. PICK number : number = PR!Numeral(Natural(d), 8, PR!Digits) /\ number \in Seq(Chars)
    BY <1>2, NumbersAre
  <2> QED BY <1>1, <1>3, <1>6, <2>1, <2>2, PrintedBy
<1>7. CASE d.conversion \in {"x", "p"}
  <2>1. PICK prefix : prefix = Marked(d, <<"0", "x">>) /\ prefix \in Seq(Chars)
    BY PrefixesAre
  <2>2. PICK number : number = PR!Numeral(Natural(d), 16, PR!Digits) /\ number \in Seq(Chars)
    BY <1>2, NumbersAre
  <2> QED BY <1>1, <1>3, <1>7, <2>1, <2>2, PrintedBy
<1>8. CASE d.conversion = "X"
  <2>1. PICK prefix : prefix = Marked(d, <<"0", "X">>) /\ prefix \in Seq(Chars)
    BY PrefixesAre
  <2>2. PICK number : number = PR!Numeral(Natural(d), 16, PR!Capital) /\ number \in Seq(Chars)
    BY <1>2, NumbersAre
  <2> QED BY <1>1, <1>3, <1>8, <2>1, <2>2, PrintedBy
<1>9. CASE d.conversion = "c"
  <2>1. d.string \in Seq(Chars) /\ d.string # <<>>
    BY <1>9, TextsAre DEF PR!IsDirective
  <2>2. Head(d.string) \in Chars
    BY <2>1
  <2>3. <<Head(d.string)>> \in Seq(Chars)
    BY <2>2, SingleIs
  <2> QED BY <1>1, <1>9, <2>3, PrintedBy
<1>10. CASE d.conversion = "s"
  <2>1. PICK s \in Seq(Chars) : s = d.string
    BY TextsAre
  <2>2. PICK k \in 0..Len(s) : k = IF PR!Columns(d) \in 1..Len(s) THEN PR!Columns(d) ELSE Len(s)
    <3>1. Len(s) \in Nat
      BY WholeIs
    <3> QED BY <3>1
  <2>3. SubSeq(s, 1, k) \in Seq(Chars)
    BY BeginningIs
  <2> QED BY <1>1, <1>10, <2>1, <2>2, <2>3, PrintedBy
<1>11. CASE d.conversion = "%"
  <2>1. <<"%">> \in Seq(Chars)
    BY TextsAre, SingleIs
  <2> QED BY <1>1, <1>11, <2>1, PrintedBy
<1>12. CASE d.conversion \in PR!Unsupported
  <2>1. <<>> \in Seq(Chars)
    BY PrefixesAre
  <2> QED BY <1>1, <1>12, <2>1, PrintedBy
<1> QED
  BY <1>1, <1>4, <1>5, <1>6, <1>7, <1>8, <1>9, <1>10, <1>11, <1>12 DEF PR!Conversions

-----------------------------------------------------------------------------
(***************************************************************************)
(* printm: the format string, the arguments and the output.                *)
(***************************************************************************)

\* A sequence holds another one behind an offset.
Holds(s, o, t) == \A k \in 1..Len(t) : s[o + k] = t[k]

\* What two sequences that are joined hold.
LEMMA JoinHolds ==
  ASSUME NEW D, NEW s \in Seq(D), NEW t \in Seq(D)
  PROVE  /\ s \o t \in Seq(D) /\ Len(s \o t) = Len(s) + Len(t)
         /\ Holds(s \o t, 0, s) /\ Holds(s \o t, Len(s), t)
         /\ Len(s) \in Nat /\ Len(t) \in Nat
<1>1. Len(s) \in Nat /\ Len(t) \in Nat
  BY LenProperties
<1>2. \A k \in 1..Len(s) : 0 + k = k
  BY <1>1
<1> QED BY <1>1, <1>2, Joined DEF Holds

\* What is held by a part is held by the whole.
LEMMA HoldsWithin ==
  ASSUME NEW s, NEW t, NEW x, NEW o \in Nat, NEW p \in Nat, Len(t) \in Nat, Len(x) \in Nat,
         Holds(s, o, t), Holds(t, p, x), p + Len(x) <= Len(t)
  PROVE  Holds(s, o + p, x)
<1> SUFFICES ASSUME NEW k \in 1..Len(x) PROVE s[(o + p) + k] = x[k]
  BY DEF Holds
<1>1. p + k \in 1..Len(t) /\ o + (p + k) = (o + p) + k
  OBVIOUS
<1>2. s[o + (p + k)] = t[p + k] /\ t[p + k] = x[k]
  BY <1>1 DEF Holds
<1> QED BY <1>1, <1>2

\* How long the parts of a directive are.
FlagsTo(d)    == Len(d.text) + 1
WidthTo(d)    == FlagsTo(d) + Len(d.flags)
ModifierTo(d) == WidthTo(d) + Len(d.width)
LetterTo(d)   == ModifierTo(d) + Len(PR!Modifier(d.length))

\* A width is characters.
LEMMA WidthChars ==
  ASSUME PR!PrintmAssumption, NEW d, PR!IsDirective(d)
  PROVE  /\ d.width \in Seq(Chars)
         /\ Len(d.width) = IF d.width = <<>> THEN 0 ELSE IF PR!Columns(d) < 10 THEN 1 ELSE 2
         /\ d.width = <<>> => PR!Columns(d) = 0
         /\ d.width # <<>> /\ PR!Columns(d) < 10 =>
              PR!Columns(d) \in 1..9 /\ d.width[1] = PR!Digits[PR!Columns(d) + 1]
         /\ d.width # <<>> /\ PR!Columns(d) >= 10 =>
              /\ PR!Columns(d) \div 10 \in 1..9 /\ PR!Columns(d) % 10 \in 0..9
              /\ (PR!Columns(d) \div 10) * 10 + (PR!Columns(d) % 10) = PR!Columns(d)
              /\ d.width[1] = PR!Digits[(PR!Columns(d) \div 10) + 1]
              /\ d.width[2] = PR!Digits[(PR!Columns(d) % 10) + 1]
<1>1. CASE d.width = <<>>
  <2>1. d.width \in Seq(Chars) /\ Len(d.width) = 0
    BY <1>1, EmptySeq
  <2>2. PR!Columns(d) = 0
    BY <1>1, WidthIs
  <2> QED BY <1>1, <2>1, <2>2
<1>2. CASE d.width # <<>>
  <2>1. PICK w \in 1..99 :
          /\ w = PR!Columns(d)
          /\ w < 10 => d.width = <<PR!Digits[w + 1]>>
          /\ w >= 10 => d.width = <<PR!Digits[(w \div 10) + 1], PR!Digits[(w % 10) + 1]>>
    BY <1>2, WidthIs
  <2>2. \A n \in 1..16 : PR!Digits[n] \in Chars
    BY DigitsAre DEF AreDigits
  <2>3. CASE w < 10
    <3>1. w \in 1..9 /\ w + 1 \in 1..16
      BY <2>3
    <3>2. PICK c : c = PR!Digits[w + 1] /\ c \in Chars
      BY <2>2, <3>1
    <3>3. d.width = <<c>>
      BY <2>1, <2>3, <3>2
    <3>4. d.width \in Seq(Chars) /\ Len(d.width) = 1 /\ d.width[1] = c
      BY <3>2, <3>3, SingleIs
    <3>5. ~(w >= 10)
      BY <2>3
    <3> QED BY <1>2, <2>1, <2>3, <3>1, <3>2, <3>4, <3>5
  <2>4. CASE w >= 10
    <3>1. w \div 10 \in 1..9 /\ w % 10 \in 0..9 /\ (w \div 10) * 10 + (w % 10) = w
      BY <2>4
    <3>2. PICK c : c = PR!Digits[(w \div 10) + 1] /\ c \in Chars
      <4>1. (w \div 10) + 1 \in 1..16
        BY <3>1
      <4> QED BY <2>2, <4>1
    <3>3. PICK e : e = PR!Digits[(w % 10) + 1] /\ e \in Chars
      <4>1. (w % 10) + 1 \in 1..16
        BY <3>1
      <4> QED BY <2>2, <4>1
    <3>4. d.width = <<c, e>>
      BY <2>1, <2>4, <3>2, <3>3
    <3>5. d.width \in Seq(Chars) /\ Len(d.width) = 2 /\ d.width[1] = c /\ d.width[2] = e
      BY <3>2, <3>3, <3>4, PairIs
    <3>6. ~(w < 10)
      BY <2>4
    <3> QED BY <1>2, <2>1, <2>4, <3>1, <3>2, <3>3, <3>5, <3>6
  <2> QED BY <2>1, <2>3, <2>4
<1> QED BY <1>1, <1>2

\* What a directive is spelled with.
LEMMA DirectiveSpelled ==
  ASSUME PR!PrintmAssumption, NEW d, PR!IsDirective(d)
  PROVE  /\ PR!Spelled(d) \in Seq(Chars) /\ Len(PR!Spelled(d)) = LetterTo(d) + 1
         /\ Len(d.text) \in Nat /\ Len(d.flags) \in Nat /\ Len(d.width) \in Nat
         /\ Len(PR!Modifier(d.length)) \in Nat
         /\ Holds(PR!Spelled(d), 0, d.text)
         /\ Holds(PR!Spelled(d), Len(d.text), <<"%">>)
         /\ Holds(PR!Spelled(d), FlagsTo(d), d.flags)
         /\ Holds(PR!Spelled(d), WidthTo(d), d.width)
         /\ Holds(PR!Spelled(d), ModifierTo(d), PR!Modifier(d.length))
         /\ Holds(PR!Spelled(d), LetterTo(d), <<d.conversion>>)
<1>1. /\ d.text \in Seq(Chars) /\ d.flags \in Seq(Chars) /\ d.width \in Seq(Chars)
      /\ d.conversion \in Chars /\ "%" \in Chars /\ d.length \in PR!Lengths
  BY TextsAre, WidthChars DEF PR!IsDirective
<1>2. PICK s1 \in Seq(Chars) : s1 = d.text
  BY <1>1
<1>3. PICK s2 \in Seq(Chars) : s2 = <<"%">> /\ Len(s2) = 1
  BY <1>1, SingleIs
<1>4. PICK s3 \in Seq(Chars) : s3 = d.flags
  BY <1>1
<1>5. PICK s4 \in Seq(Chars) : s4 = d.width
  BY <1>1
<1>6. PICK s5 \in Seq(Chars) : s5 = PR!Modifier(d.length)
  BY <1>1, ModifierIs
<1>7. PICK s6 \in Seq(Chars) : s6 = <<d.conversion>> /\ Len(s6) = 1
  BY <1>1, SingleIs
<1>8. PICK t2 \in Seq(Chars) :
        /\ t2 = s1 \o s2 /\ Len(t2) = Len(s1) + Len(s2) /\ Len(s1) \in Nat /\ Len(s2) \in Nat
        /\ Holds(t2, 0, s1) /\ Holds(t2, Len(s1), s2)
  BY JoinHolds
<1>9. PICK t3 \in Seq(Chars) :
        /\ t3 = t2 \o s3 /\ Len(t3) = Len(t2) + Len(s3) /\ Len(t2) \in Nat /\ Len(s3) \in Nat
        /\ Holds(t3, 0, t2) /\ Holds(t3, Len(t2), s3)
  BY JoinHolds
<1>10. PICK t4 \in Seq(Chars) :
        /\ t4 = t3 \o s4 /\ Len(t4) = Len(t3) + Len(s4) /\ Len(t3) \in Nat /\ Len(s4) \in Nat
        /\ Holds(t4, 0, t3) /\ Holds(t4, Len(t3), s4)
  BY JoinHolds
<1>11. PICK t5 \in Seq(Chars) :
        /\ t5 = t4 \o s5 /\ Len(t5) = Len(t4) + Len(s5) /\ Len(t4) \in Nat /\ Len(s5) \in Nat
        /\ Holds(t5, 0, t4) /\ Holds(t5, Len(t4), s5)
  BY JoinHolds
<1>12. PICK t6 \in Seq(Chars) :
        /\ t6 = t5 \o s6 /\ Len(t6) = Len(t5) + Len(s6) /\ Len(t5) \in Nat /\ Len(s6) \in Nat
        /\ Holds(t6, 0, t5) /\ Holds(t6, Len(t5), s6)
  BY JoinHolds
<1>13. PR!Spelled(d) = t6
  BY <1>2, <1>3, <1>4, <1>5, <1>6, <1>7, <1>8, <1>9, <1>10, <1>11, <1>12 DEF PR!Spelled
<1>14. /\ Len(t2) = FlagsTo(d) /\ Len(t3) = WidthTo(d) /\ Len(t4) = ModifierTo(d)
       /\ Len(t5) = LetterTo(d) /\ Len(t6) = LetterTo(d) + 1
  BY <1>2, <1>3, <1>4, <1>5, <1>6, <1>7, <1>8, <1>9, <1>10, <1>11, <1>12
     DEF FlagsTo, WidthTo, ModifierTo, LetterTo
<1>15. ASSUME NEW x, NEW p \in Nat, Len(x) \in Nat, Holds(t5, p, x), p + Len(x) <= Len(t5)
       PROVE  Holds(t6, p, x)
  BY <1>12, <1>15, HoldsWithin, 0 + p = p
<1>16. ASSUME NEW x, NEW p \in Nat, Len(x) \in Nat, Holds(t4, p, x), p + Len(x) <= Len(t4)
       PROVE  Holds(t6, p, x) 
  <2>1. Holds(t5, p, x)
    BY <1>11, <1>12, <1>16, HoldsWithin, 0 + p = p
  <2>2. p + Len(x) <= Len(t5)
    BY <1>11, <1>16
  <2> QED BY <1>15, <1>16, <2>1, <2>2
<1>17. ASSUME NEW x, NEW p \in Nat, Len(x) \in Nat, Holds(t3, p, x), p + Len(x) <= Len(t3)
       PROVE  Holds(t6, p, x)
  <2>1. Holds(t4, p, x)
    BY <1>10, <1>11, <1>17, HoldsWithin, 0 + p = p
  <2>2. p + Len(x) <= Len(t4)
    BY <1>10, <1>17
  <2> QED BY <1>16, <1>17, <2>1, <2>2
<1>18. ASSUME NEW x, NEW p \in Nat, Len(x) \in Nat, Holds(t2, p, x), p + Len(x) <= Len(t2)
       PROVE  Holds(t6, p, x)
  <2>1. Holds(t3, p, x)
    BY <1>9, <1>10, <1>18, HoldsWithin, 0 + p = p
  <2>2. p + Len(x) <= Len(t3)
    BY <1>9, <1>18
  <2> QED BY <1>17, <1>18, <2>1, <2>2
<1>19. Holds(t6, 0, s1) /\ Holds(t6, Len(s1), s2)
  <2>1. 0 + Len(s1) <= Len(t2) /\ Len(s1) + Len(s2) <= Len(t2)
    BY <1>8
  <2> QED BY <1>8, <1>18, <2>1
<1>20. Holds(t6, Len(t2), s3)
  <2>1. Len(t2) + Len(s3) <= Len(t3)
    BY <1>9
  <2> QED BY <1>9, <1>17, <2>1
<1>21. Holds(t6, Len(t3), s4)
  <2>1. Len(t3) + Len(s4) <= Len(t4)
    BY <1>10
  <2> QED BY <1>10, <1>16, <2>1
<1>22. Holds(t6, Len(t4), s5)
  <2>1. Len(t4) + Len(s5) <= Len(t5)
    BY <1>11
  <2> QED BY <1>11, <1>15, <2>1
<1> QED
  BY <1>2, <1>3, <1>4, <1>5, <1>6, <1>7, <1>8, <1>9, <1>10, <1>11, <1>12, <1>13, <1>14,
     <1>19, <1>20, <1>21, <1>22

\* What printm is called with.
Calls == {<<d, e>> : d \in Directives, e \in Followers}

\* Where the text before a directive begins, how many arguments were taken, and
\* what was written by then.
Begins(ds, n) ==
  IF n = 1 THEN 0
  ELSE IF n = 2 THEN Len(PR!Spelled(ds[1]))
  ELSE Len(PR!Spelled(ds[1])) + Len(PR!Spelled(ds[2]))
TakenTo(ds, n) ==
  IF n = 1 THEN 0
  ELSE IF n = 2 THEN Len(PR!Taken(ds[1]))
  ELSE Len(PR!Taken(ds[1])) + Len(PR!Taken(ds[2]))
Output(d)       == d.text \o PR!Printed(d)
OutputTo(ds, n) ==
  IF n = 1 THEN <<>> ELSE IF n = 2 THEN Output(ds[1]) ELSE Output(ds[1]) \o Output(ds[2])

LEMMA LineIs ==
  ASSUME PR!PrintmAssumption, NEW ds \in Calls
  PROVE  /\ ds = <<ds[1], ds[2]>> /\ DOMAIN ds = 1..2
         /\ \A n \in 1..2 : PR!IsDirective(ds[n])
<1>1. PICK d \in Directives, e \in Followers : ds = <<d, e>>
  BY DEF Calls
<1>2. PR!IsDirective(d) /\ PR!IsDirective(e)
  BY DEF PR!PrintmAssumption
<1>3. ds[1] = d /\ ds[2] = e
  BY <1>1
<1>4. ds = <<ds[1], ds[2]>> /\ DOMAIN ds = 1..2
  BY <1>1, <1>3
<1>5. 1..2 = {1, 2}
  OBVIOUS
<1> QED BY <1>2, <1>3, <1>4, <1>5

\* Two sequences flattened.
LEMMA FlattenTwo ==
  ASSUME NEW D, NEW s \in Seq(D), NEW t \in Seq(D)
  PROVE  PR!FlattenSeq(<<s, t>>) = s \o t
<1>1. PICK seqs : seqs = <<s, t>>
  OBVIOUS
<1>2. seqs \in [1..2 -> Seq(D)] /\ Len(seqs) = 2 /\ seqs[1] = s /\ seqs[2] = t
  BY <1>1
<1>3. PICK f : Flattens(f, D, 2, seqs)
  <2>1. 2 \in Nat \ {0}
    OBVIOUS
  <2> QED BY <1>2, <2>1, FlattenFollows
<1>4. f[2] = f[2 - 1] \o seqs[2] /\ 2 - 1 = 1
  BY <1>3 DEF Flattens
<1>5. DT!FlattenSeq(seqs) = s \o t
  BY <1>2, <1>3, <1>4 DEF Flattens
<1>6. PR!FlattenSeq(seqs) = DT!FlattenSeq(seqs)
  BY DEF PR!FlattenSeq, DT!FlattenSeq
<1> QED BY <1>1, <1>5, <1>6

\* The format string spells one directive after the other.
LEMMA FormatSpells ==
  ASSUME PR!PrintmAssumption, NEW ds \in Calls
  PROVE  /\ Len(PR!Format(ds)) = Begins(ds, 3) /\ Begins(ds, 3) \in Nat
         /\ \A n \in 1..2 :
              /\ Holds(PR!Format(ds), Begins(ds, n), PR!Spelled(ds[n]))
              /\ Begins(ds, n) \in Nat /\ Len(PR!Spelled(ds[n])) \in Nat
              /\ Begins(ds, n + 1) = Begins(ds, n) + Len(PR!Spelled(ds[n]))
              /\ Begins(ds, n + 1) <= Begins(ds, 3)
<1>0. PR!IsDirective(ds[1]) /\ PR!IsDirective(ds[2])
  BY LineIs
<1>1. PICK s \in Seq(Chars) : s = PR!Spelled(ds[1])
  BY <1>0, DirectiveSpelled
<1>2. PICK t \in Seq(Chars) : t = PR!Spelled(ds[2])
  BY <1>0, DirectiveSpelled
<1>3. [n \in DOMAIN ds |-> PR!Spelled(ds[n])] = <<s, t>>
  <2>1. DOMAIN ds = 1..2
    BY LineIs
  <2> QED BY <1>1, <1>2, <2>1
<1>4. PR!Format(ds) = s \o t
  BY <1>3, FlattenTwo DEF PR!Format
<1>5. /\ Len(s \o t) = Len(s) + Len(t) /\ Len(s) \in Nat /\ Len(t) \in Nat
      /\ Holds(s \o t, 0, s) /\ Holds(s \o t, Len(s), t)
  BY JoinHolds
<1>6. /\ Begins(ds, 1) = 0 /\ Begins(ds, 2) = Len(s) /\ Begins(ds, 3) = Len(s) + Len(t)
      /\ 1 + 1 = 2 /\ 2 + 1 = 3
  BY <1>1, <1>2 DEF Begins
<1>7. /\ Holds(PR!Format(ds), Begins(ds, 1), PR!Spelled(ds[1]))
      /\ Begins(ds, 1) \in Nat /\ Len(PR!Spelled(ds[1])) \in Nat
      /\ Begins(ds, 1 + 1) = Begins(ds, 1) + Len(PR!Spelled(ds[1]))
      /\ Begins(ds, 1 + 1) <= Begins(ds, 3)
  BY <1>1, <1>4, <1>5, <1>6
<1>8. /\ Holds(PR!Format(ds), Begins(ds, 2), PR!Spelled(ds[2]))
      /\ Begins(ds, 2) \in Nat /\ Len(PR!Spelled(ds[2])) \in Nat
      /\ Begins(ds, 2 + 1) = Begins(ds, 2) + Len(PR!Spelled(ds[2]))
      /\ Begins(ds, 2 + 1) <= Begins(ds, 3)
  <2>1. Len(s) + Len(t) <= Len(s) + Len(t)
    BY <1>5
  <2> QED BY <1>2, <1>4, <1>5, <1>6, <2>1
<1>9. Len(PR!Format(ds)) = Begins(ds, 3) /\ Begins(ds, 3) \in Nat
  BY <1>4, <1>5, <1>6
<1>10. 1..2 = {1, 2}
  OBVIOUS
<1> QED BY <1>7, <1>8, <1>9, <1>10

\* The argument of a directive that takes one is the next one.
LEMMA ArgumentsFollow ==
  ASSUME PR!PrintmAssumption, line \in Calls, NEW n \in 1..2
  PROVE  /\ TakenTo(line, n) \in Nat
         /\ line[n].conversion \in {"%"} \cup PR!Unsupported =>
              TakenTo(line, n + 1) = TakenTo(line, n)
         /\ line[n].conversion \notin {"%"} \cup PR!Unsupported =>
              /\ TakenTo(line, n + 1) = TakenTo(line, n) + 1
              /\ PR!Arguments[TakenTo(line, n) + 1] = line[n]
<1> DEFINE D == {line[1], line[2]}
<1>1. ASSUME NEW k \in 1..2
      PROVE  /\ PR!Taken(line[k]) \in Seq(D)
             /\ line[k].conversion \in {"%"} \cup PR!Unsupported =>
                  Len(PR!Taken(line[k])) = 0
             /\ line[k].conversion \notin {"%"} \cup PR!Unsupported =>
                  Len(PR!Taken(line[k])) = 1 /\ PR!Taken(line[k])[1] = line[k]
  <2>1. CASE line[k].conversion \in {"%"} \cup PR!Unsupported
    <3>1. PR!Taken(line[k]) = <<>>
      BY <2>1 DEF PR!Taken
    <3>2. PR!Taken(line[k]) \in Seq(D) /\ Len(PR!Taken(line[k])) = 0
      BY <3>1, EmptySeq
    <3> QED BY <2>1, <3>2
  <2>2. CASE line[k].conversion \notin {"%"} \cup PR!Unsupported
    <3>1. PR!Taken(line[k]) = <<line[k]>>
      BY <2>2 DEF PR!Taken
    <3>2. line[k] \in D
      <4>1. k \in {1, 2}
        OBVIOUS
      <4> QED BY <4>1
    <3>3. /\ PR!Taken(line[k]) \in Seq(D) /\ Len(PR!Taken(line[k])) = 1
          /\ PR!Taken(line[k])[1] = line[k]
      BY <3>1, <3>2, SingleIs
    <3> QED BY <2>2, <3>3
  <2> QED BY <2>1, <2>2
<1> HIDE DEF D
<1>2. PICK s \in Seq(D) : s = PR!Taken(line[1])
  BY <1>1
<1>3. PICK t \in Seq(D) : t = PR!Taken(line[2])
  BY <1>1
<1>4. [k \in DOMAIN line |-> PR!Taken(line[k])] = <<s, t>>
  <2>1. DOMAIN line = 1..2
    BY LineIs
  <2> QED BY <1>2, <1>3, <2>1
<1>5. PR!Arguments = s \o t
  BY <1>4, FlattenTwo DEF PR!Arguments
<1>6. /\ Len(s) \in Nat /\ Len(t) \in Nat
      /\ \A k \in 1..Len(s) : (s \o t)[k] = s[k]
      /\ \A k \in 1..Len(t) : (s \o t)[Len(s) + k] = t[k]
  BY Joined, LenProperties
<1>7. /\ TakenTo(line, 1) = 0 /\ TakenTo(line, 2) = Len(s)
      /\ TakenTo(line, 3) = Len(s) + Len(t) /\ 1 + 1 = 2 /\ 2 + 1 = 3
  BY <1>2, <1>3 DEF TakenTo
<1>8. CASE n = 1
  <2>1. TakenTo(line, n) = 0 /\ TakenTo(line, n + 1) = Len(s) /\ 0 + 1 = 1 /\ 1 \in 1..1
    BY <1>7, <1>8
  <2>2. ASSUME line[n].conversion \notin {"%"} \cup PR!Unsupported
        PROVE  Len(s) = 1 /\ (s \o t)[1] = line[n]
    <3>1. Len(s) = 1 /\ s[1] = line[n]
      BY <1>1, <1>2, <1>8, <2>2
    <3> QED BY <1>6, <2>1, <3>1
  <2>3. line[n].conversion \in {"%"} \cup PR!Unsupported => Len(s) = 0
    BY <1>1, <1>2, <1>8
  <2> QED BY <1>5, <2>1, <2>2, <2>3
<1>9. CASE n = 2
  <2>1. TakenTo(line, n) = Len(s) /\ TakenTo(line, n + 1) = Len(s) + Len(t) /\ 1 \in 1..1
    BY <1>7, <1>9
  <2>2. ASSUME line[n].conversion \notin {"%"} \cup PR!Unsupported
        PROVE  Len(t) = 1 /\ (s \o t)[Len(s) + 1] = line[n]
    <3>1. Len(t) = 1 /\ t[1] = line[n]
      BY <1>1, <1>3, <1>9, <2>2
    <3> QED BY <1>6, <2>1, <3>1
  <2>3. line[n].conversion \in {"%"} \cup PR!Unsupported => Len(t) = 0
    BY <1>1, <1>3, <1>9
  <2>4. TakenTo(line, n) \in Nat /\ Len(s) + 0 = Len(s)
    BY <1>6, <2>1
  <2> QED BY <1>5, <2>1, <2>2, <2>3, <2>4
<1>10. n \in {1, 2}
  OBVIOUS
<1> QED BY <1>8, <1>9, <1>10

-----------------------------------------------------------------------------
(***************************************************************************)
(* printm: the interpreter.                                                *)
(***************************************************************************)

\* What of a width was read.
WidthRead(d, w) ==
  IF w = 0 THEN 0 ELSE IF w = Len(d.width) THEN PR!Columns(d) ELSE PR!Columns(d) \div 10

\* What is written when the text before directive n was read up to place k.
ReadsText(n, k) ==
  /\ k \in 0..Len(line[n].text)
  /\ at = Begins(line, n) + k + 1
  /\ flags = {} /\ ap = TakenTo(line, n)
  /\ out \o buf = OutputTo(line, n) \o SubSeq(line[n].text, 1, k)

\* How much of directive n was read.
Progress(n, f, w, m) ==
  /\ f \in 0..Len(line[n].flags) /\ w \in 0..Len(line[n].width)
  /\ m \in 0..Len(PR!Modifier(line[n].length))
  /\ w > 0 \/ m > 0 => f = Len(line[n].flags)
  /\ m > 0 => w = Len(line[n].width)

\* What the interpreter knows of a directive that it read that much of.
ReadsDirective(n, f, w, m) ==
  /\ Progress(n, f, w, m)
  /\ at = Begins(line, n) + FlagsTo(line[n]) + f + w + m + 1
  /\ ap = TakenTo(line, n)
  /\ buf = <<>> /\ out = OutputTo(line, n) \o line[n].text
  /\ "special" \in flags
  /\ flags \cap PR!Flags = {line[n].flags[k] : k \in 1..f}
  /\ "fdwidth" \in flags <=> w > 0 /\ m = 0
  /\ fdwidth = WidthRead(line[n], w)
  /\ "h" \in flags <=> line[n].length \in {"h", "hh"} /\ m > 0
  /\ "hh" \in flags <=> line[n].length = "hh" /\ m = 2
  /\ "l" \in flags <=> line[n].length \in {"l", "ll"} /\ m > 0
  /\ "ll" \in flags <=> line[n].length = "ll" /\ m = 2

\* What is written when the first n - 1 directives were read.
Between(n) ==
  /\ at = Begins(line, n) + 1
  /\ flags = {} /\ ap = TakenTo(line, n)
  /\ out \o buf = OutputTo(line, n)

\* A call is in the text or inside one of its directives, behind them both, or at an
\* end, and has written or buffered what it read up to there.
PrintInv ==
  /\ line \in Calls /\ format = PR!Format(line)
  /\ out \in Seq(Chars) /\ buf \in Seq(Chars)
  /\ \/ \E n \in 1..2 :
          /\ OutputTo(line, n) \in Seq(Chars)
          /\ \/ \E k \in 0..Len(line[n].text) : ReadsText(n, k)
             \/ \E f, w, m \in Nat : ReadsDirective(n, f, w, m)
     \/ Between(3)
     \/ at = Begins(line, 3) + 2 /\ out = OutputTo(line, 3)

\* Where the parts of a directive are in the format string.
LEMMA PartsLie ==
  ASSUME PR!PrintmAssumption, line \in Calls, format = PR!Format(line), NEW n \in 1..2
  PROVE  /\ Begins(line, n) \in Nat /\ PR!IsDirective(line[n])
         /\ Len(line[n].text) \in Nat /\ Len(line[n].flags) \in Nat
         /\ Len(line[n].width) \in Nat /\ Len(PR!Modifier(line[n].length)) \in Nat
         /\ Holds(format, Begins(line, n), line[n].text)
         /\ format[Begins(line, n) + Len(line[n].text) + 1] = "%"
         /\ Holds(format, Begins(line, n) + FlagsTo(line[n]), line[n].flags)
         /\ Holds(format, Begins(line, n) + WidthTo(line[n]), line[n].width)
         /\ Holds(format, Begins(line, n) + ModifierTo(line[n]), PR!Modifier(line[n].length))
         /\ format[Begins(line, n) + LetterTo(line[n]) + 1] = line[n].conversion
         /\ Begins(line, n + 1) = Begins(line, n) + LetterTo(line[n]) + 1
         /\ Len(format) \in Nat /\ Len(format) = Begins(line, 3)
         /\ Begins(line, n + 1) <= Len(format)
<1>1. PICK d : d = line[n] /\ PR!IsDirective(d)
  BY LineIs
<1>2. PICK s : s = PR!Spelled(d)
  OBVIOUS
<1>3. /\ Len(format) = Begins(line, 3) /\ Len(format) \in Nat
      /\ Holds(format, Begins(line, n), s)
      /\ Begins(line, n) \in Nat /\ Len(s) \in Nat
      /\ Begins(line, n + 1) = Begins(line, n) + Len(s)
      /\ Begins(line, n + 1) <= Len(format)
  BY <1>1, <1>2, FormatSpells
<1>4. /\ Len(s) = LetterTo(d) + 1
      /\ Len(d.text) \in Nat /\ Len(d.flags) \in Nat /\ Len(d.width) \in Nat
      /\ Len(PR!Modifier(d.length)) \in Nat
      /\ Holds(s, 0, d.text) /\ Holds(s, Len(d.text), <<"%">>)
      /\ Holds(s, FlagsTo(d), d.flags) /\ Holds(s, WidthTo(d), d.width)
      /\ Holds(s, ModifierTo(d), PR!Modifier(d.length))
      /\ Holds(s, LetterTo(d), <<d.conversion>>)
  BY <1>1, <1>2, DirectiveSpelled
<1>5. /\ FlagsTo(d) \in Nat /\ WidthTo(d) \in Nat /\ ModifierTo(d) \in Nat
      /\ LetterTo(d) \in Nat
      /\ Len(d.text) + 1 <= Len(s) /\ FlagsTo(d) + Len(d.flags) <= Len(s)
      /\ WidthTo(d) + Len(d.width) <= Len(s)
      /\ ModifierTo(d) + Len(PR!Modifier(d.length)) <= Len(s) /\ LetterTo(d) + 1 <= Len(s)
      /\ 0 + Len(d.text) <= Len(s)
  <2>1. PICK T, F, C, M \in Nat :
          /\ T = Len(d.text) /\ F = Len(d.flags) /\ C = Len(d.width)
          /\ M = Len(PR!Modifier(d.length))
    BY <1>4
  <2>2. /\ FlagsTo(d) = T + 1 /\ WidthTo(d) = T + 1 + F /\ ModifierTo(d) = T + 1 + F + C
        /\ LetterTo(d) = T + 1 + F + C + M
    BY <2>1 DEF FlagsTo, WidthTo, ModifierTo, LetterTo
  <2>3. Len(s) = T + 1 + F + C + M + 1
    BY <1>4, <2>2
  <2>4. PICK L \in Nat : L = Len(s) /\ L = T + 1 + F + C + M + 1
    BY <1>3, <2>3
  <2>5. /\ T + 1 \in Nat /\ T + 1 + F \in Nat /\ T + 1 + F + C \in Nat
        /\ T + 1 + F + C + M \in Nat
        /\ T + 1 <= L /\ (T + 1) + F <= L /\ (T + 1 + F) + C <= L
        /\ (T + 1 + F + C) + M <= L /\ (T + 1 + F + C + M) + 1 <= L /\ 0 + T <= L
    BY <2>4
  <2> QED BY <2>1, <2>2, <2>4, <2>5
<1>6. Holds(format, Begins(line, n) + 0, d.text) /\ Begins(line, n) + 0 = Begins(line, n)
  <2>1. 0 \in Nat
    OBVIOUS
  <2>2. Holds(format, Begins(line, n) + 0, d.text)
    BY <1>3, <1>4, <1>5, <2>1, HoldsWithin
  <2> QED BY <1>3, <2>2
<1>7. Holds(format, Begins(line, n) + FlagsTo(d), d.flags)
  BY <1>3, <1>4, <1>5, HoldsWithin
<1>8. Holds(format, Begins(line, n) + WidthTo(d), d.width)
  BY <1>3, <1>4, <1>5, HoldsWithin
<1>9. Holds(format, Begins(line, n) + ModifierTo(d), PR!Modifier(d.length))
  BY <1>3, <1>4, <1>5, HoldsWithin
<1>10. format[Begins(line, n) + Len(d.text) + 1] = "%"
  <2>1. Len(<<"%">>) = 1 /\ <<"%">>[1] = "%"
    OBVIOUS
  <2>2. Holds(format, Begins(line, n) + Len(d.text), <<"%">>)
    BY <1>3, <1>4, <1>5, <2>1, HoldsWithin
  <2> QED BY <2>1, <2>2 DEF Holds
<1>11. format[Begins(line, n) + LetterTo(d) + 1] = d.conversion
  <2>1. Len(<<d.conversion>>) = 1 /\ <<d.conversion>>[1] = d.conversion
    OBVIOUS
  <2>2. Holds(format, Begins(line, n) + LetterTo(d), <<d.conversion>>)
    BY <1>3, <1>4, <1>5, <2>1, HoldsWithin
  <2> QED BY <2>1, <2>2 DEF Holds
<1>12. Begins(line, n) + Len(s) = Begins(line, n) + LetterTo(d) + 1
  BY <1>3, <1>4, <1>5
<1> QED BY <1>1, <1>3, <1>4, <1>6, <1>7, <1>8, <1>9, <1>10, <1>11, <1>12

\* A call begins with the text of its first directive.
LEMMA PrintStarts == PR!PrintmAssumption /\ PR!Init => PrintInv
<1> SUFFICES ASSUME PR!PrintmAssumption, PR!Init PROVE PrintInv
  OBVIOUS
<1>1. PICK d \in Directives, e \in Followers : PR!Call(<<d, e>>)
  BY DEF PR!Init
<1>2. /\ line = <<d, e>> /\ line \in Calls /\ format = PR!Format(line) /\ at = 1
      /\ buf = <<>> /\ flags = {} /\ ap = 0 /\ out = <<>>
  BY <1>1 DEF PR!Call, Calls
<1>3. <<>> \in Seq(Chars) /\ <<>> \o <<>> = <<>>
  BY EmptySeq
<1>4. Begins(line, 1) = 0 /\ TakenTo(line, 1) = 0 /\ OutputTo(line, 1) = <<>>
  BY DEF Begins, TakenTo, OutputTo
<1>5. 1 \in 1..2
  OBVIOUS
<1>6. 0 \in 0..Len(line[1].text)
  BY <1>2, <1>5, PartsLie
<1>7. SubSeq(line[1].text, 1, 0) = <<>>
  <2>1. PICK s \in Seq(Chars) : s = line[1].text
    BY <1>2, <1>5, PartsLie, TextsAre
  <2>2. SubSeq(s, 1, 0) = <<>>
    OBVIOUS
  <2> QED BY <2>1, <2>2
<1>8. ReadsText(1, 0)
  BY <1>2, <1>3, <1>4, <1>6, <1>7 DEF ReadsText
<1> QED BY <1>2, <1>3, <1>4, <1>5, <1>6, <1>8 DEF PrintInv

\* Between directives only text is read, or a directive begins, or the call ends.
LEMMA OutsideDirectives ==
  ASSUME flags = {}, PR!Next
  PROVE  PR!Text \/ PR!EnterSpecial \/ PR!LastFlush
<1>1. ~PR!Special
  BY DEF PR!Special
<1>2. /\ ~PR!FieldWidth /\ ~PR!FlagModifier /\ ~PR!LengthModifier /\ ~PR!Skip
      /\ ~PR!SignedDecimal /\ ~PR!UnsignedDecimal /\ ~PR!Octal
      /\ ~PR!LowerHexadecimal /\ ~PR!UpperHexadecimal
      /\ ~PR!Character /\ ~PR!CString /\ ~PR!Percent /\ ~PR!NotSupported
  BY <1>1 DEF PR!FieldWidth, PR!FlagModifier, PR!LengthModifier, PR!Skip, PR!SignedDecimal,
     PR!UnsignedDecimal, PR!Octal, PR!LowerHexadecimal, PR!UpperHexadecimal, PR!Character,
     PR!CString, PR!Percent, PR!NotSupported
<1> QED BY <1>2 DEF PR!Next

\* Inside a directive there is no text, and none begins.
LEMMA InsideDirectives ==
  ASSUME "special" \in flags, at \in Nat, Len(format) \in Nat, at <= Len(format), PR!Next
  PROVE  \/ PR!FieldWidth \/ PR!FlagModifier \/ PR!LengthModifier \/ PR!Skip
         \/ PR!SignedDecimal \/ PR!UnsignedDecimal \/ PR!Octal
         \/ PR!LowerHexadecimal \/ PR!UpperHexadecimal
         \/ PR!Character \/ PR!CString \/ PR!Percent \/ PR!NotSupported
<1>1. flags # {}
  OBVIOUS
<1>2. ~PR!Text /\ ~PR!EnterSpecial
  BY <1>1 DEF PR!Text, PR!EnterSpecial
<1>3. ~PR!LastFlush
  BY DEF PR!LastFlush
<1> QED BY <1>2, <1>3 DEF PR!Next

\* A beginning that is one longer.
LEMMA GrowIs ==
  ASSUME NEW D, NEW s \in Seq(D), NEW k \in 0..(Len(s) - 1)
  PROVE  /\ SubSeq(s, 1, k + 1) = SubSeq(s, 1, k) \o <<s[k + 1]>>
         /\ SubSeq(s, 1, k) \in Seq(D) /\ s[k + 1] \in D
OBVIOUS

\* A character of a text goes behind what was written, at once or later.
LEMMA TextWrites ==
  ASSUME out \in Seq(Chars), buf \in Seq(Chars), NEW c \in Chars, PR!char = c, PR!Text
  PROVE  /\ out' \in Seq(Chars) /\ buf' \in Seq(Chars)
         /\ out' \o buf' = (out \o buf) \o <<c>>
<1>1. <<c>> \in Seq(Chars) /\ <<>> \in Seq(Chars)
  BY SingleIs, EmptySeq
<1>2. Append(buf, c) \in Seq(Chars) /\ Append(buf, c) = buf \o <<c>>
  BY <1>1
<1>3. out \o Append(buf, c) = (out \o buf) \o <<c>>
  BY <1>1, <1>2, ConcatAssociative
<1>4. CASE Len(buf) + 1 = BufSize
  <2>1. out' = out \o Append(buf, c) /\ buf' = <<>>
    BY <1>4 DEF PR!Text
  <2>2. out' \in Seq(Chars)
    BY <1>2, <2>1, Joined
  <2>3. out' \o <<>> = out'
    BY <2>2
  <2> QED BY <1>1, <1>3, <2>1, <2>2, <2>3
<1>5. CASE Len(buf) + 1 # BufSize
  <2>1. out' = out /\ buf' = Append(buf, c)
    BY <1>5 DEF PR!Text
  <2> QED BY <1>2, <1>3, <2>1
<1> QED BY <1>4, <1>5

\* Text is read and written in order.
LEMMA TextStep ==
  ASSUME PR!PrintmAssumption, line \in Calls, format = PR!Format(line),
         out \in Seq(Chars), buf \in Seq(Chars), NEW n \in 1..2,
         OutputTo(line, n) \in Seq(Chars), NEW k, ReadsText(n, k), PR!Next
  PROVE  PrintInv'
<1>1. PICK d : d = line[n] /\ PR!IsDirective(d) /\ d.text \in Seq(Chars) /\ Len(d.text) \in Nat
  BY PartsLie, TextsAre
<1>2. PICK o \in Nat : o = Begins(line, n)
  BY PartsLie
<1>3. /\ Holds(format, o, d.text) /\ format[o + Len(d.text) + 1] = "%"
      /\ Begins(line, n + 1) = o + LetterTo(d) + 1
      /\ Len(format) \in Nat /\ Begins(line, n + 1) <= Len(format)
      /\ Len(d.flags) \in Nat /\ Len(d.width) \in Nat /\ Len(PR!Modifier(d.length)) \in Nat
  BY <1>1, <1>2, PartsLie
<1>4. o + Len(d.text) + 1 <= Len(format)
  <2>1. PICK t, f, w, m \in Nat :
          /\ t = Len(d.text) /\ f = Len(d.flags) /\ w = Len(d.width)
          /\ m = Len(PR!Modifier(d.length))
    BY <1>1, <1>3
  <2>2. LetterTo(d) = t + 1 + f + w + m
    BY <2>1 DEF LetterTo, ModifierTo, WidthTo, FlagsTo
  <2>3. PICK L \in Nat : L = Len(format) /\ o + (t + 1 + f + w + m) + 1 <= L
    BY <1>3, <2>2
  <2>4. o + t + 1 <= L
    BY <2>3
  <2> QED BY <2>1, <2>3, <2>4
<1>5. /\ k \in 0..Len(d.text) /\ at = o + k + 1 /\ flags = {} /\ ap = TakenTo(line, n)
      /\ out \o buf = OutputTo(line, n) \o SubSeq(d.text, 1, k)
  BY <1>1, <1>2 DEF ReadsText
<1>6. at < Len(format) + 1
  BY <1>1, <1>3, <1>4, <1>5
<1>7. ~PR!LastFlush
  BY <1>3, <1>5, <1>6 DEF PR!LastFlush
<1>8. CASE k < Len(d.text)
  <2>1. k + 1 \in 1..Len(d.text) /\ at = o + (k + 1) /\ k \in 0..(Len(d.text) - 1)
    BY <1>1, <1>5, <1>8
  <2>2. PICK c \in Chars : /\ c = d.text[k + 1] /\ c # "%"
                           /\ SubSeq(d.text, 1, k + 1) = SubSeq(d.text, 1, k) \o <<c>>
                           /\ SubSeq(d.text, 1, k) \in Seq(Chars)
    <3>1. d.text[k + 1] # "%"
      <4>1. k + 1 \in DOMAIN d.text
        BY <1>1, <2>1
      <4> QED BY <1>1, <4>1 DEF PR!IsDirective
    <3> QED BY <1>1, <2>1, <3>1, GrowIs
  <2>3. PR!char = c
    BY <1>3, <2>1, <2>2 DEF PR!char, Holds
  <2>4. PR!Text
    BY <1>5, <1>7, <2>2, <2>3, OutsideDirectives DEF PR!EnterSpecial
  <2>5. /\ out' \in Seq(Chars) /\ buf' \in Seq(Chars)
        /\ out' \o buf' = (out \o buf) \o <<c>>
    BY <2>2, <2>3, <2>4, TextWrites
  <2>6. /\ line' = line /\ format' = format /\ at' = at + 1
        /\ flags' = flags /\ ap' = ap
    BY <2>4 DEF PR!Text, PR!Advance
  <2>7. (out \o buf) \o <<c>> = OutputTo(line, n) \o SubSeq(d.text, 1, k + 1)
    <3>1. <<c>> \in Seq(Chars)
      BY SingleIs
    <3>2. PICK x \in Seq(Chars) : x = OutputTo(line, n)
      OBVIOUS
    <3>3. PICK y \in Seq(Chars) : y = SubSeq(d.text, 1, k)
      BY <2>2
    <3>4. PICK z \in Seq(Chars) : z = <<c>>
      BY <3>1
    <3>5. (x \o y) \o z = x \o (y \o z)
      <4>1. x \in Seq(Chars) /\ y \in Seq(Chars) /\ z \in Seq(Chars)
        BY ONLY <3>2, <3>3, <3>4
      <4> QED BY ONLY <4>1, ConcatAssociative
    <3> QED BY <1>5, <2>2, <3>2, <3>3, <3>4, <3>5
  <2>8. k + 1 \in 0..Len(d.text) /\ at + 1 = o + (k + 1) + 1
    BY <1>1, <1>5, <2>1
  <2>9. ReadsText(n, k + 1)'
    BY <1>1, <1>2, <1>5, <2>5, <2>6, <2>7, <2>8 DEF ReadsText
  <2>10. k + 1 \in 0..Len(line'[n].text)
    BY <1>1, <2>6, <2>8
  <2> QED BY <2>5, <2>6, <2>9, <2>10 DEF PrintInv
<1>9. CASE k = Len(d.text)
  <2>1. PR!char = "%"
    <3>1. at = o + Len(d.text) + 1
      BY <1>5, <1>9
    <3> QED BY <1>3, <3>1 DEF PR!char
  <2>2. PR!EnterSpecial
    BY <1>5, <1>7, <2>1, OutsideDirectives DEF PR!Text
  <2>3. /\ line' = line /\ format' = format /\ at' = at + 1 /\ out' = out \o buf
        /\ buf' = <<>> /\ fdwidth' = 0 /\ flags' = {"special"} /\ ap' = ap
    BY <2>2 DEF PR!EnterSpecial, PR!Advance
  <2>4. out' = OutputTo(line, n) \o d.text
    BY <1>1, <1>5, <1>9, <2>3, WholeIs
  <2>5. out' \in Seq(Chars) /\ buf' \in Seq(Chars)
    BY <2>3, Joined, EmptySeq
  <2>6. flags' \cap PR!Flags = {d.flags[j] : j \in 1..0}
    <3>1. 1..0 = {}
      OBVIOUS
    <3>2. "special" \notin PR!Flags
      BY DEF PR!Flags
    <3> QED BY <2>3, <3>1, <3>2
  <2>7. at' = o + FlagsTo(d) + 0 + 0 + 0 + 1
    <3>1. PICK t \in Nat : t = Len(d.text)
      BY <1>1
    <3>2. at' = o + t + 1 + 1 /\ FlagsTo(d) = t + 1
      BY <1>5, <1>9, <2>3, <3>1 DEF FlagsTo
    <3>3. o + t + 1 + 1 = o + (t + 1) + 0 + 0 + 0 + 1
      BY <3>1
    <3> QED BY <3>2, <3>3
  <2>8. Progress(n, 0, 0, 0)'
    <3>1. /\ 0 \in 0..Len(d.flags) /\ 0 \in 0..Len(d.width)
          /\ 0 \in 0..Len(PR!Modifier(d.length))
      BY <1>3
    <3>2. line'[n] = d
      BY <1>1, <2>3
    <3> QED BY <3>1, <3>2 DEF Progress
  <2>9. ReadsDirective(n, 0, 0, 0)'
    <3>1. line'[n] = d
      BY <1>1, <2>3
    <3>2. "special" \in flags' /\ "fdwidth" \notin flags'
      BY <2>3
    <3>3. "h" \notin flags' /\ "hh" \notin flags' /\ "l" \notin flags' /\ "ll" \notin flags'
      BY <2>3
    <3>4. WidthRead(d, 0) = 0
      BY DEF WidthRead
    <3>5. ~(0 > 0) /\ 0 # 2
      OBVIOUS
    <3> QED BY <1>2, <1>5, <2>3, <2>4, <2>6, <2>7, <2>8, <3>1, <3>2, <3>3, <3>4, <3>5
        DEF ReadsDirective
  <2>10. 0 \in Nat
    OBVIOUS
  <2> QED BY <2>3, <2>5, <2>9, <2>10 DEF PrintInv
<1>10. k < Len(d.text) \/ k = Len(d.text)
  BY <1>1, <1>5
<1> QED BY <1>8, <1>9, <1>10

\* The digits of a width.
LEMMA DigitsCount ==
  /\ PR!Digits[1] = "0" /\ PR!Digits[2] = "1" /\ PR!Digits[3] = "2" /\ PR!Digits[4] = "3"
  /\ PR!Digits[5] = "4" /\ PR!Digits[6] = "5" /\ PR!Digits[7] = "6" /\ PR!Digits[8] = "7"
  /\ PR!Digits[9] = "8" /\ PR!Digits[10] = "9"
BY DEF PR!Digits

LEMMA DigitsDiffer ==
  /\ \A j, k \in 1..10 : PR!Digits[j] = PR!Digits[k] => j = k
  /\ \A j \in 1..10 : /\ PR!Digits[j] \notin {"h", "l", "z"} \cup PR!Conversions
                      /\ j # 1 => PR!Digits[j] \notin PR!Flags
<1>1. 1..10 = {1, 2, 3, 4, 5, 6, 7, 8, 9, 10}
  OBVIOUS
<1>2. \A j, k \in {1, 2, 3, 4, 5, 6, 7, 8, 9, 10} : PR!Digits[j] = PR!Digits[k] => j = k
  BY DigitsCount
<1>3. \A j \in {1, 2, 3, 4, 5, 6, 7, 8, 9, 10} :
        /\ PR!Digits[j] \notin {"h", "l", "z"} \cup PR!Conversions
        /\ j # 1 => PR!Digits[j] \notin PR!Flags
  BY DigitsCount DEF PR!Conversions, PR!Unsupported, PR!Flags
<1> QED BY <1>1, <1>2, <1>3

\* The conversions.
Converts ==
  \/ PR!SignedDecimal \/ PR!UnsignedDecimal \/ PR!Octal
  \/ PR!LowerHexadecimal \/ PR!UpperHexadecimal
  \/ PR!Character \/ PR!CString \/ PR!Percent \/ PR!NotSupported

LEMMA ConvertsAtConversion ==
  ASSUME Converts
  PROVE  PR!char \in PR!Conversions
<1>1. ASSUME PR!SignedDecimal PROVE PR!char \in PR!Conversions
  BY <1>1 DEF PR!SignedDecimal, PR!Conversions
<1>2. ASSUME PR!UnsignedDecimal PROVE PR!char \in PR!Conversions
  BY <1>2 DEF PR!UnsignedDecimal, PR!Conversions
<1>3. ASSUME PR!Octal PROVE PR!char \in PR!Conversions
  BY <1>3 DEF PR!Octal, PR!Conversions
<1>4. ASSUME PR!LowerHexadecimal PROVE PR!char \in PR!Conversions
  BY <1>4 DEF PR!LowerHexadecimal, PR!Conversions
<1>5. ASSUME PR!UpperHexadecimal PROVE PR!char \in PR!Conversions
  BY <1>5 DEF PR!UpperHexadecimal, PR!Conversions
<1>6. ASSUME PR!Character PROVE PR!char \in PR!Conversions
  BY <1>6 DEF PR!Character, PR!Conversions
<1>7. ASSUME PR!CString PROVE PR!char \in PR!Conversions
  BY <1>7 DEF PR!CString, PR!Conversions
<1>8. ASSUME PR!Percent PROVE PR!char \in PR!Conversions
  BY <1>8 DEF PR!Percent, PR!Conversions
<1>9. ASSUME PR!NotSupported PROVE PR!char \in PR!Conversions
  BY <1>9 DEF PR!NotSupported, PR!Conversions
<1> QED BY <1>1, <1>2, <1>3, <1>4, <1>5, <1>6, <1>7, <1>8, <1>9 DEF Converts

\* Each kind of character of a directive has its own action.
LEMMA ActionInside ==
  ASSUME "special" \in flags, at \in Nat, Len(format) \in Nat, at <= Len(format), PR!Next
  PROVE  /\ PR!Special
         /\ "fdwidth" \notin flags /\ PR!char \in PR!Flags => PR!FlagModifier
         /\ \A j \in 1..10 :
              PR!char = PR!Digits[j] /\ (j = 1 => "fdwidth" \in flags) =>
                PR!FieldWidth /\ fdwidth' = fdwidth * 10 + j - 1
         /\ PR!char \in {"h", "l"} => PR!LengthModifier
         /\ PR!char = "z" => PR!Skip
         /\ PR!char \in PR!Conversions => Converts
<1>1. PR!FieldWidth \/ PR!FlagModifier \/ PR!LengthModifier \/ PR!Skip \/ Converts
  BY InsideDirectives DEF Converts
<1>2. PR!Special
  BY DEF PR!Special, PR!Running
<1>3. /\ PR!FieldWidth => PR!IsWidth
      /\ PR!FlagModifier => ~PR!IsWidth /\ PR!char \in PR!Flags
      /\ PR!LengthModifier => PR!char \in {"h", "l"}
      /\ PR!Skip => ~PR!IsWidth /\ PR!char \notin PR!Flags \cup {"h", "l"} \cup PR!Conversions
      /\ Converts => PR!char \in PR!Conversions
  <2>1. PR!FieldWidth => PR!IsWidth
    BY DEF PR!FieldWidth
  <2>2. PR!FlagModifier => ~PR!IsWidth /\ PR!char \in PR!Flags
    BY DEF PR!FlagModifier
  <2>3. PR!LengthModifier => PR!char \in {"h", "l"}
    BY DEF PR!LengthModifier
  <2>4. PR!Skip => ~PR!IsWidth /\ PR!char \notin PR!Flags \cup {"h", "l"} \cup PR!Conversions
    BY DEF PR!Skip
  <2>5. Converts => PR!char \in PR!Conversions
    BY ConvertsAtConversion
  <2> QED BY <2>1, <2>2, <2>3, <2>4, <2>5
<1>4. PR!IsWidth => \E j \in 1..10 : PR!char = PR!Digits[j] /\ (j = 1 => "fdwidth" \in flags)
  BY DEF PR!IsWidth
<1>5. /\ PR!Flags \cap PR!Conversions = {} /\ "h" \notin PR!Flags /\ "l" \notin PR!Flags
      /\ "z" \notin PR!Flags /\ "h" \notin PR!Conversions /\ "l" \notin PR!Conversions
      /\ "z" \notin PR!Conversions
  BY DEF PR!Flags, PR!Conversions, PR!Unsupported
<1>6. ASSUME "fdwidth" \notin flags, PR!char \in PR!Flags PROVE PR!FlagModifier
  <2>1. ~PR!IsWidth
    BY <1>4, <1>6, DigitsDiffer
  <2> QED BY <1>1, <1>3, <1>5, <1>6, <2>1
<1>7. ASSUME NEW j \in 1..10, PR!char = PR!Digits[j], j = 1 => "fdwidth" \in flags
      PROVE  PR!FieldWidth /\ fdwidth' = fdwidth * 10 + j - 1
  <2>1. PR!IsWidth
    BY <1>7 DEF PR!IsWidth
  <2>2. PR!char \notin {"h", "l"} \cup PR!Conversions
    BY <1>7, DigitsDiffer
  <2>3. PR!FieldWidth
    BY <1>1, <1>3, <2>1, <2>2
  <2>4. (CHOOSE k \in 1..10 : PR!char = PR!Digits[k]) = j
    BY <1>7, DigitsDiffer
  <2> QED BY <2>3, <2>4 DEF PR!FieldWidth
<1>8. ASSUME PR!char \in {"h", "l", "z"} \cup PR!Conversions PROVE ~PR!IsWidth
  BY <1>4, <1>8, DigitsDiffer
<1>9. PR!char \in {"h", "l"} => PR!LengthModifier
  BY <1>1, <1>3, <1>5, <1>8
<1>10. PR!char = "z" => PR!Skip
  BY <1>1, <1>3, <1>5, <1>8
<1>11. PR!char \in PR!Conversions => Converts
  BY <1>1, <1>3, <1>5, <1>8
<1> QED BY <1>2, <1>6, <1>7, <1>9, <1>10, <1>11

\* A call that is inside directive n.
Inside(n, f, w, m) ==
  /\ line \in Calls /\ format = PR!Format(line)
  /\ out \in Seq(Chars) /\ OutputTo(line, n) \in Seq(Chars)
  /\ n \in 1..2 /\ f \in Nat /\ w \in Nat /\ m \in Nat
  /\ ReadsDirective(n, f, w, m)

\* What is left alone until the conversion.
Kept == UNCHANGED <<line, format, ap, buf, out>>

\* The character that is next inside a directive.
LEMMA NextInside ==
  ASSUME PR!PrintmAssumption, NEW n, NEW f, NEW w, NEW m, Inside(n, f, w, m), PR!Next
  PROVE  /\ PR!IsDirective(line[n]) /\ Begins(line, n) \in Nat
         /\ Len(line[n].text) \in Nat /\ Len(line[n].flags) \in Nat
         /\ Len(line[n].width) \in Nat /\ Len(PR!Modifier(line[n].length)) \in Nat
         /\ at \in Nat /\ Len(format) \in Nat /\ at <= Len(format)
         /\ f <= Len(line[n].flags) /\ w <= Len(line[n].width)
         /\ m <= Len(PR!Modifier(line[n].length))
         /\ f < Len(line[n].flags) => w = 0 /\ m = 0 /\ PR!char = line[n].flags[f + 1]
         /\ f = Len(line[n].flags) /\ w < Len(line[n].width) =>
              m = 0 /\ PR!char = line[n].width[w + 1]
         /\ /\ f = Len(line[n].flags) /\ w = Len(line[n].width)
            /\ m < Len(PR!Modifier(line[n].length))
            => PR!char = PR!Modifier(line[n].length)[m + 1]
         /\ /\ f = Len(line[n].flags) /\ w = Len(line[n].width)
            /\ m = Len(PR!Modifier(line[n].length))
            => PR!char = line[n].conversion /\ at = Begins(line, n + 1)
<1>1. /\ line \in Calls /\ format = PR!Format(line) /\ n \in 1..2
      /\ f \in Nat /\ w \in Nat /\ m \in Nat /\ ReadsDirective(n, f, w, m)
  BY DEF Inside
<1>2. PICK d : d = line[n] /\ PR!IsDirective(d)
  BY <1>1, PartsLie
<1>3. PICK o \in Nat : o = Begins(line, n)
  BY <1>1, PartsLie
<1>4. PICK T, F, C, M \in Nat : /\ T = Len(d.text) /\ F = Len(d.flags) /\ C = Len(d.width)
                                /\ M = Len(PR!Modifier(d.length))
  BY <1>1, <1>2, PartsLie
<1>5. PICK L \in Nat : L = Len(format)
  BY <1>1, PartsLie
<1>6. /\ FlagsTo(d) = T + 1 /\ WidthTo(d) = T + 1 + F /\ ModifierTo(d) = T + 1 + F + C
      /\ LetterTo(d) = T + 1 + F + C + M
  BY <1>4 DEF FlagsTo, WidthTo, ModifierTo, LetterTo
<1>7. /\ Holds(format, o + (T + 1), d.flags)
      /\ Holds(format, o + (T + 1 + F), d.width)
      /\ Holds(format, o + (T + 1 + F + C), PR!Modifier(d.length))
      /\ format[o + (T + 1 + F + C + M) + 1] = d.conversion
      /\ Begins(line, n + 1) = o + (T + 1 + F + C + M) + 1
      /\ Begins(line, n + 1) <= L
  BY <1>1, <1>2, <1>3, <1>5, <1>6, PartsLie
<1>8. /\ at = o + (T + 1) + f + w + m + 1
      /\ f \in 0..F /\ w \in 0..C /\ m \in 0..M
      /\ w > 0 \/ m > 0 => f = F
      /\ m > 0 => w = C
  BY <1>1, <1>2, <1>3, <1>4, <1>6 DEF ReadsDirective, Progress
<1>9. at \in Nat /\ at <= L
  BY <1>1, <1>7, <1>8
<1>10. ASSUME f < F PROVE w = 0 /\ m = 0 /\ PR!char = d.flags[f + 1]
  <2>1. w = 0 /\ m = 0
    BY <1>1, <1>8, <1>10
  <2>2. at = (o + (T + 1)) + (f + 1) /\ f + 1 \in 1..F
    BY <1>1, <1>8, <1>10, <2>1
  <2>3. format[(o + (T + 1)) + (f + 1)] = d.flags[f + 1]
    BY <1>4, <1>7, <2>2 DEF Holds
  <2> QED BY <2>1, <2>2, <2>3 DEF PR!char
<1>11. ASSUME f = F, w < C PROVE m = 0 /\ PR!char = d.width[w + 1]
  <2>1. m = 0
    BY <1>1, <1>8, <1>11
  <2>2. at = (o + (T + 1 + F)) + (w + 1) /\ w + 1 \in 1..C
    BY <1>1, <1>8, <1>11, <2>1
  <2>3. format[(o + (T + 1 + F)) + (w + 1)] = d.width[w + 1]
    BY <1>4, <1>7, <2>2 DEF Holds
  <2> QED BY <2>1, <2>2, <2>3 DEF PR!char
<1>12. ASSUME f = F, w = C, m < M PROVE PR!char = PR!Modifier(d.length)[m + 1]
  <2>1. at = (o + (T + 1 + F + C)) + (m + 1) /\ m + 1 \in 1..M
    BY <1>1, <1>8, <1>12
  <2>2. format[(o + (T + 1 + F + C)) + (m + 1)] = PR!Modifier(d.length)[m + 1]
    BY <1>4, <1>7, <2>1 DEF Holds
  <2> QED BY <2>1, <2>2 DEF PR!char
<1>13. ASSUME f = F, w = C, m = M
       PROVE  PR!char = d.conversion /\ at = Begins(line, n + 1)
  <2>1. at = o + (T + 1 + F + C + M) + 1
    BY <1>1, <1>8, <1>13
  <2> QED BY <1>7, <2>1 DEF PR!char
<1>14. f <= F /\ w <= C /\ m <= M
  BY <1>1, <1>8
<1> QED BY <1>2, <1>3, <1>4, <1>5, <1>9, <1>10, <1>11, <1>12, <1>13, <1>14

\* A flag is noted.
LEMMA FlagStep ==
  ASSUME PR!PrintmAssumption, NEW n, NEW f, NEW w, NEW m, Inside(n, f, w, m), PR!Next,
         f < Len(line[n].flags)
  PROVE  ReadsDirective(n, f + 1, w, m)' /\ Kept
<1>1. PICK d : d = line[n] /\ PR!IsDirective(d)
  BY NextInside
<1>2. /\ f \in Nat /\ w = 0 /\ m = 0 /\ PR!char = d.flags[f + 1] /\ Len(d.flags) \in Nat
      /\ at \in Nat /\ Len(format) \in Nat /\ at <= Len(format) /\ f < Len(d.flags)
      /\ Len(d.width) \in Nat /\ Len(PR!Modifier(d.length)) \in Nat
      /\ Begins(line, n) \in Nat /\ Len(d.text) \in Nat
  BY <1>1, NextInside DEF Inside
<1>3. PICK c : c = d.flags[f + 1] /\ c \in PR!Flags
  <2>1. f + 1 \in 1..Len(d.flags)
    BY <1>2
  <2> QED BY <1>1, <2>1 DEF PR!IsDirective
<1>4. /\ at = Begins(line, n) + FlagsTo(d) + f + w + m + 1
      /\ ap = TakenTo(line, n)
      /\ buf = <<>> /\ out = OutputTo(line, n) \o d.text
      /\ "special" \in flags
      /\ flags \cap PR!Flags = {d.flags[k] : k \in 1..f}
      /\ "fdwidth" \in flags <=> w > 0 /\ m = 0
      /\ fdwidth = WidthRead(d, w)
      /\ "h" \in flags <=> d.length \in {"h", "hh"} /\ m > 0
      /\ "hh" \in flags <=> d.length = "hh" /\ m = 2
      /\ "l" \in flags <=> d.length \in {"l", "ll"} /\ m > 0
      /\ "ll" \in flags <=> d.length = "ll" /\ m = 2
  BY <1>1 DEF Inside, ReadsDirective
<1>5. "fdwidth" \notin flags
  BY <1>2, <1>4
<1>6. PR!FlagModifier
  BY <1>2, <1>3, <1>4, <1>5, ActionInside
<1>7. /\ Kept /\ at' = at + 1 /\ fdwidth' = fdwidth /\ flags' = flags \cup {c}
  BY <1>2, <1>3, <1>5, <1>6 DEF PR!FlagModifier, PR!Advance, Kept
<1>8. flags' \cap PR!Flags = {d.flags[k] : k \in 1..(f + 1)}
  <2>1. 1..(f + 1) = (1..f) \cup {f + 1}
    BY <1>2
  <2>2. {d.flags[k] : k \in 1..(f + 1)} = {d.flags[k] : k \in 1..f} \cup {c}
    BY <1>3, <2>1
  <2> QED BY <1>3, <1>4, <1>7, <2>2
<1>9. {"special", "fdwidth", "h", "hh", "l", "ll"} \cap PR!Flags = {}
  BY DEF PR!Flags
<1>10. /\ "special" \in flags' /\ ("fdwidth" \in flags' <=> "fdwidth" \in flags)
       /\ ("h" \in flags' <=> "h" \in flags) /\ ("hh" \in flags' <=> "hh" \in flags)
       /\ ("l" \in flags' <=> "l" \in flags) /\ ("ll" \in flags' <=> "ll" \in flags)
  BY <1>3, <1>4, <1>7, <1>9
<1>11. at' = Begins(line, n) + FlagsTo(d) + (f + 1) + w + m + 1
  <2>1. FlagsTo(d) \in Nat
    BY <1>2 DEF FlagsTo
  <2> QED BY <1>2, <1>4, <1>7, <2>1
<1>12. line' = line /\ line'[n] = d /\ ap' = ap /\ buf' = buf /\ out' = out
  BY <1>1, <1>7 DEF Kept
<1>13. Progress(n, f + 1, w, m)'
  <2>1. /\ f + 1 \in 0..Len(d.flags) /\ w \in 0..Len(d.width)
        /\ m \in 0..Len(PR!Modifier(d.length)) /\ ~(w > 0) /\ ~(m > 0)
    BY <1>2
  <2> QED BY <1>12, <2>1 DEF Progress
<1> QED BY <1>4, <1>7, <1>8, <1>10, <1>11, <1>12, <1>13 DEF ReadsDirective

\* One further.
LEMMA FurtherIs ==
  ASSUME NEW o \in Nat, NEW g \in Nat, NEW f \in Nat, NEW w \in Nat, NEW m \in Nat
  PROVE  /\ (o + g + f + w + m + 1) + 1 = o + g + f + (w + 1) + m + 1
         /\ (o + g + f + w + m + 1) + 1 = o + g + f + w + (m + 1) + 1
OBVIOUS

\* A digit of a width, and what of the width was read before and behind it.
LEMMA WidthDigit ==
  ASSUME PR!PrintmAssumption, NEW d, PR!IsDirective(d), NEW w \in Nat, w < Len(d.width)
  PROVE  \E j \in 1..10 : /\ d.width[w + 1] = PR!Digits[j] /\ (j = 1 => w > 0)
                          /\ WidthRead(d, w + 1) = WidthRead(d, w) * 10 + j - 1
<1>1. d.width # <<>>
  <2>1. d.width = <<>> => Len(d.width) = 0
    BY WidthChars
  <2> QED BY <2>1
<1>2. PICK c : c = PR!Columns(d)
  OBVIOUS
<1>3. CASE c < 10
  <2>1. c \in 1..9 /\ d.width[1] = PR!Digits[c + 1] /\ Len(d.width) = 1
    BY <1>1, <1>2, <1>3, WidthChars
  <2>2. w = 0 /\ w + 1 = 1 /\ c + 1 \in 1..10 /\ c + 1 # 1
    BY <2>1
  <2>3. WidthRead(d, 0) = 0 /\ WidthRead(d, 1) = c
    BY <1>2, <2>1 DEF WidthRead
  <2>4. c = 0 * 10 + (c + 1) - 1
    BY <2>1
  <2> QED BY <2>1, <2>2, <2>3, <2>4
<1>4. CASE ~(c < 10)
  <2>1. c \in Nat
    BY <1>2, ColumnsAre
  <2>2. c >= 10
    BY <1>4, <2>1
  <2>3. PICK q \in 1..9, r \in 0..9 :
          /\ q = c \div 10 /\ r = c % 10 /\ q * 10 + r = c
          /\ d.width[1] = PR!Digits[q + 1] /\ d.width[2] = PR!Digits[r + 1]
    BY <1>1, <1>2, <2>2, WidthChars
  <2>4. Len(d.width) = 2
    BY <1>1, <1>2, <1>4, WidthChars
  <2>5. WidthRead(d, 0) = 0 /\ WidthRead(d, 1) = q /\ WidthRead(d, 2) = c
    BY <1>2, <2>3, <2>4 DEF WidthRead
  <2>6. CASE w = 0
    <3>1. w + 1 = 1 /\ q + 1 \in 1..10 /\ q + 1 # 1 /\ q = 0 * 10 + (q + 1) - 1
      BY <2>6
    <3> QED BY <2>3, <2>5, <2>6, <3>1
  <2>7. CASE w = 1
    <3>1. w + 1 = 2 /\ w > 0 /\ r + 1 \in 1..10
      BY <2>7
    <3>2. c = q * 10 + (r + 1) - 1
      BY <2>3
    <3> QED BY <2>3, <2>5, <2>7, <3>1, <3>2
  <2>8. w = 0 \/ w = 1
    BY <2>4
  <2> QED BY <2>6, <2>7, <2>8
<1> QED BY <1>3, <1>4

\* A digit of the width is added to the digits before it.
LEMMA WidthStep ==
  ASSUME PR!PrintmAssumption, NEW n, NEW f, NEW w, NEW m, Inside(n, f, w, m), PR!Next,
         f = Len(line[n].flags), w < Len(line[n].width)
  PROVE  ReadsDirective(n, f, w + 1, m)' /\ Kept
<1>1. PICK d : d = line[n] /\ PR!IsDirective(d)
  BY NextInside
<1>2. /\ f \in Nat /\ w \in Nat /\ m = 0 /\ PR!char = d.width[w + 1]
      /\ f = Len(d.flags) /\ w < Len(d.width) /\ Len(d.width) \in Nat
      /\ at \in Nat /\ Len(format) \in Nat /\ at <= Len(format)
      /\ Len(PR!Modifier(d.length)) \in Nat
      /\ Begins(line, n) \in Nat /\ Len(d.text) \in Nat
  BY <1>1, NextInside DEF Inside
<1>3. PICK j \in 1..10 : /\ d.width[w + 1] = PR!Digits[j] /\ (j = 1 => w > 0)
                         /\ WidthRead(d, w + 1) = WidthRead(d, w) * 10 + j - 1
  BY <1>1, <1>2, WidthDigit
<1>4. /\ at = Begins(line, n) + FlagsTo(d) + f + w + m + 1
      /\ ap = TakenTo(line, n)
      /\ buf = <<>> /\ out = OutputTo(line, n) \o d.text
      /\ "special" \in flags
      /\ flags \cap PR!Flags = {d.flags[k] : k \in 1..f}
      /\ "fdwidth" \in flags <=> w > 0 /\ m = 0
      /\ fdwidth = WidthRead(d, w)
      /\ "h" \in flags <=> d.length \in {"h", "hh"} /\ m > 0
      /\ "hh" \in flags <=> d.length = "hh" /\ m = 2
      /\ "l" \in flags <=> d.length \in {"l", "ll"} /\ m > 0
      /\ "ll" \in flags <=> d.length = "ll" /\ m = 2
  BY <1>1 DEF Inside, ReadsDirective
<1>5. j = 1 => "fdwidth" \in flags
  BY <1>2, <1>3, <1>4
<1>6. PR!FieldWidth /\ fdwidth' = fdwidth * 10 + j - 1
  BY <1>2, <1>3, <1>4, <1>5, ActionInside
<1>7. Kept /\ at' = at + 1 /\ flags' = flags \cup {"fdwidth"}
  BY <1>6 DEF PR!FieldWidth, PR!Advance, Kept
<1>8. "fdwidth" \notin PR!Flags
  BY DEF PR!Flags
<1>9. /\ flags' \cap PR!Flags = {d.flags[k] : k \in 1..f}
      /\ "special" \in flags' /\ "fdwidth" \in flags'
      /\ ("h" \in flags' <=> "h" \in flags) /\ ("hh" \in flags' <=> "hh" \in flags)
      /\ ("l" \in flags' <=> "l" \in flags) /\ ("ll" \in flags' <=> "ll" \in flags)
  BY <1>4, <1>7, <1>8
<1>10. at' = Begins(line, n) + FlagsTo(d) + f + (w + 1) + m + 1
  <2>1. PICK o, g \in Nat : o = Begins(line, n) /\ g = FlagsTo(d)
    BY <1>2 DEF FlagsTo
  <2>2. at' = (o + g + f + w + m + 1) + 1
    BY <1>4, <1>7, <2>1
  <2>3. f \in Nat /\ w \in Nat /\ m \in Nat
    BY DEF Inside
  <2>4. (o + g + f + w + m + 1) + 1 = o + g + f + (w + 1) + m + 1
    BY ONLY <2>1, <2>3, FurtherIs
  <2> QED BY <2>1, <2>2, <2>4
<1>14. w + 1 > 0
  BY <1>2
<1>11. line' = line /\ line'[n] = d /\ ap' = ap /\ buf' = buf /\ out' = out
  BY <1>1, <1>7 DEF Kept
<1>12. Progress(n, f, w + 1, m)'
  <2>1. /\ f \in 0..Len(d.flags) /\ w + 1 \in 0..Len(d.width)
        /\ m \in 0..Len(PR!Modifier(d.length)) /\ ~(m > 0)
    BY <1>2
  <2> QED BY <1>2, <1>11, <2>1 DEF Progress
<1>13. fdwidth' = WidthRead(d, w + 1)
  BY <1>3, <1>4, <1>6
<1> QED BY <1>2, <1>4, <1>7, <1>9, <1>10, <1>11, <1>12, <1>13, <1>14 DEF ReadsDirective

\* The first h or l of a modifier and the second one are told apart.
LEMMA ModifierStep ==
  ASSUME PR!PrintmAssumption, NEW n, NEW f, NEW w, NEW m, Inside(n, f, w, m), PR!Next,
         f = Len(line[n].flags), w = Len(line[n].width),
         m < Len(PR!Modifier(line[n].length))
  PROVE  ReadsDirective(n, f, w, m + 1)' /\ Kept
<1>1. PICK d : d = line[n] /\ PR!IsDirective(d)
  BY NextInside
<1>2. PICK M \in Nat : M = Len(PR!Modifier(d.length))
  BY <1>1, NextInside
<1>3. /\ f \in Nat /\ w \in Nat /\ m \in Nat /\ PR!char = PR!Modifier(d.length)[m + 1]
      /\ f = Len(d.flags) /\ w = Len(d.width) /\ m < M
      /\ at \in Nat /\ Len(format) \in Nat /\ at <= Len(format)
      /\ Begins(line, n) \in Nat /\ Len(d.text) \in Nat
  BY <1>1, <1>2, NextInside DEF Inside
<1>4. d.length \in PR!Lengths
  BY <1>1 DEF PR!IsDirective
<1>5. /\ d.length = "" => M = 0
      /\ d.length \in {"hh", "ll"} => M = 2
      /\ d.length \in {"h", "l", "z"} => M = 1
      /\ PR!char = IF d.length \in {"h", "hh"} THEN "h" ELSE IF d.length = "z" THEN "z" ELSE "l"
  <2>1. m + 1 \in 1..M
    BY <1>3
  <2> QED BY <1>2, <1>3, <1>4, <2>1, ModifierIs
<1>6. /\ at = Begins(line, n) + FlagsTo(d) + f + w + m + 1
      /\ ap = TakenTo(line, n)
      /\ buf = <<>> /\ out = OutputTo(line, n) \o d.text
      /\ "special" \in flags
      /\ flags \cap PR!Flags = {d.flags[k] : k \in 1..f}
      /\ fdwidth = WidthRead(d, w)
      /\ "h" \in flags <=> d.length \in {"h", "hh"} /\ m > 0
      /\ "hh" \in flags <=> d.length = "hh" /\ m = 2
      /\ "l" \in flags <=> d.length \in {"l", "ll"} /\ m > 0
      /\ "ll" \in flags <=> d.length = "ll" /\ m = 2
  BY <1>1 DEF Inside, ReadsDirective
<1>7. /\ m # 2 /\ (m > 0 <=> m = 1) /\ (m = 0 <=> m # 1)
      /\ m = 1 => M # 1 /\ M # 0
  <2>1. M \in {0, 1, 2}
    BY <1>4, <1>5 DEF PR!Lengths
  <2> QED BY <1>3, <2>1
<1>8. {"h", "hh", "l", "ll", "fdwidth"} \cap PR!Flags = {}
  BY DEF PR!Flags
<1>9. /\ Kept /\ at' = at + 1 /\ fdwidth' = fdwidth
      /\ flags' \cap PR!Flags = flags \cap PR!Flags
      /\ "special" \in flags' /\ "fdwidth" \notin flags'
      /\ "h" \in flags' <=> d.length \in {"h", "hh"}
      /\ "hh" \in flags' <=> d.length = "hh" /\ m = 1
      /\ "l" \in flags' <=> d.length \in {"l", "ll"}
      /\ "ll" \in flags' <=> d.length = "ll" /\ m = 1
  <2>1. CASE d.length \in {"h", "hh"}
    <3>1. PR!char = "h" /\ ("h" \in flags <=> m > 0) /\ "hh" \notin flags
          /\ "l" \notin flags /\ "ll" \notin flags
      BY <1>5, <1>6, <1>7, <2>1
    <3>2. PR!LengthModifier
      BY <1>3, <1>6, <3>1, ActionInside
    <3>3. /\ Kept /\ at' = at + 1 /\ fdwidth' = fdwidth
          /\ flags' = (flags \ {"fdwidth"}) \cup {"h"} \cup (IF m = 0 THEN {} ELSE {"hh"})
      BY <1>7, <3>1, <3>2 DEF PR!LengthModifier, PR!Advance, Kept
    <3>4. m = 1 => d.length = "hh"
      BY <1>5, <1>7, <2>1
    <3> QED BY <1>6, <1>7, <1>8, <2>1, <3>1, <3>3, <3>4
  <2>2. CASE d.length \in {"l", "ll"}
    <3>1. PR!char = "l" /\ ("l" \in flags <=> m > 0) /\ "ll" \notin flags
          /\ "h" \notin flags /\ "hh" \notin flags
      BY <1>5, <1>6, <1>7, <2>2
    <3>2. PR!LengthModifier
      BY <1>3, <1>6, <3>1, ActionInside
    <3>3. /\ Kept /\ at' = at + 1 /\ fdwidth' = fdwidth
          /\ flags' = (flags \ {"fdwidth"}) \cup {"l"} \cup (IF m = 0 THEN {} ELSE {"ll"})
      BY <1>7, <3>1, <3>2 DEF PR!LengthModifier, PR!Advance, Kept
    <3>4. m = 1 => d.length = "ll"
      BY <1>5, <1>7, <2>2
    <3> QED BY <1>6, <1>7, <1>8, <2>2, <3>1, <3>3, <3>4
  <2>3. CASE d.length = "z"
    <3>1. PR!char = "z" /\ "h" \notin flags /\ "hh" \notin flags
          /\ "l" \notin flags /\ "ll" \notin flags
      BY <1>5, <1>6, <2>3
    <3>2. PR!Skip
      BY <1>3, <1>6, <3>1, ActionInside
    <3>3. Kept /\ at' = at + 1 /\ fdwidth' = fdwidth /\ flags' = flags \ {"fdwidth"}
      BY <3>2 DEF PR!Skip, PR!Advance, Kept
    <3> QED BY <1>6, <1>8, <2>3, <3>1, <3>3
  <2>4. d.length # ""
    <3>1. M # 0
      BY <1>3
    <3> QED BY <1>5, <3>1
  <2> QED BY <1>4, <2>1, <2>2, <2>3, <2>4 DEF PR!Lengths
<1>10. at' = Begins(line, n) + FlagsTo(d) + f + w + (m + 1) + 1
  <2>1. PICK o, g \in Nat : o = Begins(line, n) /\ g = FlagsTo(d)
    BY <1>3 DEF FlagsTo
  <2>2. at' = (o + g + f + w + m + 1) + 1
    BY <1>6, <1>9, <2>1
  <2>3. f \in Nat /\ w \in Nat /\ m \in Nat
    BY DEF Inside
  <2>4. (o + g + f + w + m + 1) + 1 = o + g + f + w + (m + 1) + 1
    BY ONLY <2>1, <2>3, FurtherIs
  <2> QED BY <2>1, <2>2, <2>4
<1>13. m + 1 > 0 /\ m + 1 # 0 /\ (m + 1 = 2 <=> m = 1)
  BY <1>3
<1>11. line' = line /\ line'[n] = d /\ ap' = ap /\ buf' = buf /\ out' = out
  BY <1>1, <1>9 DEF Kept
<1>12. Progress(n, f, w, m + 1)'
  <2>1. f \in 0..Len(d.flags) /\ w \in 0..Len(d.width) /\ m + 1 \in 0..M
    BY <1>3
  <2> QED BY <1>2, <1>3, <1>11, <2>1 DEF Progress
<1> QED BY <1>6, <1>9, <1>10, <1>11, <1>12, <1>13 DEF ReadsDirective

\* The interpreter is ready for the conversion when it read all before it.
LEMMA LetterReady ==
  ASSUME PR!PrintmAssumption, NEW n, NEW f, NEW w, NEW m, Inside(n, f, w, m), PR!Next,
         f = Len(line[n].flags), w = Len(line[n].width),
         m = Len(PR!Modifier(line[n].length))
  PROVE  Ready(line[n]) /\ Converts
<1>1. PICK d : d = line[n] /\ PR!IsDirective(d)
  BY NextInside
<1>2. /\ PR!char = d.conversion /\ f = Len(d.flags) /\ w = Len(d.width)
      /\ m = Len(PR!Modifier(d.length)) /\ f \in Nat /\ w \in Nat /\ m \in Nat
      /\ at \in Nat /\ Len(format) \in Nat /\ at <= Len(format)
  BY <1>1, NextInside DEF Inside
<1>3. /\ ap = TakenTo(line, n)
      /\ "special" \in flags
      /\ flags \cap PR!Flags = {d.flags[k] : k \in 1..f}
      /\ fdwidth = WidthRead(d, w)
      /\ "h" \in flags <=> d.length \in {"h", "hh"} /\ m > 0
      /\ "hh" \in flags <=> d.length = "hh" /\ m = 2
      /\ "l" \in flags <=> d.length \in {"l", "ll"} /\ m > 0
      /\ "ll" \in flags <=> d.length = "ll" /\ m = 2
  BY <1>1 DEF Inside, ReadsDirective
<1>4. d.length \in PR!Lengths /\ d.conversion \in PR!Conversions /\ d.flags \in Seq(PR!Flags)
  BY <1>1 DEF PR!IsDirective
<1>5. PR!Special /\ Converts
  BY <1>2, <1>3, <1>4, ActionInside
<1>6. /\ d.length \in {"hh", "ll"} => m = 2
      /\ d.length \in {"h", "l"} => m = 1
  BY <1>2, <1>4, ModifierIs
<1>7. /\ d.length \in {"hh", "ll"} => m = 2 /\ m > 0
      /\ d.length \in {"h", "l"} => m > 0
  <2>1. 2 > 0 /\ 1 > 0
    BY ONLY 0 \in Nat
  <2> QED BY <1>6, <2>1
<1>8. /\ "hh" \in flags <=> d.length = "hh"
      /\ "h" \in flags <=> d.length \in {"h", "hh"}
      /\ "ll" \in flags <=> d.length = "ll"
      /\ "l" \in flags <=> d.length \in {"l", "ll"}
  BY <1>3, <1>7
<1>9. fdwidth = PR!Columns(d)
  <2>1. CASE d.width = <<>>
    <3>1. Len(d.width) = 0 /\ PR!Columns(d) = 0
      BY <1>1, <2>1, WidthChars
    <3> QED BY <1>2, <1>3, <3>1 DEF WidthRead
  <2>2. CASE d.width # <<>>
    <3>1. Len(d.width) = IF PR!Columns(d) < 10 THEN 1 ELSE 2
      BY <1>1, <2>2, WidthChars
    <3>2. Len(d.width) # 0
      BY <3>1
    <3> QED BY <1>2, <1>3, <3>2 DEF WidthRead
  <2> QED BY <2>1, <2>2
<1>10. ASSUME NEW flag \in PR!Flags PROVE flag \in flags <=> PR!Has(d, flag)
  <2>1. flag \in flags <=> \E k \in 1..f : d.flags[k] = flag
    BY <1>3
  <2>2. DOMAIN d.flags = 1..f
    BY <1>2, <1>4
  <2> QED BY <2>1, <2>2 DEF PR!Has
<1>11. d.conversion \notin {"%"} \cup PR!Unsupported => PR!Arguments[ap + 1] = d
  <2>1. line \in Calls /\ n \in 1..2
    BY DEF Inside
  <2> QED BY <1>1, <1>3, <2>1, ArgumentsFollow
<1> QED BY <1>1, <1>2, <1>5, <1>8, <1>9, <1>10, <1>11 DEF Ready

\* A conversion prints the directive and takes its argument.
LEMMA ConversionPrints ==
  ASSUME PR!PrintmAssumption, NEW d, PR!IsDirective(d), Ready(d), Converts
  PROVE  PR!EndSpecial(PR!Printed(d),
                       IF d.conversion \in {"%"} \cup PR!Unsupported THEN 0 ELSE 1)
<1>1. PR!char = d.conversion /\ d.conversion \in PR!Conversions
  BY DEF Ready, PR!IsDirective
<1>2. ASSUME \/ PR!SignedDecimal \/ PR!UnsignedDecimal \/ PR!Octal
             \/ PR!LowerHexadecimal \/ PR!UpperHexadecimal
      PROVE  PR!EndSpecial(PR!Printed(d), 1)
  BY <1>2, NumberPrints
<1>3. ASSUME PR!Character \/ PR!CString PROVE PR!EndSpecial(PR!Printed(d), 1)
  BY <1>3, StringPrints
<1>4. ASSUME PR!Percent \/ PR!NotSupported PROVE PR!EndSpecial(PR!Printed(d), 0)
  BY <1>4, StringPrints
<1>5. CASE d.conversion \in {"%"} \cup PR!Unsupported
  <2>1. PR!char \in {"%"} \cup PR!Unsupported
    BY <1>1, <1>5
  <2>2. /\ ~PR!SignedDecimal /\ ~PR!UnsignedDecimal /\ ~PR!Octal
        /\ ~PR!LowerHexadecimal /\ ~PR!UpperHexadecimal /\ ~PR!Character /\ ~PR!CString
    BY <2>1 DEF PR!SignedDecimal, PR!UnsignedDecimal, PR!Octal, PR!LowerHexadecimal,
       PR!UpperHexadecimal, PR!Character, PR!CString, PR!Unsupported
  <2> QED BY <1>4, <1>5, <2>2 DEF Converts
<1>6. CASE d.conversion \notin {"%"} \cup PR!Unsupported
  <2>1. PR!char \notin {"%"} \cup PR!Unsupported
    BY <1>1, <1>6
  <2>2. ~PR!Percent /\ ~PR!NotSupported
    BY <2>1 DEF PR!Percent, PR!NotSupported
  <2> QED BY <1>2, <1>3, <1>6, <2>2 DEF Converts
<1> QED BY <1>5, <1>6

\* A directive that is printed makes the output longer by its text and itself.
LEMMA OutputGrows ==
  ASSUME NEW ds, NEW n \in 1..2, OutputTo(ds, n) \in Seq(Chars),
         ds[n].text \in Seq(Chars), PR!Printed(ds[n]) \in Seq(Chars)
  PROVE  /\ OutputTo(ds, n + 1) = (OutputTo(ds, n) \o ds[n].text) \o PR!Printed(ds[n])
         /\ OutputTo(ds, n + 1) \in Seq(Chars)
<1>1. PICK x \in Seq(Chars) : x = OutputTo(ds, n)
  OBVIOUS
<1>2. PICK y \in Seq(Chars) : y = ds[n].text
  OBVIOUS
<1>3. PICK z \in Seq(Chars) : z = PR!Printed(ds[n])
  OBVIOUS
<1>4. Output(ds[n]) = y \o z /\ y \o z \in Seq(Chars)
  BY <1>2, <1>3, Joined DEF Output
<1>5. (x \o y) \o z = x \o (y \o z) /\ x \o (y \o z) \in Seq(Chars)
  <2>1. (x \o y) \o z = x \o (y \o z)
    BY ConcatAssociative
  <2>2. x \o (y \o z) \in Seq(Chars)
    BY <1>4, Joined
  <2> QED BY <2>1, <2>2
<1>6. OutputTo(ds, n + 1) = x \o (y \o z)
  <2>1. CASE n = 1
    <3>1. OutputTo(ds, n + 1) = y \o z /\ x = <<>>
      <4>1. n + 1 = 2
        BY <2>1
      <4> QED BY <1>1, <1>4, <2>1, <4>1 DEF OutputTo
    <3>2. PICK v \in Seq(Chars) : v = y \o z
      BY <1>4
    <3>3. <<>> \o v = v
      OBVIOUS
    <3> QED BY <3>1, <3>2, <3>3
  <2>2. CASE n = 2
    <3>1. n + 1 = 3
      BY <2>2
    <3>2. x = Output(ds[1])
      BY <1>1, <2>2 DEF OutputTo
    <3>3. Output(ds[2]) = y \o z
      BY <1>4, <2>2
    <3>4. OutputTo(ds, 3) = Output(ds[1]) \o Output(ds[2])
      BY DEF OutputTo
    <3> QED BY <3>1, <3>2, <3>3, <3>4
  <2>3. n = 1 \/ n = 2
    OBVIOUS
  <2> QED BY <2>1, <2>2, <2>3
<1> QED BY <1>1, <1>2, <1>3, <1>5, <1>6

\* A conversion ends its directive.
LEMMA LetterStep ==
  ASSUME PR!PrintmAssumption, NEW n, NEW f, NEW w, NEW m, Inside(n, f, w, m), PR!Next,
         f = Len(line[n].flags), w = Len(line[n].width),
         m = Len(PR!Modifier(line[n].length))
  PROVE  /\ Between(n + 1)' /\ UNCHANGED <<line, format>>
         /\ out' \in Seq(Chars) /\ buf' = <<>> /\ out' = OutputTo(line, n + 1)
<1>1. PICK d : d = line[n] /\ PR!IsDirective(d)
  BY NextInside
<1>2. /\ line \in Calls /\ n \in 1..2 /\ OutputTo(line, n) \in Seq(Chars)
      /\ out = OutputTo(line, n) \o d.text /\ ap = TakenTo(line, n)
  BY <1>1 DEF Inside, ReadsDirective
<1>3. Ready(d) /\ Converts
  BY <1>1, LetterReady
<1>4. PR!EndSpecial(PR!Printed(d),
                    IF d.conversion \in {"%"} \cup PR!Unsupported THEN 0 ELSE 1)
  BY <1>1, <1>3, ConversionPrints
<1>5. PICK k : k = IF d.conversion \in {"%"} \cup PR!Unsupported THEN 0 ELSE 1
  OBVIOUS
<1>6. /\ line' = line /\ format' = format /\ at' = at + 1 /\ out' = out \o PR!Printed(d)
      /\ ap' = ap + k /\ flags' = {} /\ buf' = <<>>
  BY <1>4, <1>5 DEF PR!EndSpecial, PR!Advance
<1>7. d.text \in Seq(Chars) /\ PR!Printed(d) \in Seq(Chars)
  BY <1>1, TextsAre, CharsPrinted
<1>8. out' = OutputTo(line, n + 1) /\ out' \in Seq(Chars)
  BY <1>1, <1>2, <1>6, <1>7, OutputGrows
<1>9. at' = Begins(line, n + 1) + 1
  BY <1>6, NextInside
<1>10. ap' = TakenTo(line, n + 1)
  <2>1. /\ TakenTo(line, n) \in Nat
        /\ d.conversion \in {"%"} \cup PR!Unsupported =>
             TakenTo(line, n + 1) = TakenTo(line, n)
        /\ d.conversion \notin {"%"} \cup PR!Unsupported =>
             TakenTo(line, n + 1) = TakenTo(line, n) + 1
    BY <1>1, <1>2, ArgumentsFollow
  <2>2. CASE d.conversion \in {"%"} \cup PR!Unsupported
    <3>1. k = 0
      BY <1>5, <2>2
    <3>2. ap' = TakenTo(line, n) + 0
      BY <1>2, <1>6, <3>1
    <3> QED BY <2>1, <2>2, <3>2
  <2>3. CASE d.conversion \notin {"%"} \cup PR!Unsupported
    <3>1. k = 1
      BY <1>5, <2>3
    <3> QED BY <1>2, <1>6, <2>1, <2>3, <3>1
  <2> QED BY <2>2, <2>3
<1>11. out' \o buf' = OutputTo(line, n + 1)
  <2>1. PICK x \in Seq(Chars) : x = out'
    BY <1>8
  <2>2. x \o <<>> = x
    OBVIOUS
  <2> QED BY <1>6, <1>8, <2>1, <2>2
<1> QED BY <1>6, <1>8, <1>9, <1>10, <1>11 DEF Between

\* A step inside a directive.
LEMMA DirectiveStep ==
  ASSUME PR!PrintmAssumption, NEW n, NEW f, NEW w, NEW m, Inside(n, f, w, m), PR!Next
  PROVE  PrintInv'
<1>1. PICK F, C, M \in Nat :
        /\ F = Len(line[n].flags) /\ C = Len(line[n].width)
        /\ M = Len(PR!Modifier(line[n].length))
        /\ f <= F /\ w <= C /\ m <= M
  BY NextInside
<1>2. /\ line \in Calls /\ format = PR!Format(line) /\ out \in Seq(Chars)
      /\ OutputTo(line, n) \in Seq(Chars) /\ n \in 1..2 /\ f \in Nat /\ w \in Nat /\ m \in Nat
      /\ buf = <<>>
  BY DEF Inside, ReadsDirective
<1>3. <<>> \in Seq(Chars)
  BY EmptySeq
<1>4. ASSUME Kept, \E g, v, u \in Nat : ReadsDirective(n, g, v, u)' PROVE PrintInv'
  <2>1. line' = line /\ format' = format /\ out' = out /\ buf' = buf
    BY <1>4 DEF Kept
  <2>2. /\ line' \in Calls /\ format' = PR!Format(line') /\ out' \in Seq(Chars)
        /\ buf' \in Seq(Chars) /\ OutputTo(line', n) \in Seq(Chars)
    BY <1>2, <1>3, <2>1
  <2> QED BY <1>2, <1>4, <2>2 DEF PrintInv
<1>5. CASE f < F
  <2>1. ReadsDirective(n, f + 1, w, m)' /\ Kept
    BY <1>1, <1>5, FlagStep
  <2>2. f + 1 \in Nat
    BY <1>2
  <2> QED BY <1>2, <1>4, <2>1, <2>2
<1>6. CASE f = F /\ w < C
  <2>1. ReadsDirective(n, f, w + 1, m)' /\ Kept
    BY <1>1, <1>6, WidthStep
  <2>2. w + 1 \in Nat
    BY <1>2
  <2> QED BY <1>2, <1>4, <2>1, <2>2
<1>7. CASE f = F /\ w = C /\ m < M
  <2>1. ReadsDirective(n, f, w, m + 1)' /\ Kept
    BY <1>1, <1>7, ModifierStep
  <2>2. m + 1 \in Nat
    BY <1>2
  <2> QED BY <1>2, <1>4, <2>1, <2>2
<1>8. CASE f = F /\ w = C /\ m = M
  <2>1. /\ Between(n + 1)' /\ line' = line /\ format' = format
        /\ out' \in Seq(Chars) /\ buf' = <<>> /\ out' = OutputTo(line, n + 1)
    BY <1>1, <1>8, LetterStep
  <2>2. CASE n = 1
    <3>1. n + 1 = 2 /\ 2 \in 1..2
      BY <2>2
    <3>2. PICK s \in Seq(Chars) : s = line[2].text /\ Len(s) \in Nat
      BY <1>2, <3>1, PartsLie, TextsAre
    <3>3. SubSeq(s, 1, 0) = <<>> /\ 0 \in 0..Len(s)
      BY <3>2
    <3>4. /\ at' = Begins(line', 2) + 1 /\ flags' = {} /\ ap' = TakenTo(line', 2)
          /\ out' \o buf' = OutputTo(line', 2)
      BY <2>1, <3>1 DEF Between
    <3>5. at' = Begins(line', 2) + 0 + 1
      BY <1>2, <2>1, <3>1, <3>4, PartsLie
    <3>6. OutputTo(line', 2) \o <<>> = OutputTo(line', 2)
      <4>1. PICK x \in Seq(Chars) : x = OutputTo(line', 2)
        BY <2>1, <3>1
      <4>2. x \o <<>> = x
        OBVIOUS
      <4> QED BY <4>1, <4>2
    <3>7. ReadsText(2, 0)'
      BY <2>1, <3>2, <3>3, <3>4, <3>5, <3>6 DEF ReadsText
    <3>8. /\ line' \in Calls /\ format' = PR!Format(line') /\ buf' \in Seq(Chars)
          /\ OutputTo(line', 2) \in Seq(Chars) /\ 0 \in 0..Len(line'[2].text)
      BY <1>2, <1>3, <2>1, <3>1, <3>2, <3>3
    <3> QED BY <2>1, <3>1, <3>7, <3>8 DEF PrintInv
  <2>3. CASE n = 2
    <3>1. n + 1 = 3
      BY <2>3
    <3>2. /\ line' \in Calls /\ format' = PR!Format(line') /\ buf' \in Seq(Chars)
      BY <1>2, <1>3, <2>1
    <3> QED BY <2>1, <3>1, <3>2 DEF PrintInv
  <2>4. n = 1 \/ n = 2
    BY <1>2
  <2> QED BY <2>2, <2>3, <2>4
<1>9. f < F \/ f = F
  BY <1>1, <1>2
<1>10. w < C \/ w = C
  BY <1>1, <1>2
<1>11. m < M \/ m = M
  BY <1>1, <1>2
<1> QED BY <1>5, <1>6, <1>7, <1>8, <1>9, <1>10, <1>11

\* The end of the string: what is left in the buffer is written.
LEMMA EndStep ==
  ASSUME PR!PrintmAssumption, line \in Calls, format = PR!Format(line),
         out \in Seq(Chars), buf \in Seq(Chars), Between(3), PR!Next
  PROVE  PrintInv'
<1>1. /\ at = Begins(line, 3) + 1 /\ flags = {} /\ out \o buf = OutputTo(line, 3)
      /\ Len(format) = Begins(line, 3) /\ Begins(line, 3) \in Nat
  BY FormatSpells DEF Between
<1>2. ~PR!Running
  BY <1>1 DEF PR!Running
<1>3. PR!LastFlush
  BY <1>1, <1>2, OutsideDirectives DEF PR!Text, PR!EnterSpecial
<1>4. /\ line' = line /\ format' = format /\ at' = at + 1 /\ out' = out \o buf /\ buf' = <<>>
  BY <1>3 DEF PR!LastFlush
<1>5. at' = Begins(line, 3) + 2 /\ out' = OutputTo(line, 3)
  BY <1>1, <1>4
<1>6. out' \in Seq(Chars) /\ buf' \in Seq(Chars)
  BY <1>4, Joined, EmptySeq
<1> QED BY <1>4, <1>5, <1>6 DEF PrintInv

\* After that there is no step.
LEMMA NoStepLeft ==
  ASSUME PR!PrintmAssumption, line \in Calls, format = PR!Format(line),
         at = Begins(line, 3) + 2
  PROVE  ~PR!Next
<1>1. Len(format) = Begins(line, 3) /\ Begins(line, 3) \in Nat
  BY FormatSpells
<1>2. ~PR!Running /\ at # Len(format) + 1
  BY <1>1 DEF PR!Running
<1>3. ~PR!Text /\ ~PR!EnterSpecial /\ ~PR!LastFlush /\ ~PR!Special
  BY <1>2 DEF PR!Text, PR!EnterSpecial, PR!LastFlush, PR!Special
<1>4. /\ ~PR!FieldWidth /\ ~PR!FlagModifier /\ ~PR!LengthModifier /\ ~PR!Skip
      /\ ~PR!SignedDecimal /\ ~PR!UnsignedDecimal /\ ~PR!Octal
      /\ ~PR!LowerHexadecimal /\ ~PR!UpperHexadecimal
      /\ ~PR!Character /\ ~PR!CString /\ ~PR!Percent /\ ~PR!NotSupported
  BY <1>3 DEF PR!FieldWidth, PR!FlagModifier, PR!LengthModifier, PR!Skip, PR!SignedDecimal,
     PR!UnsignedDecimal, PR!Octal, PR!LowerHexadecimal, PR!UpperHexadecimal, PR!Character,
     PR!CString, PR!Percent, PR!NotSupported
<1> QED BY <1>3, <1>4 DEF PR!Next

\* The invariant of printm is inductive.
LEMMA PrintStep == PR!PrintmAssumption /\ PrintInv /\ PR!Next => PrintInv'
<1> SUFFICES ASSUME PR!PrintmAssumption, PrintInv, PR!Next PROVE PrintInv'
  OBVIOUS
<1>1. /\ line \in Calls /\ format = PR!Format(line)
      /\ out \in Seq(Chars) /\ buf \in Seq(Chars)
  BY DEF PrintInv
<1>2. ASSUME NEW n \in 1..2, OutputTo(line, n) \in Seq(Chars), NEW k, ReadsText(n, k)
      PROVE  PrintInv'
  BY <1>1, <1>2, TextStep
<1>3. ASSUME NEW n \in 1..2, OutputTo(line, n) \in Seq(Chars), NEW f \in Nat, NEW w \in Nat,
             NEW m \in Nat, ReadsDirective(n, f, w, m)
      PROVE  PrintInv'
  <2>1. Inside(n, f, w, m)
    BY <1>1, <1>3 DEF Inside
  <2> QED BY <2>1, DirectiveStep
<1>4. ASSUME Between(3) PROVE PrintInv'
  BY <1>1, <1>4, EndStep
<1>5. ~(at = Begins(line, 3) + 2)
  BY <1>1, NoStepLeft
<1> QED BY <1>2, <1>3, <1>4, <1>5 DEF PrintInv

\* What the invariant says when the call returns.
LEMMA PrintEnds ==
  ASSUME PR!PrintmAssumption, PrintInv
  PROVE  PR!PrintsRight
<1> SUFFICES ASSUME PR!Finished
             PROVE  out = PR!FlattenSeq([n \in DOMAIN line |->
                                           line[n].text \o PR!Printed(line[n])])
  BY DEF PR!PrintsRight
<1>1. line \in Calls /\ format = PR!Format(line)
  BY DEF PrintInv
<1>2. at = Begins(line, 3) + 2 /\ Len(format) = Begins(line, 3) /\ Begins(line, 3) \in Nat
  BY <1>1, FormatSpells DEF PR!Finished
<1>3. ASSUME NEW n \in 1..2
      PROVE  /\ \A k : ~ReadsText(n, k)
             /\ \A f, w, m \in Nat : ~ReadsDirective(n, f, w, m)
  <2>1. PICK o, T, F, C, M \in Nat :
          /\ o = Begins(line, n) /\ T = Len(line[n].text) /\ F = Len(line[n].flags)
          /\ C = Len(line[n].width) /\ M = Len(PR!Modifier(line[n].length))
    BY <1>1, PartsLie
  <2>2. FlagsTo(line[n]) = T + 1 /\ LetterTo(line[n]) = T + 1 + F + C + M
    BY <2>1 DEF FlagsTo, WidthTo, ModifierTo, LetterTo
  <2>3. PICK L \in Nat : L = Begins(line, 3) /\ o + (T + 1 + F + C + M) + 1 <= L
    BY <1>1, <1>2, <2>1, <2>2, PartsLie
  <2>4. ASSUME NEW k, ReadsText(n, k) PROVE FALSE
    <3>1. k \in 0..T /\ at = o + k + 1
      BY <2>1, <2>4 DEF ReadsText
    <3>2. o + k + 1 < L + 2
      BY <2>3, <3>1
    <3> QED BY <1>2, <2>3, <3>1, <3>2
  <2>5. ASSUME NEW f \in Nat, NEW w \in Nat, NEW m \in Nat, ReadsDirective(n, f, w, m)
        PROVE  FALSE
    <3>1. /\ f \in 0..F /\ w \in 0..C /\ m \in 0..M
          /\ at = o + (T + 1) + f + w + m + 1
      BY <2>1, <2>2, <2>5 DEF ReadsDirective, Progress
    <3>2. o + (T + 1) + f + w + m + 1 < L + 2
      BY <2>3, <3>1
    <3> QED BY <1>2, <2>3, <3>1, <3>2
  <2> QED BY <2>4, <2>5
<1>4. ~Between(3)
  BY <1>2 DEF Between
<1>5. out = OutputTo(line, 3)
  BY <1>3, <1>4 DEF PrintInv
<1>6. PR!IsDirective(line[1]) /\ PR!IsDirective(line[2]) /\ DOMAIN line = 1..2
  BY <1>1, LineIs
<1>7. PICK s \in Seq(Chars) : s = Output(line[1])
  BY <1>6, CharsPrinted, TextsAre, Joined DEF Output
<1>8. PICK t \in Seq(Chars) : t = Output(line[2])
  BY <1>6, CharsPrinted, TextsAre, Joined DEF Output
<1>9. [n \in DOMAIN line |-> Output(line[n])] = <<s, t>>
  BY <1>6, <1>7, <1>8
<1>10. OutputTo(line, 3) = s \o t
  BY <1>7, <1>8 DEF OutputTo
<1> QED BY <1>5, <1>9, <1>10, FlattenTwo DEF Output

\* A step that leaves its variables alone keeps the invariant.
LEMMA PrintStays == PrintInv /\ UNCHANGED prVars => PrintInv'
<1> SUFFICES ASSUME PrintInv, UNCHANGED prVars PROVE PrintInv'
  OBVIOUS
<1>1. /\ line' = line /\ format' = format /\ at' = at /\ buf' = buf
      /\ flags' = flags /\ fdwidth' = fdwidth /\ ap' = ap /\ out' = out
  BY DEF prVars
<1>2. ASSUME NEW n, NEW k, ReadsText(n, k) PROVE ReadsText(n, k)'
  BY <1>1, <1>2 DEF ReadsText
<1>3. ASSUME NEW n, NEW f, NEW w, NEW m, ReadsDirective(n, f, w, m)
      PROVE  ReadsDirective(n, f, w, m)'
  BY <1>1, <1>3 DEF ReadsDirective, Progress
<1>4. Between(3) => Between(3)'
  BY <1>1 DEF Between
<1>5. PR!Format(line)' = PR!Format(line)
  BY <1>1 DEF PR!Format
<1>6. /\ line' \in Calls /\ format' = PR!Format(line)' /\ out' \in Seq(Chars)
      /\ buf' \in Seq(Chars)
  BY <1>1, <1>5 DEF PrintInv
<1>7. CASE \E n \in 1..2 :
             /\ OutputTo(line, n) \in Seq(Chars)
             /\ \/ \E k \in 0..Len(line[n].text) : ReadsText(n, k)
                \/ \E f, w, m \in Nat : ReadsDirective(n, f, w, m)
  <2>1. PICK n \in 1..2 :
          /\ OutputTo(line, n) \in Seq(Chars)
          /\ \/ \E k \in 0..Len(line[n].text) : ReadsText(n, k)
             \/ \E f, w, m \in Nat : ReadsDirective(n, f, w, m)
    BY <1>7
  <2>2. OutputTo(line, n)' \in Seq(Chars)
    BY <1>1, <2>1
  <2>3. \/ \E k \in 0..Len(line'[n].text) : ReadsText(n, k)'
        \/ \E f, w, m \in Nat : ReadsDirective(n, f, w, m)'
    BY <1>1, <1>2, <1>3, <2>1
  <2> QED BY <1>6, <2>2, <2>3 DEF PrintInv
<1>8. CASE Between(3)
  BY <1>4, <1>6, <1>8 DEF PrintInv
<1>9. CASE at = Begins(line, 3) + 2 /\ out = OutputTo(line, 3)
  <2>1. at' = Begins(line, 3)' + 2 /\ out' = OutputTo(line, 3)'
    BY <1>1, <1>9
  <2> QED BY <1>6, <2>1 DEF PrintInv
<1> QED BY <1>7, <1>8, <1>9 DEF PrintInv

-----------------------------------------------------------------------------
(***************************************************************************)
(* The routines side by side.  What MulDivProofs shows of a division is    *)
(* shown of the division here: the two instances are of the same module.   *)
(***************************************************************************)

\* What is assumed of MulDiv is assumed of both its instances.
LEMMA MulDivAssumed == MDP!MulDivAssumption
BY RoutinesAssumption
DEF MD!PowersOfTwo, MDP!PowersOfTwo, MD!MulDivAssumption, MDP!MulDivAssumption,
    MD!Products, MDP!Products, MD!Quotients, MDP!Quotients, MD!Remainders, MDP!Remainders

\* The calls of the two instances are the same.
LEMMA SameInit == MD!Init = MDP!Init
BY DEF MD!Init, MDP!Init, MD!Call, MDP!Call, MD!Numbers, MDP!Numbers, MD!Length, MDP!Length,
       MD!Doubles, MDP!Doubles, MD!W, MDP!W

\* The steps of the two instances are the same.
LEMMA SameNext == MD!Next = MDP!Next
BY DEF MD!Quotients, MDP!Quotients, MD!Remainders, MDP!Remainders, MD!Products, MDP!Products,
       MD!Doubles, MDP!Doubles, MD!Signed, MDP!Signed, MD!W, MDP!W, MD!HalfW,
       MDP!HalfW, MD!Numbers, MDP!Numbers, MD!Length, MDP!Length, MD!vars, MDP!vars,
       MD!IsZero, MDP!IsZero, MD!Negative, MDP!Negative, MD!Zero, MDP!Zero,
       MD!AllOnes, MDP!AllOnes, MD!Below, MDP!Below, MD!Negate, MDP!Negate, MD!Minus,
       MDP!Minus, MD!Plus, MDP!Plus, MD!ShiftLeft, MDP!ShiftLeft, MD!ShiftRight,
       MDP!ShiftRight, MD!BitAt, MDP!BitAt, MD!WithBit, MDP!WithBit, MD!Return,
       MDP!Return, MD!ZeroDivisor, MDP!ZeroDivisor, MD!EnterUnsigned,
       MDP!EnterUnsigned, MD!Magnitude, MDP!Magnitude, MD!EnterSigned,
       MDP!EnterSigned, MD!AlignShift, MDP!AlignShift, MD!AlignSubtract,
       MDP!AlignSubtract, MD!AlignDone, MDP!AlignDone, MD!Align, MDP!Align, MD!Divide,
       MDP!Divide, MD!Finish, MDP!Finish, MD!FixSign, MDP!FixSign, MD!Multiply,
       MDP!Multiply, MD!EnterMultiply, MDP!EnterMultiply, MD!MultiplyDone,
       MDP!MultiplyDone, MD!SINGLE_MUL, MDP!SINGLE_MUL, MD!DOUBLE_MUL, MDP!DOUBLE_MUL,
       MD!SINGLE_DIV, MDP!SINGLE_DIV, MD!DOUBLE_DIV, MDP!DOUBLE_DIV, MD!SINGLE_UDIV,
       MDP!SINGLE_UDIV, MD!DOUBLE_UDIV, MDP!DOUBLE_UDIV, MD!SINGLE_MOD,
       MDP!SINGLE_MOD, MD!DOUBLE_MOD, MDP!DOUBLE_MOD, MD!SINGLE_UMOD, MDP!SINGLE_UMOD,
       MD!DOUBLE_UMOD, MDP!DOUBLE_UMOD, MD!Next, MDP!Next

\* Their results are the same.
LEMMA SameResult == MDP!ResultRight => ResultRight
BY DEF ResultRight, MD!ResultRight, MDP!ResultRight, MD!Answer, MDP!Answer,
       MD!Unsigned, MDP!Unsigned, MD!Size, MDP!Size, MD!Value, MDP!Value, MD!Integer,
       MDP!Integer, MD!Abs, MDP!Abs, MD!Quotient, MDP!Quotient, MD!Remainder,
       MDP!Remainder, MD!Products, MDP!Products, MD!Quotients, MDP!Quotients,
       MD!Remainders, MDP!Remainders, MD!Signed, MDP!Signed, MD!Negative,
       MDP!Negative, MD!HalfW, MDP!HalfW, MD!W, MDP!W

\* Their divisions are the same.
LEMMA SameDivision == MDP!LongDivision => LongDivision
BY DEF LongDivision, MD!LongDivision, MDP!LongDivision,
       MD!Unsigned, MDP!Unsigned, MD!Size, MDP!Size, MD!Value, MDP!Value, MD!Integer,
       MDP!Integer, MD!Abs, MDP!Abs, MD!Below, MDP!Below, MD!Products, MDP!Products,
       MD!Quotients, MDP!Quotients, MD!Remainders, MDP!Remainders, MD!Signed,
       MDP!Signed, MD!Negative, MDP!Negative, MD!HalfW, MDP!HalfW, MD!W, MDP!W

\* The routine that is called keeps its invariant, and the others stay idle.
RoutinesInv ==
  /\ IF routine = "MulDiv"   THEN MDP!MulDivInv ELSE mdIdle
  /\ IF routine = "SbiCalls" THEN SbiInv        ELSE sbIdle
  /\ IF routine = "WalkPts"  THEN WalkInv       ELSE wpIdle
  /\ IF routine = "Cpio"     THEN CpioInv       ELSE cpIdle
  /\ IF routine = "Dtb"      THEN DtbInv        ELSE dtIdle
  /\ IF routine = "Printm"   THEN PrintInv      ELSE prIdle

\* A call of a routine enters the routine's invariant.
LEMMA RoutinesStart == RoutinesInit => RoutinesInv
<1> SUFFICES ASSUME RoutinesInit PROVE RoutinesInv
  OBVIOUS
<1>1. CASE routine = "MulDiv"
  <2>1. MD!Init /\ prIdle /\ sbIdle /\ wpIdle /\ cpIdle /\ dtIdle
    BY <1>1 DEF RoutinesInit
  <2>2. MDP!MulDivInv
    BY <2>1, SameInit, MulDivAssumed, MDP!InitMulDivInv
  <2> QED BY <1>1, <2>1, <2>2 DEF RoutinesInv
<1>2. CASE routine = "SbiCalls"
  <2>1. Init /\ mdIdle /\ prIdle /\ wpIdle /\ cpIdle /\ dtIdle
    BY <1>2 DEF RoutinesInit
  <2> QED BY <1>2, <2>1, InitSbiInv DEF RoutinesInv
<1>3. CASE routine = "WalkPts"
  <2>1. WP!Init /\ mdIdle /\ prIdle /\ sbIdle /\ cpIdle /\ dtIdle
    BY <1>3 DEF RoutinesInit
  <2>2. WalkInv
    BY <2>1, RoutinesAssumption, WalkStarts
  <2> QED BY <1>3, <2>1, <2>2 DEF RoutinesInv
<1>4. CASE routine = "Cpio"
  <2>1. CP!Init /\ mdIdle /\ prIdle /\ sbIdle /\ wpIdle /\ dtIdle
    BY <1>4 DEF RoutinesInit
  <2>2. CpioInv
    BY <2>1, RoutinesAssumption, CpioStarts
  <2> QED BY <1>4, <2>1, <2>2 DEF RoutinesInv
<1>5. CASE routine = "Dtb"
  <2>1. DT!Init /\ mdIdle /\ prIdle /\ sbIdle /\ wpIdle /\ cpIdle
    BY <1>5 DEF RoutinesInit
  <2>2. DtbInv
    BY <2>1, RoutinesAssumption, DtbStarts
  <2> QED BY <1>5, <2>1, <2>2 DEF RoutinesInv
<1>6. CASE routine = "Printm"
  <2>1. PR!Init /\ mdIdle /\ sbIdle /\ wpIdle /\ cpIdle /\ dtIdle
    BY <1>6 DEF RoutinesInit
  <2>2. PrintInv
    BY <2>1, RoutinesAssumption, PrintStarts
  <2> QED BY <1>6, <2>1, <2>2 DEF RoutinesInv
<1>7. routine \in {"MulDiv", "SbiCalls", "WalkPts", "Cpio", "Dtb", "Printm"}
  BY DEF RoutinesInit
<1> QED BY <1>1, <1>2, <1>3, <1>4, <1>5, <1>6, <1>7

\* A step of a routine keeps it, and touches no other routine.
LEMMA RoutinesStep == RoutinesInv /\ [RoutinesNext]_routineVars => RoutinesInv'
<1> SUFFICES ASSUME RoutinesInv, [RoutinesNext]_routineVars PROVE RoutinesInv'
  OBVIOUS
<1>1. routine' = routine
  BY DEF RoutinesNext, routineVars, CallMulDiv, CallPrintm, CallSbiCalls, CallCpio, CallDtb,
         CallWalkPts
<1>2. IF routine = "MulDiv" THEN [MD!Next]_mdVars ELSE UNCHANGED mdVars
  BY DEF RoutinesNext, routineVars, CallMulDiv, CallPrintm, CallSbiCalls, CallCpio, CallDtb,
         CallWalkPts
<1>3. IF routine = "SbiCalls" THEN [Next]_vars ELSE UNCHANGED vars
  BY DEF RoutinesNext, routineVars, CallMulDiv, CallPrintm, CallSbiCalls, CallCpio, CallDtb,
         CallWalkPts
<1>4. IF routine = "WalkPts" THEN [WP!Next]_wpVars ELSE UNCHANGED wpVars
  BY DEF RoutinesNext, routineVars, CallMulDiv, CallPrintm, CallSbiCalls, CallCpio, CallDtb,
         CallWalkPts
<1>5. IF routine = "MulDiv" THEN MDP!MulDivInv' ELSE mdIdle'
  <2>1. CASE routine = "MulDiv"
    <3>1. MDP!MulDivInv /\ [MD!Next]_mdVars
      BY <1>2, <2>1 DEF RoutinesInv
    <3>2. [MDP!Next]_(MDP!vars)
      BY <3>1, SameNext DEF mdVars, MDP!vars
    <3>3. MDP!MulDivInv'
      BY <3>1, <3>2, MulDivAssumed, MDP!NextMulDivInv
    <3> QED BY <2>1, <3>3
  <2>2. CASE routine # "MulDiv"
    <3>1. mdIdle /\ UNCHANGED mdVars
      BY <1>2, <2>2 DEF RoutinesInv
    <3> QED BY <2>2, <3>1 DEF mdIdle, mdVars
  <2> QED BY <2>1, <2>2
<1>6. IF routine = "SbiCalls" THEN SbiInv' ELSE sbIdle'
  <2>1. CASE routine = "SbiCalls"
    <3>1. SbiInv /\ [Next]_vars
      BY <1>3, <2>1 DEF RoutinesInv
    <3> QED BY <2>1, <3>1, NextSbiInv
  <2>2. CASE routine # "SbiCalls"
    <3>1. sbIdle /\ UNCHANGED vars
      BY <1>3, <2>2 DEF RoutinesInv
    <3> QED BY <2>2, <3>1 DEF sbIdle, vars, loop, world
  <2> QED BY <2>1, <2>2
<1>7. IF routine = "WalkPts" THEN WalkInv' ELSE wpIdle'
  <2>1. CASE routine = "WalkPts"
    <3>1. WalkInv /\ [WP!Next]_wpVars
      BY <1>4, <2>1 DEF RoutinesInv
    <3>2. CASE WP!Next
      BY <2>1, <3>1, <3>2, RoutinesAssumption, WalkSteps
    <3>3. CASE UNCHANGED wpVars
      BY <2>1, <3>1, <3>3
      DEF wpVars, WalkInv, WalkCalled, AtTable, AtField, BitsBelow, EntrySize, WP!Active,
          WP!WalkRight
    <3> QED BY <3>1, <3>2, <3>3
  <2>2. CASE routine # "WalkPts"
    <3>1. wpIdle /\ UNCHANGED wpVars
      BY <1>4, <2>2 DEF RoutinesInv
    <3> QED BY <2>2, <3>1 DEF wpIdle, wpVars
  <2> QED BY <2>1, <2>2
<1>8. IF routine = "Cpio" THEN CpioInv' ELSE cpIdle'
  <2>1. [CP!Next]_cpVars
    BY DEF RoutinesNext, routineVars, CallMulDiv, CallPrintm, CallSbiCalls, CallCpio, CallDtb,
           CallWalkPts
  <2>2. routine # "Cpio" => UNCHANGED cpVars
    BY DEF RoutinesNext, routineVars, CallMulDiv, CallPrintm, CallSbiCalls, CallCpio, CallDtb,
           CallWalkPts
  <2>3. CASE routine = "Cpio"
    <3>1. CpioInv
      BY <2>3 DEF RoutinesInv
    <3>2. CASE CP!Next
      BY <2>3, <3>1, <3>2, RoutinesAssumption, CpioSteps
    <3>3. CASE UNCHANGED cpVars
      BY <2>3, <3>1, <3>3 DEF cpVars, CpioInv, Passed, CP!CpioFound, CP!Matches
    <3> QED BY <2>1, <3>2, <3>3
  <2>4. CASE routine # "Cpio"
    <3>1. cpIdle /\ UNCHANGED cpVars
      BY <2>2, <2>4 DEF RoutinesInv
    <3> QED BY <2>4, <3>1 DEF cpIdle, cpVars
  <2> QED BY <2>3, <2>4
<1>9. IF routine = "Dtb" THEN DtbInv' ELSE dtIdle'
  <2>1. [DT!Next]_dtVars
    BY DEF RoutinesNext, routineVars, CallMulDiv, CallPrintm, CallSbiCalls, CallCpio, CallDtb,
           CallWalkPts
  <2>2. routine # "Dtb" => UNCHANGED dtVars
    BY DEF RoutinesNext, routineVars, CallMulDiv, CallPrintm, CallSbiCalls, CallCpio, CallDtb,
           CallWalkPts
  <2>3. CASE routine = "Dtb"
    <3>1. DtbInv
      BY <2>3 DEF RoutinesInv
    <3>2. CASE DT!Next
      BY <2>3, <3>1, <3>2, RoutinesAssumption, DtbSteps
    <3>3. CASE UNCHANGED dtVars
      BY <2>3, <3>1, <3>3, DtbStays
    <3> QED BY <2>1, <3>2, <3>3
  <2>4. CASE routine # "Dtb"
    <3>1. dtIdle /\ UNCHANGED dtVars
      BY <2>2, <2>4 DEF RoutinesInv
    <3> QED BY <2>4, <3>1 DEF dtIdle, dtVars
  <2> QED BY <2>3, <2>4
<1>10. IF routine = "Printm" THEN PrintInv' ELSE prIdle'
  <2>1. [PR!Next]_prVars
    BY DEF RoutinesNext, routineVars, CallMulDiv, CallPrintm, CallSbiCalls, CallCpio, CallDtb,
           CallWalkPts
  <2>2. routine # "Printm" => UNCHANGED prVars
    BY DEF RoutinesNext, routineVars, CallMulDiv, CallPrintm, CallSbiCalls, CallCpio, CallDtb,
           CallWalkPts
  <2>3. CASE routine = "Printm"
    <3>1. PrintInv
      BY <2>3 DEF RoutinesInv
    <3>2. CASE PR!Next
      BY <2>3, <3>1, <3>2, RoutinesAssumption, PrintStep
    <3>3. CASE UNCHANGED prVars
      BY <2>3, <3>1, <3>3, PrintStays
    <3> QED BY <2>1, <3>2, <3>3
  <2>4. CASE routine # "Printm"
    <3>1. prIdle /\ UNCHANGED prVars
      BY <2>2, <2>4 DEF RoutinesInv
    <3> QED BY <2>4, <3>1 DEF prIdle, prVars
  <2> QED BY <2>3, <2>4
<1> QED BY <1>1, <1>5, <1>6, <1>7, <1>8, <1>9, <1>10 DEF RoutinesInv

-----------------------------------------------------------------------------
(***************************************************************************)
(* The theorems.                                                           *)
(***************************************************************************)

\* What the loops over a mask have checked and sent at each of its bits, and
\* what the table says of the caller.
THEOREM SbiInvariant == Spec => []SbiInv
BY InitSbiInv, NextSbiInv, PTL DEF Spec

\* Whichever routine is called, its invariant holds and the others are idle.
THEOREM RoutinesInvariant == RoutinesSpec => []RoutinesInv
BY RoutinesStart, RoutinesStep, PTL DEF RoutinesSpec

\* TargetsReached, for registers of every width and every number of harts: an
\* interrupt or a fence reaches the harts that mask and base name, each once,
\* or none of them.
THEOREM TargetsAreReached == RoutinesSpec => []TargetsReached
<1>1. RoutinesInv => TargetsReached
  <2>1. sbIdle => TargetsReached
    BY DEF sbIdle, TargetsReached
  <2> QED BY <2>1 DEF RoutinesInv, SbiInv
<1> QED BY <1>1, RoutinesInvariant, PTL

\* AnswersTruthful: whatever is called, the probe and the state table agree with
\* the answer.
THEOREM AnswersStayTruthful == RoutinesSpec => []AnswersTruthful
<1>1. RoutinesInv => AnswersTruthful
  <2>1. sbIdle => AnswersTruthful
    BY DEF sbIdle, AnswersTruthful, ProbeTruthful, CallerUp
  <2>2. SbiInv => AnswersTruthful
    BY DEF SbiInv, CallerStarted, AnswersTruthful, CallerUp
  <2> QED BY <2>1, <2>2 DEF RoutinesInv
<1> QED BY <1>1, RoutinesInvariant, PTL

\* LongDivision, for registers of every width and every argument: no bit of the
\* divisor is lost, the dividend is the quotient so far times the divisor plus what
\* is left, and what is left is below the divisor.
THEOREM DivisionsStayLong == RoutinesSpec => []LongDivision
<1>1. RoutinesInv => LongDivision
  <2>1. mdIdle => LongDivision
    BY DEF mdIdle, LongDivision, MD!LongDivision
  <2>2. MDP!MulDivInv => LongDivision
    BY MulDivAssumed, MDP!InvIsLong, SameDivision
  <2> QED BY <2>1, <2>2 DEF RoutinesInv
<1> QED BY <1>1, RoutinesInvariant, PTL

\* ResultRight, for registers of every width and every argument: a routine that
\* returns has the result of the instruction that it stands in for.
THEOREM RoutinesReturnResults == RoutinesSpec => []ResultRight
<1>1. RoutinesInv => ResultRight
  <2>1. mdIdle => ResultRight
    BY DEF mdIdle, ResultRight, MD!ResultRight
  <2>2. MDP!MulDivInv => ResultRight
    <3>1. MDP!MulDivInv => MDP!ResultRight
      BY DEF MDP!MulDivInv
    <3> QED BY <3>1, SameResult
  <2> QED BY <2>1, <2>2 DEF RoutinesInv
<1> QED BY <1>1, RoutinesInvariant, PTL

\* WalkRight, for page tables of every shape: the walk ends at the address that the
\* translation of the privileged architecture gives, at every level and for every
\* page, whatever the address space and the bits that the walk does not look at.
THEOREM WalksAreRight == RoutinesSpec => []WalkRight
<1>1. RoutinesInv => WalkRight
  <2>1. wpIdle => WalkRight
    BY DEF wpIdle, WalkRight, WP!WalkRight
  <2> QED BY <2>1 DEF RoutinesInv, WalkInv, WalkRight
<1> QED BY <1>1, RoutinesInvariant, PTL

\* FilesFound, for archives and device trees of every length, with names and values
\* of every length that their headers hold: the search ends at the first file of the
\* name, with its length, or behind the last file, and the walk ends with the value
\* of linux,initrd-start, or with 0 where the tree has none.
THEOREM FilesAreFound == RoutinesSpec => []FilesFound
<1>1. RoutinesInv => FilesFound
  <2>1. cpIdle => CP!CpioFound
    BY DEF cpIdle, CP!CpioFound
  <2>2. dtIdle => DT!DtbFound
    BY DEF dtIdle, DT!DtbFound
  <2>3. (CpioInv => CP!CpioFound) /\ (DtbInv => DT!DtbFound)
    BY DEF CpioInv, DtbInv
  <2> QED BY <2>1, <2>2, <2>3 DEF RoutinesInv, FilesFound
<1> QED BY <1>1, RoutinesInvariant, PTL

\* PrintsRight, for every two directives with the texts before them, whatever their
\* flags, widths, lengths, conversions and arguments: a call that returns has printed
\* the texts and the directives in their order, completely and once.
THEOREM CallsPrintRight == RoutinesSpec => []PrintsRight
<1>1. RoutinesInv => PrintsRight
  <2>1. prIdle => PrintsRight
    BY DEF prIdle, PrintsRight, PR!PrintsRight, PR!Finished
  <2>2. PrintInv => PrintsRight
    BY RoutinesAssumption, PrintEnds DEF PrintsRight
  <2> QED BY <2>1, <2>2 DEF RoutinesInv
<1> QED BY <1>1, RoutinesInvariant, PTL

=============================================================================
