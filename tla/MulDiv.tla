------------------------------- MODULE MulDiv -------------------------------
(***************************************************************************)
(* ext_m_supplement.S: multiplication, division and remainder on harts     *)
(* without the M extension, in one register (SINGLE) and in two (DOUBLE).  *)
(* A number is the tuple of its words, the low one first, and every        *)
(* operation on numbers is built from operations on words, as the          *)
(* registers are.  One step is one pass of a loop.                         *)
(*                                                                         *)
(*   a, b    a0-a1 and a2-a3 (a0 and a1 of a SINGLE routine)               *)
(*   quot    t2-t3, the result of a multiplication or division             *)
(*   mask    t1-t5, the bit of the quotient that the next pass decides     *)
(*   count   t0                                                            *)
(*   sign    bit XLEN-1 of a7                                              *)
(***************************************************************************)
EXTENDS Integers, Sequences

CONSTANTS
  XLEN,        \* bits of a register
  Routines     \* the routines that are called

Quotients  == {"SINGLE_DIV", "DOUBLE_DIV", "SINGLE_UDIV", "DOUBLE_UDIV"}
Remainders == {"SINGLE_MOD", "DOUBLE_MOD", "SINGLE_UMOD", "DOUBLE_UMOD"}
Products   == {"SINGLE_MUL", "DOUBLE_MUL"}
Doubles    == {"DOUBLE_MUL", "DOUBLE_DIV", "DOUBLE_UDIV", "DOUBLE_MOD", "DOUBLE_UMOD"}
Signed     == {"SINGLE_DIV", "DOUBLE_DIV", "SINGLE_MOD", "DOUBLE_MOD"}

\* What the proofs need to know of ^, of which the provers know nothing.
PowersOfTwo ==
  /\ 2^0 = 1
  /\ \A n \in 0..(2 * XLEN) : 2^n \in Nat \ {0} /\ 2^(n + 1) = 2 * 2^n

\* Assumed of the constants, where the module is instantiated.
MulDivAssumption ==
  /\ XLEN \in Nat \ {0}
  /\ Routines \subseteq Products \cup Quotients \cup Remainders
  /\ PowersOfTwo

W       == 2^XLEN
HalfW   == 2^(XLEN - 1)
Numbers(words) == [1..words -> 0..W-1]
Length(fn)     == IF fn \in Doubles THEN 2 ELSE 1

VARIABLES
  call,        \* routine and arguments
  label,       \* place in the routine
  a, b, quot, mask, count, sign

vars == <<call, label, a, b, quot, mask, count, sign>>

-----------------------------------------------------------------------------
(* Operations on numbers, from operations on words. *)

IsZero(n)   == \A i \in DOMAIN n : n[i] = 0
Negative(n) == n[Len(n)] >= HalfW
Zero        == [i \in 1..Length(call.fn) |-> 0]
AllOnes     == [i \in 1..Length(call.fn) |-> W - 1]

\* The unsigned comparison of two numbers: high words, then low words.
Below(m, n) ==
  IF Len(m) = 1 THEN m[1] < n[1]
  ELSE m[2] < n[2] \/ (m[2] = n[2] /\ m[1] < n[1])

\* Mutation: no carry into the high word.
Negate_no_carry(n) ==
  IF Len(n) = 1 THEN <<(W - n[1]) % W>> ELSE <<(W - n[1]) % W, W - 1 - n[2]>>

\* not, add 1, and a carry into the high word if the low one wrapped.
Negate(n) ==
  LET low == (W - n[1]) % W
  IN  IF Len(n) = 1 THEN <<low>>
      ELSE <<low, (W - 1 - n[2] + (IF low = 0 THEN 1 ELSE 0)) % W>>

\* Mutation: the borrow is decided after the low words were subtracted.
Minus_late_borrow(m, n) ==
  LET low == (m[1] - n[1]) % W
      borrow == IF low < n[1] THEN 1 ELSE 0
  IN  IF Len(m) = 1 THEN <<low>> ELSE <<low, (m[2] - borrow - n[2]) % W>>

\* The borrow is decided before the low words are subtracted.
Minus(m, n) ==
  LET low == (m[1] - n[1]) % W
      borrow == IF m[1] < n[1] THEN 1 ELSE 0
  IN  IF Len(m) = 1 THEN <<low>> ELSE <<low, (m[2] - borrow - n[2]) % W>>

\* The carry is seen in the sum of the low words (sltu).
Plus(m, n) ==
  LET low == (m[1] + n[1]) % W
      carry == IF low < m[1] THEN 1 ELSE 0
  IN  IF Len(m) = 1 THEN <<low>> ELSE <<low, (m[2] + n[2] + carry) % W>>

ShiftLeft(n) ==
  [i \in DOMAIN n |-> ((2 * n[i]) % W) + (IF i = 1 THEN 0 ELSE n[i-1] \div HalfW)]

ShiftRight(n) ==
  [i \in DOMAIN n |-> n[i] \div 2 + (IF i = Len(n) THEN 0 ELSE (n[i+1] % 2) * HalfW)]

\* 1 << t0: in the low word, or in the high word by t0 - XLEN.
BitAt(n) ==
  IF Length(call.fn) = 1 THEN <<2^(n % XLEN)>>
  ELSE IF n < XLEN THEN <<2^n, 0>> ELSE <<0, 2^((n - XLEN) % XLEN)>>

\* or, of a number with a mask that has at most one bit.
WithBit(n, bit) ==
  [i \in DOMAIN n |->
     IF bit[i] = 0 \/ (n[i] \div bit[i]) % 2 = 1 THEN n[i] ELSE n[i] + bit[i]]

-----------------------------------------------------------------------------
(* The stages that routines are made of. *)

Return(value) ==
  /\ a' = value
  /\ label' = "done"
  /\ UNCHANGED <<call, b, quot, mask, count, sign>>

ZeroDivisor(value) == label = "entry" /\ IsZero(b) /\ Return(value)

EnterUnsigned ==
  /\ label = "entry"
  /\ ~IsZero(b)
  /\ label' = "align"
  /\ UNCHANGED <<call, a, b, quot, mask, count, sign>>

Magnitude(n) == IF Negative(n) THEN Negate(n) ELSE n

EnterSigned(flag) ==
  /\ label = "entry"
  /\ ~IsZero(b)
  /\ sign' = flag
  /\ a' = Magnitude(a)
  /\ b' = Magnitude(b)
  /\ label' = "align"
  /\ UNCHANGED <<call, quot, mask, count>>

\* One pass of "Shift divisor left until it is just greater than dividend".
AlignShift ==
  /\ label = "align"
  /\ ~Below(a, b) /\ ~Negative(b)
  /\ b' = ShiftLeft(b)
  /\ count' = count + 1
  /\ UNCHANGED <<call, label, a, quot, mask, sign>>

\* The divisor cannot be shifted further: the first bit is decided here.
AlignSubtract ==
  /\ label = "align"
  /\ ~Below(a, b) /\ Negative(b)
  /\ a' = Minus(a, b)
  /\ quot' = IF call.fn \in Quotients THEN BitAt(count) ELSE quot
  /\ label' = "divide"
  /\ mask' = IF call.fn \in Quotients THEN BitAt(count) ELSE mask
  /\ UNCHANGED <<call, b, count, sign>>

AlignDone ==
  /\ label = "align"
  /\ Below(a, b)
  /\ label' = "divide"
  /\ mask' = IF call.fn \in Quotients THEN BitAt(count) ELSE mask
  /\ UNCHANGED <<call, a, b, quot, count, sign>>

Align == AlignShift \/ AlignSubtract \/ AlignDone

\* One pass of the long division, which jumps back to the label back.
Divide(back) ==
  /\ label = "divide"
  /\ count # 0
  /\ b' = ShiftRight(b)
  /\ count' = count - 1
  /\ label' = back
  /\ mask' = ShiftRight(mask)
  /\ IF Below(a, b')
     THEN UNCHANGED <<a, quot>>
     ELSE /\ a' = Minus(a, b')
          /\ quot' = IF call.fn \in Quotients THEN WithBit(quot, mask') ELSE quot
  /\ UNCHANGED <<call, sign>>

Finish(value) == label = "divide" /\ count = 0 /\ Return(value)
FixSign(n)    == IF sign THEN Negate(n) ELSE n

Multiply ==
  /\ label = "multiply"
  /\ ~IsZero(a) /\ ~IsZero(b) /\ count # 0
  /\ quot' = IF a[1] % 2 = 1 THEN Plus(quot, b) ELSE quot
  /\ a' = ShiftRight(a)
  /\ b' = ShiftLeft(b)
  /\ count' = count - 1
  /\ UNCHANGED <<call, label, mask, sign>>

EnterMultiply(bits) ==
  /\ label = "entry"
  /\ count' = bits
  /\ label' = "multiply"
  /\ UNCHANGED <<call, a, b, quot, mask, sign>>

MultiplyDone ==
  label = "multiply" /\ (IsZero(a) \/ IsZero(b) \/ count = 0) /\ Return(quot)

-----------------------------------------------------------------------------
(* The routines. *)

SINGLE_MUL ==
  /\ call.fn = "SINGLE_MUL"
  /\ EnterMultiply(XLEN) \/ Multiply \/ MultiplyDone

DOUBLE_MUL ==
  /\ call.fn = "DOUBLE_MUL"
  /\ EnterMultiply(2 * XLEN) \/ Multiply \/ MultiplyDone

SINGLE_DIV ==
  /\ call.fn = "SINGLE_DIV"
  /\ \/ ZeroDivisor(AllOnes)
     \/ EnterSigned(Negative(a) # Negative(b))
     \/ Align
     \/ Divide("divide")
     \/ Finish(FixSign(quot))

DOUBLE_DIV ==
  /\ call.fn = "DOUBLE_DIV"
  /\ \/ ZeroDivisor(AllOnes)
     \/ EnterSigned(Negative(a) # Negative(b))
     \/ Align
     \/ Divide("divide")
     \/ Finish(FixSign(quot))

SINGLE_UDIV ==
  /\ call.fn = "SINGLE_UDIV"
  /\ ZeroDivisor(AllOnes) \/ EnterUnsigned \/ Align \/ Divide("divide") \/ Finish(quot)

DOUBLE_UDIV ==
  /\ call.fn = "DOUBLE_UDIV"
  /\ ZeroDivisor(AllOnes) \/ EnterUnsigned \/ Align \/ Divide("divide") \/ Finish(quot)

SINGLE_MOD ==
  /\ call.fn = "SINGLE_MOD"
  /\ \/ ZeroDivisor(a)
     \/ EnterSigned(Negative(a))
     \/ Align
     \/ Divide("divide")
     \/ Finish(FixSign(a))

\* The loop of DOUBLE_MOD and DOUBLE_UMOD has no label of its own: its jump
\* back reaches the loop that aligns the divisor.
DOUBLE_MOD ==
  /\ call.fn = "DOUBLE_MOD"
  /\ \/ ZeroDivisor(a)
     \/ EnterSigned(Negative(a))
     \/ Align
     \/ Divide("align")
     \/ Finish(FixSign(a))

SINGLE_UMOD ==
  /\ call.fn = "SINGLE_UMOD"
  /\ ZeroDivisor(a) \/ EnterUnsigned \/ Align \/ Divide("divide") \/ Finish(a)

DOUBLE_UMOD ==
  /\ call.fn = "DOUBLE_UMOD"
  /\ ZeroDivisor(a) \/ EnterUnsigned \/ Align \/ Divide("align") \/ Finish(a)

-----------------------------------------------------------------------------
\* A routine is called with any routine arguments.
Call(fn, x, y) ==
  /\ call = [fn |-> fn, x |-> x, y |-> y]
  /\ label = "entry"
  /\ a = x /\ b = y
  /\ quot = [i \in DOMAIN x |-> 0]
  /\ mask = [i \in DOMAIN x |-> 0]
  /\ count = 0
  /\ sign = FALSE

Init ==
  \E fn \in Routines : \E x, y \in Numbers(Length(fn)) : Call(fn, x, y)

Next ==
  \/ SINGLE_MUL  \/ DOUBLE_MUL
  \/ SINGLE_DIV  \/ DOUBLE_DIV
  \/ SINGLE_UDIV \/ DOUBLE_UDIV
  \/ SINGLE_MOD  \/ DOUBLE_MOD
  \/ SINGLE_UMOD \/ DOUBLE_UMOD

Spec == Init /\ [][Next]_vars /\ WF_vars(Next)

-----------------------------------------------------------------------------
(* What the routines promise, in integers. *)

Size(n)     == IF Len(n) = 1 THEN W ELSE W * W
Unsigned(n) == IF Len(n) = 1 THEN n[1] ELSE n[1] + W * n[2]
Integer(n)  == IF Negative(n) THEN Unsigned(n) - Size(n) ELSE Unsigned(n)
Abs(i)      == IF i < 0 THEN -i ELSE i
Value(n)    == IF call.fn \in Signed THEN Integer(n) ELSE Unsigned(n)

\* Division truncates towards zero; a remainder has the sign of the dividend.
Quotient(i, j)  == IF (i < 0) = (j < 0) THEN Abs(i) \div Abs(j) ELSE -(Abs(i) \div Abs(j))
Remainder(i, j) == IF i < 0 THEN -(Abs(i) % Abs(j)) ELSE Abs(i) % Abs(j)

Answer ==
  LET i == Value(call.x)
      j == Value(call.y)
  IN  CASE call.fn \in Products   -> i * j
        [] call.fn \in Quotients  -> IF j = 0 THEN -1 ELSE Quotient(i, j)
        [] call.fn \in Remainders -> IF j = 0 THEN i ELSE Remainder(i, j)

\* Every routine returns the result of the instruction it stands in for,
\* modulo 2^width: dividing by zero gives all ones or the dividend, and the
\* most negative number divided by -1 gives itself.
ResultRight == label = "done" => Unsigned(a) = Answer % Size(a)

\* The loops of the divisions: the divisor is shifted by count and no bit of
\* it is lost, the dividend is the quotient so far times the divisor plus what
\* is left, and what is left is below the shifted divisor once the division
\* has begun.
LongDivision ==
  label \in {"align", "divide"} =>
    LET i == Abs(Value(call.x))
        j == Abs(Value(call.y))
    IN  /\ Unsigned(b) = j * 2^count
        /\ call.fn \in Quotients  => i = Unsigned(quot) * j + Unsigned(a)
        /\ call.fn \in Remainders => i % j = Unsigned(a) % j
        /\ label = "divide" => Below(a, b)

\* Every routine returns, although two of them jump back into the loop that
\* aligns the divisor.
Returns == <>(label = "done")
=============================================================================
