---------------------------- MODULE TimerProofs ----------------------------
(***************************************************************************)
(* Proofs about Timer, for a comparator of any width.                      *)
(***************************************************************************)
EXTENDS Timer, TLAPS

Places ==
  {"smode", "clear_mtie", "clear_stip", "write", "write_ones", "write_lo",
   "write_hi", "set_mtie"}

TypeOK ==
  /\ sstc \in BOOLEAN /\ xlen \in {32, 64}
  /\ mtime \in Nat
  /\ cmp_hi \in 0..AllOnes /\ cmp_lo \in 0..(LowWords - 1)
  /\ mtie \in BOOLEAN /\ stip \in BOOLEAN
  /\ pc \in Places /\ irq \in {"none", "clear_mtie", "set_stip"}
  /\ stime \in 0..Never /\ deadline \in (0..Never) \cup {Unset}

\* Where sbi_set_timer has the machine timer interrupt masked and mip.STIP
\* cleared, and where it is the only one who knows of the comparator.
Quiet == {"write", "write_ones", "write_lo", "write_hi", "set_mtie"}

\* With a comparator of its own S-mode needs no machine timer interrupt.
OwnComparator == sstc => ~mtie /\ ~stip /\ pc \notin {"clear_mtie", "clear_stip", "set_mtie"}

\* No interrupt is taken, or is left over, while the comparator is written.
NoBounce ==
  /\ pc \in Quiet => ~mtie /\ ~stip /\ irq = "none"
  /\ pc = "clear_stip" => ~mtie /\ irq = "none"
  /\ irq = "clear_mtie" => mtie
  /\ irq = "set_stip" => ~mtie /\ ~sstc

\* What has been written of the comparator so far.
Written ==
  /\ pc = "write_hi" => cmp_lo = stime % LowWords
  /\ pc = "set_mtie" => Comparator = stime
  /\ pc = "smode" /\ deadline # Unset => deadline = stime /\ Comparator = stime

\* Before the first call no interrupt is armed; afterwards a tick that is on
\* its way to S-mode, at whichever step of the bounce, is due.
TickDue ==
  /\ deadline = Unset /\ pc = "smode" => ~mtie /\ ~stip /\ irq = "none"
  /\ pc = "smode" /\ (stip \/ irq # "none") => Expired

\* A tick that S-mode waits for is in one of three hands.
TickKept ==
  pc = "smode" /\ deadline # Unset => sstc \/ mtie \/ stip \/ irq = "set_stip"

TimerInv ==
  TypeOK /\ OwnComparator /\ NoBounce /\ Written /\ TickDue /\ TickKept

-----------------------------------------------------------------------------
\* A time of two words is its high word and its low word, put together again
\* (stimecmph and stimecmp, MMIO_MTIMECMP of a 32 bit hart).
LEMMA Words ==
  ASSUME NEW n \in 0..Never
  PROVE  /\ n \div LowWords \in 0..AllOnes
         /\ n % LowWords \in 0..(LowWords - 1)
         /\ (n \div LowWords) * LowWords + (n % LowWords) = n
<1> DEFINE q == n \div LowWords
           r == n % LowWords
<1>1. LowWords \in Nat /\ LowWords > 0 /\ HighWords \in Nat /\ HighWords > 0
  BY TimerAssumption
<1>2. n \in Nat /\ n <= LowWords * HighWords - 1
  BY <1>1 DEF Never
<1>3. q \in Int /\ r \in 0..(LowWords - 1) /\ q * LowWords + r = n
  BY <1>1, <1>2, SMTT(30)
<1>4. q >= 0
  BY <1>1, <1>2
<1>5. q <= HighWords - 1
  <2> HIDE DEF q, r
  <2>1. q * LowWords <= LowWords * HighWords - 1
    BY <1>1, <1>2, <1>3
  <2>2. SUFFICES ASSUME q >= HighWords PROVE FALSE
    BY <1>1, <1>3
  <2>3. q * LowWords >= HighWords * LowWords
    BY <1>1, <1>3, <1>4, <2>2
  <2> QED BY <1>1, <2>1, <2>3, <1>3
<1> QED BY <1>1, <1>3, <1>4, <1>5 DEF AllOnes

\* The times S-mode can ask for, with its way to say "no timer", fit two words.
LEMMA TimesAre ==
  /\ MaxTime \in Nat /\ Never \in Nat /\ MaxTime < Never
  /\ Times \subseteq 0..Never
<1>1. LowWords \in Nat /\ LowWords >= 2 /\ HighWords \in Nat /\ HighWords >= 2
  BY TimerAssumption
<1>2. LowWords * (HighWords - 1) = LowWords * HighWords - LowWords
  BY <1>1
<1>3. LowWords * (HighWords - 1) >= 1
  BY <1>1
<1> QED BY <1>1, <1>2, <1>3 DEF MaxTime, Never, Times

\* The types hold of a hart on which no timer has been set yet, and every step
\* of sbi_set_timer and of the interrupt keeps them.
LEMMA TypeInit == Init => TypeOK
<1>1. 0 \in Nat /\ Never \in 0..Never
  BY TimesAre
<1> QED BY <1>1 DEF Init, TypeOK, Places

\* A time of S-mode gives words that fit the two registers of the comparator.
LEMMA TypeStep == TypeOK /\ [Next]_vars => TypeOK'
<1> SUFFICES ASSUME TypeOK, [Next]_vars PROVE TypeOK'
  OBVIOUS
<1> USE DEF TypeOK, Places, Goto, config, cmp, intr
<1>1. AllOnes \in 0..AllOnes
  BY TimerAssumption DEF AllOnes
<1>2. stime \div LowWords \in 0..AllOnes /\ stime % LowWords \in 0..(LowWords - 1)
  BY Words
<1>3. CASE Tock
  BY <1>3 DEF Tock
<1>4. ASSUME NEW t \in Times, SetTimer(t) PROVE TypeOK'
  BY <1>4, TimesAre DEF SetTimer
<1>5. CASE Service
  BY <1>1, <1>2, <1>5 DEF Service, ClearMtie, ClearStip, Write, WriteOnes,
     WriteLow, WriteHigh, SetMtie
<1>6. CASE Bounce
  BY <1>6 DEF Bounce, TakeIrq, BounceMtie, BounceStip
<1>7. CASE UNCHANGED vars
  BY <1>7 DEF vars
<1> QED BY <1>3, <1>4, <1>5, <1>6, <1>7 DEF Next

\* STARTHART leaves a hart with no timer interrupt enabled or pending.
LEMMA InvInit == Init => TimerInv
BY TypeInit DEF Init, TimerInv, TypeOK, OwnComparator, NoBounce, Written, TickDue,
   TickKept

\* An action that leaves the comparator and the clock alone leaves alone what
\* has expired; an action that leaves only the comparator alone lets it expire.
LEMMA ExpiredStays ==
  ASSUME TypeOK, UNCHANGED cmp, mtime' \in {mtime, mtime + 1}
  PROVE  Comparator' = Comparator /\ (Expired => Expired')
<1>1. Comparator' = Comparator
  BY DEF cmp, Comparator
<1>2. Comparator \in Int
  BY TimerAssumption DEF TypeOK, Comparator, AllOnes
<1> QED BY <1>1, <1>2 DEF Expired, TypeOK

\* Each store of sbi_set_timer and each step of the bounce keeps the invariant.
LEMMA InvStep == TimerInv /\ [Next]_vars => TimerInv'
<1> SUFFICES ASSUME TimerInv, [Next]_vars PROVE TimerInv'
  OBVIOUS
<1>1. TypeOK /\ TypeOK'
  BY TypeStep DEF TimerInv
<1> DEFINE Parts == OwnComparator /\ NoBounce /\ Written /\ TickDue /\ TickKept
<1>2. Parts
  BY DEF TimerInv
<1> SUFFICES Parts'
  BY <1>1 DEF TimerInv
<1> USE <1>1, <1>2 DEF TypeOK, OwnComparator, NoBounce, Written, TickDue, TickKept,
      Goto, config, intr, Quiet, Places
<1>3. CASE Tock
  <2>1. Comparator' = Comparator /\ (Expired => Expired')
    BY <1>3, ExpiredStays DEF Tock
  <2> QED BY <1>3, <2>1 DEF Tock, cmp
<1>4. ASSUME NEW t \in Times, SetTimer(t) PROVE Parts'
  <2>1. Comparator' = Comparator /\ (Expired => Expired')
    BY <1>4, ExpiredStays DEF SetTimer
  <2> QED BY <1>4, <2>1 DEF SetTimer
<1>5. CASE ClearMtie
  <2>1. Comparator' = Comparator /\ (Expired => Expired')
    BY <1>5, ExpiredStays DEF ClearMtie
  <2> QED BY <1>5, <2>1 DEF ClearMtie
<1>6. CASE ClearStip
  <2>1. Comparator' = Comparator /\ (Expired => Expired')
    BY <1>6, ExpiredStays DEF ClearStip
  <2> QED BY <1>6, <2>1 DEF ClearStip
<1>7. CASE Write
  <2>1. Comparator' = stime
    BY <1>7, Words DEF Write, Comparator
  <2> QED BY <1>7, <2>1 DEF Write
<1>8. CASE WriteOnes
  BY <1>8 DEF WriteOnes
<1>9. CASE WriteLow
  BY <1>9 DEF WriteLow
<1>10. CASE WriteHigh
  <2>1. Comparator' = stime
    BY <1>10, Words DEF WriteHigh, Comparator
  <2> QED BY <1>10, <2>1 DEF WriteHigh
<1>11. CASE SetMtie
  <2>1. Comparator' = Comparator /\ (Expired => Expired')
    BY <1>11, ExpiredStays DEF SetMtie
  <2> QED BY <1>11, <2>1 DEF SetMtie, Unset
<1>12. CASE TakeIrq
  <2>1. Comparator' = Comparator /\ (Expired => Expired')
    BY <1>12, ExpiredStays DEF TakeIrq
  <2> QED BY <1>12, <2>1 DEF TakeIrq
<1>13. CASE BounceMtie
  <2>1. Comparator' = Comparator /\ (Expired => Expired')
    BY <1>13, ExpiredStays DEF BounceMtie
  <2> QED BY <1>13, <2>1 DEF BounceMtie
<1>14. CASE BounceStip
  <2>1. Comparator' = Comparator /\ (Expired => Expired')
    BY <1>14, ExpiredStays DEF BounceStip
  <2> QED BY <1>14, <2>1 DEF BounceStip
<1>15. CASE UNCHANGED vars
  <2>1. Comparator' = Comparator /\ (Expired => Expired')
    BY <1>15, ExpiredStays DEF vars
  <2> QED BY <1>15, <2>1 DEF vars, cmp
<1> QED BY <1>3, <1>4, <1>5, <1>6, <1>7, <1>8, <1>9, <1>10, <1>11, <1>12, <1>13,
         <1>14, <1>15 DEF Next, Service, Bounce

\* The invariant holds wherever sbi_set_timer and the interrupt interleave.
THEOREM TimerInvariant == Spec => []TimerInv
BY InvInit, InvStep, PTL DEF Spec

\* NoEarlyTick, for every width of the words: neither the tick of an earlier
\* time nor one due to a half written comparator reaches S-mode before the time
\* of the last call (sbi_set_timer against the bounce in interrupt_c_handler).
THEOREM NoEarlyTickHolds == Spec => []NoEarlyTick
<1>1. TimerInv => NoEarlyTick
  <2> SUFFICES ASSUME TimerInv, InSmode, Tick
               PROVE  IF deadline = Unset THEN sstc ELSE mtime >= deadline
    BY DEF NoEarlyTick
  <2>1. CASE deadline = Unset
    BY <2>1 DEF TimerInv, TickDue, InSmode, Tick
  <2>2. CASE deadline # Unset
    <3>1. Expired
      BY DEF TimerInv, TickDue, InSmode, Tick
    <3> QED BY <2>2, <3>1 DEF TimerInv, Written, InSmode, Expired
  <2> QED BY <2>1, <2>2
<1> QED BY <1>1, TimerInvariant, PTL

\* Armed: the comparator a call leaves behind is the time S-mode asked for, and
\* the interrupt that tells S-mode is enabled or already bounced.
THEOREM ArmedHolds == Spec => []Armed
<1>1. TimerInv => Armed
  BY DEF TimerInv, Written, TickKept, Armed, InSmode
<1> QED BY <1>1, TimerInvariant, PTL

=============================================================================
