------------------------------- MODULE Timer -------------------------------
(***************************************************************************)
(* The timer of one hart: sbi_set_timer (time.c), the machine timer        *)
(* interrupt that is bounced into S-mode (context_switch.c), and the       *)
(* variant in which S-mode has a comparator of its own (extension sstc).   *)
(*                                                                         *)
(* The comparator of a 32 bit hart has two words, which are written one    *)
(* after the other while time goes on and while the hart, which serves an  *)
(* environment call with interrupts enabled, may take the interrupt.       *)
(***************************************************************************)
EXTENDS Integers

CONSTANTS
  LowWords,   \* how many values the low word of the time has
  HighWords   \* and the high word

ASSUME TimerAssumption == LowWords \in Nat \ {0, 1} /\ HighWords \in Nat \ {0, 1}

Never == LowWords * HighWords - 1    \* S-mode's way to say "no timer"
MaxTime == LowWords * (HighWords - 1) - 1  \* the time stops here
AllOnes == HighWords - 1
Unset == -1

VARIABLES
  sstc,      \* hart_using_ext_sstc
  xlen,      \* 32 or 64
  mtime,     \* the clock
  cmp_hi,    \* mtimecmp, or stimecmp: the high word
  cmp_lo,    \* the low word
  mtie,      \* mie.MTIE
  stip,      \* mip.STIP, as software sets it
  pc,        \* S-mode, or a place in sbi_set_timer
  irq,       \* a place in interrupt_c_handler, "none" outside
  stime,     \* parameter of sbi_set_timer
  deadline   \* history: what the last call that returned has set

config == <<sstc, xlen>>
cmp    == <<cmp_hi, cmp_lo>>
intr   == <<mtie, stip>>
vars   == <<config, mtime, cmp, intr, pc, irq, stime, deadline>>

\* STARTHART has cleared mie.MTIE and mip; the comparator holds anything.
Init ==
  /\ sstc \in BOOLEAN /\ xlen \in {32, 64}
  /\ mtime = 0
  /\ cmp_hi \in 0..AllOnes /\ cmp_lo \in 0..(LowWords - 1)
  /\ mtie = FALSE /\ stip = FALSE
  /\ pc = "smode" /\ irq = "none"
  /\ stime = Never /\ deadline = Unset

Comparator == cmp_hi * LowWords + cmp_lo
Expired == mtime >= Comparator

\* The timer interrupt is pending for S-mode.
Tick == IF sstc THEN Expired ELSE stip

Tock ==
  /\ mtime < MaxTime
  /\ mtime' = mtime + 1
  /\ UNCHANGED <<config, cmp, intr, pc, irq, stime, deadline>>

-----------------------------------------------------------------------------
Goto(from, to) ==
  /\ irq = "none"
  /\ pc = from /\ pc' = to
  /\ UNCHANGED <<config, mtime, irq>>

\* Mutation: STIP is cleared while the interrupt is still enabled.
ClearMtie_missing ==
  /\ Goto("clear_mtie", "clear_stip")
  /\ UNCHANGED <<cmp, intr, stime, deadline>>

\* Mutation: the machine timer interrupt is not enabled again.
SetMtie_missing ==
  /\ Goto("set_mtie", "smode")
  /\ deadline' = stime
  /\ UNCHANGED <<cmp, intr, stime>>

\* Mutation: the interrupt is bounced, and stays enabled.
BounceMtie_missing ==
  /\ irq = "clear_mtie" /\ irq' = "set_stip"
  /\ UNCHANGED <<config, mtime, cmp, intr, pc, stime, deadline>>

\* Mutation: the time is given to the low word only.
WriteHigh_missing ==
  /\ Goto("write_hi", IF sstc THEN "smode" ELSE "set_mtie")
  /\ deadline' = IF sstc THEN stime ELSE deadline
  /\ UNCHANGED <<cmp, intr, stime>>

\* S-mode calls sbi_set_timer.
SetTimer(t) ==
  /\ Goto("smode", IF ~sstc THEN "clear_mtie"
                   ELSE IF xlen = 64 THEN "write" ELSE "write_ones")
  /\ stime' = t
  /\ UNCHANGED <<cmp, intr, deadline>>

ClearMtie ==
  /\ Goto("clear_mtie", "clear_stip")
  /\ mtie' = FALSE
  /\ UNCHANGED <<cmp, stip, stime, deadline>>

ClearStip ==
  /\ Goto("clear_stip", IF xlen = 64 THEN "write" ELSE "write_ones")
  /\ stip' = FALSE
  /\ UNCHANGED <<cmp, mtie, stime, deadline>>

\* 64 bit: one store.
Write ==
  /\ Goto("write", IF sstc THEN "smode" ELSE "set_mtie")
  /\ cmp_hi' = stime \div LowWords
  /\ cmp_lo' = stime % LowWords
  /\ deadline' = IF sstc THEN stime ELSE deadline
  /\ UNCHANGED <<intr, stime>>

\* 32 bit: the high word is all ones while the low word is written.
WriteOnes ==
  /\ Goto("write_ones", "write_lo")
  /\ cmp_hi' = AllOnes
  /\ UNCHANGED <<cmp_lo, intr, stime, deadline>>

WriteLow ==
  /\ Goto("write_lo", "write_hi")
  /\ cmp_lo' = stime % LowWords
  /\ UNCHANGED <<cmp_hi, intr, stime, deadline>>

WriteHigh ==
  /\ Goto("write_hi", IF sstc THEN "smode" ELSE "set_mtie")
  /\ cmp_hi' = stime \div LowWords
  /\ deadline' = IF sstc THEN stime ELSE deadline
  /\ UNCHANGED <<cmp_lo, intr, stime>>

SetMtie ==
  /\ Goto("set_mtie", "smode")
  /\ mtie' = TRUE
  /\ deadline' = stime
  /\ UNCHANGED <<cmp, stip, stime>>

-----------------------------------------------------------------------------
\* The machine timer interrupt, from S-mode or from within sbi_set_timer.
TakeIrq ==
  /\ irq = "none" /\ mtie /\ Expired
  /\ irq' = "clear_mtie"
  /\ UNCHANGED <<config, mtime, cmp, intr, pc, stime, deadline>>

\* Bounce it into S-mode, unless S-mode has its own comparator.
BounceMtie ==
  /\ irq = "clear_mtie" /\ irq' = IF sstc THEN "none" ELSE "set_stip"
  /\ mtie' = IF sstc THEN mtie ELSE FALSE
  /\ UNCHANGED <<config, mtime, cmp, stip, pc, stime, deadline>>

BounceStip ==
  /\ irq = "set_stip" /\ irq' = "none"
  /\ stip' = TRUE
  /\ UNCHANGED <<config, mtime, cmp, mtie, pc, stime, deadline>>

-----------------------------------------------------------------------------
Times == 0..MaxTime \cup {Never}

Service ==
  ClearMtie \/ ClearStip \/ Write \/ WriteOnes \/ WriteLow \/ WriteHigh \/ SetMtie

Bounce == TakeIrq \/ BounceMtie \/ BounceStip

Next == Tock \/ (\E t \in Times : SetTimer(t)) \/ Service \/ Bounce

\* Time goes on, and the hart goes on executing the firmware.
Fairness == WF_vars(Tock) /\ WF_vars(Service) /\ WF_vars(Bounce)

Spec == Init /\ [][Next]_vars /\ Fairness

-----------------------------------------------------------------------------
\* S-mode executes.
InSmode == pc = "smode" /\ irq = "none"

\* S-mode never sees a tick before the time it asked for: not the tick of an
\* earlier time, and not one that is due to a comparator half written.
\* (Nothing is said of the comparator of S-mode before S-mode sets it.)
NoEarlyTick ==
  InSmode /\ Tick => IF deadline = Unset THEN sstc ELSE mtime >= deadline

\* While S-mode waits for a tick its interrupt is armed, or is here.
Armed ==
  InSmode /\ deadline # Unset =>
    /\ Comparator = deadline
    /\ sstc \/ mtie \/ stip

\* The time S-mode asked for comes as a tick, unless it asks for another one.
TickComes ==
  \A t \in 0..MaxTime : (InSmode /\ deadline = t) ~> (InSmode /\ Tick) \/ pc # "smode"

\* The hart is not kept in the interrupt: S-mode goes on executing.
BackToSmode == []<>InSmode

=============================================================================
