------------------------- MODULE TrapContextProofs -------------------------
(***************************************************************************)
(* Proofs about TrapContext, for handlers of any length.                   *)
(***************************************************************************)
EXTENDS TrapContext, SequenceTheorems, TLAPS

\* Code that a trap may interrupt.
Interruptible == {"smode", "reset", "exception"}
Saved == [who : Interruptible, at : 0..(Steps - 1)]
HandlerRecords ==
  [end : Ends \cup {"return"}, ctx : Contexts, half : {"low", "high"}, back : Saved]

Loading == {"switch", "mret", "delegate", "sret"}

TypeOK ==
  /\ cur \in [who : Interruptible \cup {"interrupt"}, at : 0..(Steps - 1)]
               \cup [who : Loading, at : Contexts]
  /\ context \in [Contexts -> Saved]
  /\ mscratch \in Contexts
  /\ mepc \in 0..(Steps - 1)
  /\ mie \in BOOLEAN
  /\ handlers \in Seq(HandlerRecords)

\* The handlers in progress: the first one interrupted S-mode, or a hart that
\* waits to be started; a second one interrupted an exception handler, and a
\* third one the handler of an exception that the firmware does not survive.
Nesting ==
  /\ Len(handlers) <= 3
  /\ Len(handlers) >= 1 =>
       /\ handlers[1].back.who \in {"smode", "reset"}
       /\ handlers[1].ctx = IF handlers[1].back.who = "smode"
                              THEN "hart_contexts_user" ELSE "hart_contexts"
       /\ handlers[1].end \in {"ecall", "delegate"} => handlers[1].back.who = "smode"
  /\ Len(handlers) >= 2 =>
       /\ handlers[1].half = "low"
       /\ handlers[2].back.who = "exception"
       /\ handlers[2].ctx = "hart_contexts_exception"
       /\ handlers[2].end = IF handlers[2].half = "high" THEN "return" ELSE "halt"
  /\ Len(handlers) = 3 =>
       /\ handlers[2].half = "low"
       /\ handlers[3].back.who = "exception"
       /\ handlers[3].ctx = "hart_contexts_exception"
       /\ handlers[3].half = "high" /\ handlers[3].end = "return"

\* What a handler that returns has interrupted is in its context.
Kept ==
  /\ Len(handlers) >= 1 => context[handlers[1].ctx] = handlers[1].back
  /\ Len(handlers) = 2 /\ handlers[2].end = "return" =>
       context["hart_contexts_exception"] = handlers[2].back
  /\ Len(handlers) = 3 => context["hart_contexts_exception"] = handlers[3].back
  /\ context["hart_contexts"].who = "reset"

\* The code that executes, its context pointer, and whether it is interrupted.
Executing ==
  /\ cur.who \in {"smode", "reset"} => handlers = <<>>
  /\ cur.who = "smode" => mscratch = "hart_contexts_user"
  /\ cur.who = "reset" => mscratch = "hart_contexts"
  /\ cur.who \notin {"smode", "reset"} => Len(handlers) >= 1
  /\ cur.who = "interrupt" =>
       /\ Innermost.half = "high" /\ Innermost.end = "return"
       /\ mscratch = Innermost.ctx
  /\ cur.who = "exception" =>
       /\ Innermost.half = "low" /\ Len(handlers) <= 2
       /\ mscratch = "hart_contexts_exception"
  /\ mie => cur.who \in Interruptible

\* The code that loads a context: what has been loaded so far.
Resuming ==
  /\ cur.who \in {"switch", "mret"} => Innermost.end = "return" /\ cur.at = Innermost.ctx
  /\ cur.who = "mret" => mscratch = cur.at /\ mepc = context[cur.at].at
  /\ cur.who \in {"delegate", "sret"} =>
       /\ Len(handlers) = 1 /\ handlers[1].end = "delegate"
       /\ cur.at = "hart_contexts_user"
  /\ cur.who = "sret" => mscratch = cur.at

TrapParts == Nesting /\ Kept /\ Executing /\ Resuming

TrapInv == TypeOK /\ TrapParts

-----------------------------------------------------------------------------
\* A trap adds its handler behind those in progress.
LEMMA Pushed ==
  ASSUME handlers \in Seq(HandlerRecords), NEW x \in HandlerRecords
  PROVE  LET more == Append(handlers, x) IN
         /\ more \in Seq(HandlerRecords)
         /\ Len(more) = Len(handlers) + 1
         /\ more[Len(handlers) + 1] = x
         /\ \A k \in 1..Len(handlers) : more[k] = handlers[k]
BY AppendProperties

\* A handler that ends leaves the outer ones.
LEMMA Popped ==
  ASSUME handlers \in Seq(HandlerRecords), Len(handlers) >= 1
  PROVE  /\ Outer \in Seq(HandlerRecords)
         /\ Len(Outer) = Len(handlers) - 1
         /\ \A k \in 1..(Len(handlers) - 1) : Outer[k] = handlers[k]
         /\ Len(handlers) = 1 => Outer = <<>>
<1>1. Len(handlers) \in Nat
  BY LenProperties
<1>2. \A k \in 1..(Len(handlers) - 1) : k \in 1..Len(handlers)
  BY <1>1
<1>3. \A k \in 1..Len(handlers) : handlers[k] \in HandlerRecords
  BY ElementOfSeq
<1> DEFINE n == Len(handlers) - 1
<1>4. /\ Outer \in Seq(HandlerRecords)
      /\ Len(Outer) = Len(handlers) - 1
      /\ \A k \in 1..(Len(handlers) - 1) : Outer[k] = handlers[k]
  <2>1. 1 \in Int /\ n \in Int /\ 1 <= n + 1 /\ (n - 1) + 1 = n
    BY <1>1
  <2>2. \A k \in 1..n : handlers[k] \in HandlerRecords
    BY <1>2, <1>3
  <2> HIDE DEF n
  <2>3. /\ SubSeq(handlers, 1, n) \in Seq(HandlerRecords)
        /\ Len(SubSeq(handlers, 1, n)) = IF 1 <= n THEN n - 1 + 1 ELSE 0
        /\ \A k \in 1..(n - 1 + 1) : SubSeq(handlers, 1, n)[k] = handlers[1 + k - 1]
    BY <2>1, <2>2, SubSeqProperties
  <2>4. \A k \in 1..n : k \in 1..(n - 1 + 1) /\ 1 + k - 1 = k
    BY <2>1
  <2>5. \A k \in 1..n : SubSeq(handlers, 1, n)[k] = handlers[k]
    BY <2>3, <2>4
  <2>6. Len(SubSeq(handlers, 1, n)) = n
    BY <2>1, <2>3
  <2> USE DEF n
  <2> QED BY <2>3, <2>5, <2>6 DEF Outer
<1>5. Len(handlers) = 1 => Outer = <<>>
  BY <1>4, EmptySeq
<1> QED BY <1>4, <1>5

\* What is known of the innermost handler.
LEMMA InnermostType ==
  ASSUME handlers \in Seq(HandlerRecords), Len(handlers) >= 1
  PROVE  /\ Innermost \in HandlerRecords /\ Len(handlers) \in Nat
         /\ \A k \in 1..Len(handlers) : handlers[k] \in HandlerRecords
<1>1. Len(handlers) \in Nat /\ \A k \in 1..Len(handlers) : handlers[k] \in HandlerRecords
  BY ElementOfSeq, LenProperties
<1> QED BY <1>1 DEF Innermost

\* No more than three handlers are in progress.
LEMMA Depth ==
  ASSUME Len(handlers) \in Nat, Len(handlers) >= 1, Nesting
  PROVE  /\ Len(handlers) \in {1, 2, 3}
         /\ Len(handlers) <= 2 => Len(handlers) \in {1, 2}
<1> DEFINE n == Len(handlers)
<1>1. n \in Nat /\ n >= 1 /\ n <= 3
  BY DEF Nesting
<1> HIDE DEF n
<1>2. n \in {1, 2, 3} /\ (n <= 2 => n \in {1, 2})
  BY <1>1
<1> QED BY <1>2 DEF n

\* Code starts at its first place.
LEMMA PlaceZero == 0 \in 0..(Steps - 1)
BY TrapAssumption

\* STARTHART has put S-mode on the hart: no handler is in progress.
LEMMA InitTrapInv == Init => TrapInv
<1> SUFFICES ASSUME Init PROVE TrapInv
  OBVIOUS
<1>1. handlers \in Seq(HandlerRecords) /\ Len(handlers) = 0
  BY EmptySeq DEF Init
<1>2. TypeOK
  BY <1>1, PlaceZero DEF Init, TypeOK, Code, Saved, Interruptible, Contexts
<1> QED BY <1>1, <1>2 DEF Init, TrapInv, TrapParts, Nesting, Kept, Executing, Resuming,
       Code, Contexts, Interruptible

\* A place of the code stays a place of the code when it goes on.
LEMMA StepsWrap ==
  ASSUME NEW at \in 0..(Steps - 1)
  PROVE  (at + 1) % Steps \in 0..(Steps - 1)
BY TrapAssumption

\* A trap: an interrupt, an exception of S-mode, or a fault of the firmware.
LEMMA TrapTypes ==
  ASSUME TypeOK, Executing, Interrupt \/ (\E end \in Ends : Exception(end)) \/ Fault
  PROVE  /\ TypeOK' /\ cur \in Saved /\ Len(handlers) \in Nat
         /\ context' = [context EXCEPT ![mscratch] = cur] /\ mepc' = cur.at
         /\ Len(handlers') = Len(handlers) + 1
         /\ \A k \in 1..Len(handlers) : handlers'[k] = handlers[k]
         /\ Innermost' = handlers'[Len(handlers) + 1]
         /\ Innermost'.ctx = mscratch /\ Innermost'.back = cur
<1>1. cur \in Saved
  BY DEF Interrupt, Exception, Fault, Executing, TypeOK, Saved, Interruptible, Loading
<1>2. PICK end \in Ends \cup {"return"}, half \in {"low", "high"} :
        handlers' = Append(handlers, Handler(end, mscratch, half, cur))
  BY DEF Interrupt, Exception, Fault, EnterException, Ends
<1>3. Handler(end, mscratch, half, cur) \in HandlerRecords
  BY <1>1 DEF Handler, HandlerRecords, TypeOK
<1>4. Len(handlers) \in Nat
  BY LenProperties DEF TypeOK
<1>5. /\ handlers' \in Seq(HandlerRecords)
      /\ Len(handlers') = Len(handlers) + 1
      /\ handlers'[Len(handlers) + 1] = Handler(end, mscratch, half, cur)
      /\ \A k \in 1..Len(handlers) : handlers'[k] = handlers[k]
  BY <1>2, <1>3, Pushed DEF TypeOK
<1>6. Innermost' = Handler(end, mscratch, half, cur)
  BY <1>5 DEF Innermost
<1>7. context' = [context EXCEPT ![mscratch] = cur] /\ mepc' = cur.at
  BY DEF Interrupt, Exception, Fault, EnterException
<1>8. TypeOK'
  <2>1. cur' \in [who : Interruptible \cup {"interrupt"}, at : 0..(Steps - 1)]
    <3>1. cur' = Code("interrupt", 0) \/ cur' = Code("exception", 0)
      BY DEF Interrupt, Exception, Fault, EnterException
    <3> QED BY <3>1, PlaceZero DEF Code, Interruptible
  <2>2. mscratch' \in Contexts /\ mie' \in BOOLEAN
    BY DEF Interrupt, Exception, Fault, EnterException, Contexts, TypeOK
  <2> QED BY <1>1, <1>5, <1>7, <2>1, <2>2 DEF TypeOK, Saved
<1> QED BY <1>1, <1>4, <1>5, <1>6, <1>7, <1>8 DEF Handler

\* The end of a handler: the outer ones are left.
LEMMA MretTypes ==
  ASSUME TypeOK, Len(handlers) >= 1, Mret \/ DelegateMret
  PROVE  /\ TypeOK' /\ Len(handlers) \in Nat /\ cur.at \in Contexts
         /\ Len(handlers') = Len(handlers) - 1
         /\ \A k \in 1..(Len(handlers) - 1) : handlers'[k] = handlers[k]
         /\ Len(handlers) = 1 => handlers' = <<>>
<1>1. Len(handlers) \in Nat
  BY InnermostType DEF TypeOK
<1>2. handlers' = Outer /\ cur.who \in {"mret", "sret"}
  BY DEF Mret, DelegateMret
<1>3. cur.at \in Contexts
  BY <1>2 DEF TypeOK, Interruptible
<1>4. cur' \in [who : Interruptible \cup {"interrupt"}, at : 0..(Steps - 1)]
  BY <1>3, PlaceZero DEF Mret, DelegateMret, Code, TypeOK, Saved
<1>5. mepc' \in 0..(Steps - 1) /\ mie' \in BOOLEAN /\ UNCHANGED <<context, mscratch>>
  BY PlaceZero DEF Mret, DelegateMret, TypeOK
<1>6. TypeOK'
  BY <1>2, <1>4, <1>5, Popped DEF TypeOK
<1> QED BY <1>1, <1>2, <1>3, <1>6, Popped DEF TypeOK

\* A trap keeps the nesting, and saves where nothing is saved that a handler in
\* progress returns to: in the context of S-mode, of the hart that waits, or, if
\* it interrupts an exception handler, in the second one.
LEMMA TrapNests ==
  ASSUME TypeOK, TrapParts, Interrupt \/ (\E end \in Ends : Exception(end)) \/ Fault
  PROVE  Nesting' /\ Kept'
<1> USE DEF TrapParts
<1>1. /\ cur \in Saved /\ Len(handlers) \in Nat
      /\ context' = [context EXCEPT ![mscratch] = cur]
      /\ Len(handlers') = Len(handlers) + 1
      /\ \A k \in 1..Len(handlers) : handlers'[k] = handlers[k]
      /\ Innermost' = handlers'[Len(handlers) + 1]
      /\ Innermost'.ctx = mscratch /\ Innermost'.back = cur
      /\ mscratch \in Contexts /\ context \in [Contexts -> Saved]
  BY TrapTypes DEF TypeOK
<1>2. cur.who \in Interruptible
  BY DEF Interrupt, Exception, Fault, Executing, Interruptible
<1>3. PICK end \in Ends \cup {"return"}, half \in {"low", "high"} :
        /\ Innermost' = Handler(end, mscratch, half, cur)
        /\ end \in {"ecall", "delegate"} => cur.who = "smode"
        /\ half = "high" <=> end = "return"
        /\ half = "low" /\ cur.who = "exception" => end = "halt" /\ Len(handlers) = 1
  <2>1. PICK end \in Ends \cup {"return"}, half \in {"low", "high"} :
          /\ handlers' = Append(handlers, Handler(end, mscratch, half, cur))
          /\ end \in {"ecall", "delegate"} => cur.who = "smode"
          /\ half = "high" <=> end = "return"
          /\ half = "low" /\ cur.who = "exception" => end = "halt" /\ Len(handlers) = 1
    BY DEF Interrupt, Exception, Fault, EnterException, Ends
  <2>2. Handler(end, mscratch, half, cur) \in HandlerRecords
    BY <1>1 DEF Handler, HandlerRecords
  <2>3. handlers'[Len(handlers) + 1] = Handler(end, mscratch, half, cur)
    BY <2>1, <2>2, Pushed DEF TypeOK
  <2> QED BY <1>1, <2>1, <2>3
<1> DEFINE n == Len(handlers)
<1>4. /\ n = 0 \/ n = 1 \/ n = 2
      /\ cur.who \in {"smode", "reset"} <=> n = 0
      /\ n >= 1 => cur.who = "exception"
  <2>1. handlers = <<>> <=> n = 0
    BY EmptySeq DEF TypeOK
  <2>2. cur.who \in {"smode", "reset", "exception"}
    BY <1>2 DEF Interruptible
  <2>3. n \in Nat /\ n <= 3
    BY <1>1 DEF Nesting
  <2>4. cur.who = "exception" => n >= 1 /\ n <= 2
    BY DEF Executing
  <2>5. cur.who \in {"smode", "reset"} => handlers = <<>>
    BY DEF Executing
  <2> HIDE DEF n
  <2> QED BY <2>1, <2>2, <2>3, <2>4, <2>5
<1>5. Innermost'.end = end /\ Innermost'.half = half
  BY <1>3 DEF Handler
<1>6. context'[mscratch] = cur
  BY <1>1
<1>7. \A c \in Contexts : c # mscratch => context'[c] = context[c]
  BY <1>1
<1>8. CASE n = 0
  <2>1. Len(handlers') = 1 /\ Innermost' = handlers'[1]
    BY <1>1, <1>8
  <2>2. cur.who \in {"smode", "reset"}
        /\ mscratch = IF cur.who = "smode" THEN "hart_contexts_user" ELSE "hart_contexts"
    BY <1>4, <1>8 DEF Executing
  <2>3. handlers'[1].ctx = mscratch /\ handlers'[1].back = cur /\ handlers'[1].end = end
    BY <1>1, <1>5, <2>1
  <2>4. Nesting'
    BY <1>3, <2>1, <2>2, <2>3 DEF Nesting
  <2>5. context'["hart_contexts"].who = "reset"
    BY <1>6, <1>7, <2>2 DEF Kept, Contexts
  <2>6. Kept'
    BY <1>6, <2>1, <2>3, <2>5 DEF Kept
  <2> QED BY <2>4, <2>6
<1>9. CASE n = 1
  <2>1. Len(handlers') = 2 /\ Innermost' = handlers'[2] /\ handlers'[1] = handlers[1]
    BY <1>1, <1>9
  <2>2. /\ mscratch = "hart_contexts_exception" /\ cur.who = "exception"
        /\ handlers[1].half = "low"
    BY <1>4, <1>9 DEF Executing, Innermost
  <2>3. Nesting'
    BY <1>1, <1>3, <1>5, <1>9, <2>1, <2>2 DEF Nesting, Ends
  <2>4. handlers[1].ctx # mscratch /\ handlers[1].ctx \in Contexts
    BY <1>9, <2>2 DEF Nesting, Contexts
  <2>5. Kept'
    BY <1>1, <1>6, <1>7, <1>9, <2>1, <2>2, <2>4 DEF Kept, Contexts
  <2> QED BY <2>3, <2>5
<1>10. CASE n = 2
  <2>1. /\ Len(handlers') = 3 /\ Innermost' = handlers'[3]
        /\ handlers'[1] = handlers[1] /\ handlers'[2] = handlers[2]
    BY <1>1, <1>10
  <2>2. /\ mscratch = "hart_contexts_exception" /\ cur.who = "exception"
        /\ handlers[2].half = "low"
    BY <1>4, <1>10 DEF Executing, Innermost
  <2>3. half = "high" /\ end = "return"
    BY <1>3, <1>10, <2>2
  <2>4. Nesting'
    BY <1>1, <1>5, <1>10, <2>1, <2>2, <2>3 DEF Nesting
  <2>5. handlers[1].ctx # mscratch /\ handlers[1].ctx \in Contexts
    BY <1>10, <2>2 DEF Nesting, Contexts
  <2>6. Kept'
    BY <1>1, <1>6, <1>7, <1>10, <2>1, <2>2, <2>5 DEF Kept, Contexts
  <2> QED BY <2>4, <2>6
<1> QED BY <1>4, <1>8, <1>9, <1>10

\* A trap leaves the hart in a handler with a context pointer and a half of the
\* stack that the traps to come may use.
LEMMA TrapStep ==
  ASSUME TypeOK, TrapParts, Interrupt \/ (\E end \in Ends : Exception(end)) \/ Fault
  PROVE  TypeOK' /\ TrapParts'
<1>1. /\ TypeOK' /\ cur \in Saved /\ Len(handlers) \in Nat
      /\ Len(handlers') = Len(handlers) + 1
      /\ Innermost' = handlers'[Len(handlers) + 1]
      /\ Innermost'.ctx = mscratch /\ Innermost'.back = cur
  BY TrapTypes DEF TrapParts
<1>2. CASE Interrupt
  <2>1. Handler("return", mscratch, "high", cur) \in HandlerRecords
    BY <1>1 DEF Handler, HandlerRecords, TypeOK
  <2>2. Innermost' = Handler("return", mscratch, "high", cur)
    BY <1>1, <1>2, <2>1, Pushed DEF Interrupt, TypeOK
  <2>3. cur' = Code("interrupt", 0) /\ mie' = FALSE /\ mscratch' = mscratch
    BY <1>2 DEF Interrupt
  <2>4. Executing'
    BY <1>1, <2>2, <2>3 DEF Executing, Code, Handler
  <2>5. Resuming'
    BY <2>3 DEF Resuming, Code
  <2> QED BY <1>1, <1>2, <2>4, <2>5, TrapNests DEF TrapParts
<1>3. CASE (\E end \in Ends : Exception(end)) \/ Fault
  <2>1. PICK end \in Ends :
          /\ handlers' = Append(handlers, Handler(end, mscratch, "low", cur))
          /\ cur' = Code("exception", 0) /\ mscratch' = "hart_contexts_exception"
    BY <1>3 DEF Exception, Fault, EnterException, Ends
  <2>2. Handler(end, mscratch, "low", cur) \in HandlerRecords
    BY <1>1 DEF Handler, HandlerRecords, TypeOK
  <2>3. Innermost' = Handler(end, mscratch, "low", cur)
    BY <1>1, <2>1, <2>2, Pushed DEF TypeOK
  <2>4. Len(handlers) = 0 \/ Len(handlers) = 1
    <3>1. handlers = <<>> => Len(handlers) = 0
      BY EmptySeq
    <3>2. cur.who \in {"smode", "reset"} \/ Len(handlers) = 1
      BY <1>3 DEF Exception, Fault
    <3>3. cur.who \in {"smode", "reset"} => handlers = <<>>
      BY DEF TrapParts, Executing
    <3> QED BY <3>1, <3>2, <3>3
  <2>5. Executing'
    <3>1. \A n \in {0, 1} : n + 1 >= 1 /\ n + 1 <= 2
      OBVIOUS
    <3>2. Len(handlers') >= 1 /\ Len(handlers') <= 2
      BY <1>1, <2>4, <3>1
    <3> QED BY <2>1, <2>3, <3>2 DEF Executing, Code, Handler, Interruptible
  <2>6. Resuming'
    BY <2>1 DEF Resuming, Code
  <2> QED BY <1>1, <1>3, <2>5, <2>6, TrapNests DEF TrapParts
<1> QED BY <1>2, <1>3

\* The code that loads a context, when it gets to mret: what the innermost
\* handler has to return to is what it resumes.
LEMMA ResumesBack ==
  ASSUME TypeOK, TrapParts, Mret
  PROVE  cur' = Innermost.back /\ mscratch = Innermost.ctx
<1> USE DEF TrapParts
<1>1. Len(handlers) >= 1 /\ Innermost.end = "return"
  BY DEF Executing, Resuming, Mret
<1>2. Innermost \in HandlerRecords /\ Len(handlers) \in Nat
  BY <1>1, InnermostType DEF TypeOK
<1>3. /\ mscratch = cur.at /\ cur.at = Innermost.ctx /\ mepc = context[cur.at].at
      /\ cur' = Code(context[cur.at].who, mepc)
  BY DEF Resuming, Mret
<1>4. context[Innermost.ctx] = Innermost.back
  <2>1. CASE Len(handlers) = 1
    BY <2>1 DEF Kept, Innermost
  <2>2. CASE Len(handlers) = 2
    BY <1>1, <2>2 DEF Kept, Nesting, Innermost
  <2>3. CASE Len(handlers) = 3
    BY <1>1, <2>3 DEF Kept, Nesting, Innermost
  <2>4. Len(handlers) \in {1, 2, 3}
    BY <1>1, <1>2, Depth
  <2> QED BY <2>1, <2>2, <2>3, <2>4
<1>5. Innermost.back \in [who : Interruptible, at : 0..(Steps - 1)]
  BY <1>2 DEF HandlerRecords, Saved
<1>6. Code(Innermost.back.who, Innermost.back.at) = Innermost.back
  BY <1>5 DEF Code
<1> QED BY <1>3, <1>4, <1>6

\* The end of a handler that returns puts the hart back where the trap found it:
\* with its context pointer, and the handlers it was in.
LEMMA MretStep == TypeOK /\ TrapParts /\ Mret => TypeOK' /\ TrapParts'
<1> SUFFICES ASSUME TypeOK, TrapParts, Mret PROVE TypeOK' /\ TrapParts'
  OBVIOUS
<1> USE DEF TrapParts
<1>1. Len(handlers) >= 1 /\ Innermost.end = "return"
  BY DEF Executing, Resuming, Mret
<1>2. /\ TypeOK' /\ Len(handlers) \in Nat
      /\ Len(handlers') = Len(handlers) - 1
      /\ \A k \in 1..(Len(handlers) - 1) : handlers'[k] = handlers[k]
      /\ Len(handlers) = 1 => handlers' = <<>>
  BY <1>1, MretTypes
<1>3. /\ cur' = Innermost.back /\ mscratch = Innermost.ctx
      /\ UNCHANGED <<context, mscratch>>
  BY ResumesBack DEF Mret
<1>4. Len(handlers) \in {1, 2, 3}
  BY <1>1, <1>2 DEF Nesting
<1>5. Resuming' /\ cur'.who \in Interruptible
  <2>1. Innermost \in HandlerRecords
    BY <1>1, InnermostType DEF TypeOK
  <2>2. cur'.who \in Interruptible
    BY <1>3, <2>1 DEF HandlerRecords, Saved
  <2> QED BY <2>2 DEF Resuming, Interruptible
<1>6. CASE Len(handlers) = 1
  <2>1. /\ handlers' = <<>> /\ Len(handlers') = 0
        /\ cur'.who \in {"smode", "reset"}
        /\ mscratch' = IF cur'.who = "smode" THEN "hart_contexts_user" ELSE "hart_contexts"
    BY <1>2, <1>3, <1>6 DEF Nesting, Innermost
  <2>2. Nesting'
    BY <2>1 DEF Nesting
  <2>3. Kept'
    BY <1>3, <2>1 DEF Kept
  <2>4. Executing'
    BY <1>5, <2>1 DEF Executing
  <2> QED BY <1>2, <1>5, <2>2, <2>3, <2>4
<1>7. CASE Len(handlers) = 2
  <2>1. /\ Len(handlers') = 1 /\ handlers'[1] = handlers[1]
        /\ Innermost' = handlers[1]
    BY <1>2, <1>7 DEF Innermost
  <2>2. /\ cur'.who = "exception" /\ mscratch' = "hart_contexts_exception"
        /\ handlers[1].half = "low"
    BY <1>3, <1>7 DEF Nesting, Innermost
  <2>3. Nesting' /\ Kept'
    BY <1>3, <1>7, <2>1 DEF Nesting, Kept
  <2>4. Executing'
    BY <1>5, <2>1, <2>2 DEF Executing
  <2> QED BY <1>2, <1>5, <2>3, <2>4
<1>8. CASE Len(handlers) = 3
  <2>1. /\ Len(handlers') = 2
        /\ handlers'[1] = handlers[1] /\ handlers'[2] = handlers[2]
        /\ Innermost' = handlers[2]
    BY <1>2, <1>8 DEF Innermost
  <2>2. /\ cur'.who = "exception" /\ mscratch' = "hart_contexts_exception"
        /\ handlers[2].half = "low" /\ handlers[2].end = "halt"
    BY <1>3, <1>8 DEF Nesting, Innermost
  <2>3. Nesting' /\ Kept'
    BY <1>3, <1>8, <2>1, <2>2 DEF Nesting, Kept
  <2>4. Executing'
    BY <1>5, <2>1, <2>2 DEF Executing
  <2> QED BY <1>2, <1>5, <2>3, <2>4
<1> QED BY <1>4, <1>6, <1>7, <1>8

\* The trap handler of S-mode takes over from the handler that delegates, with
\* the context of S-mode in mscratch.
LEMMA DelegateMretStep == TypeOK /\ TrapParts /\ DelegateMret => TypeOK' /\ TrapParts'
<1> SUFFICES ASSUME TypeOK, TrapParts, DelegateMret PROVE TypeOK' /\ TrapParts'
  OBVIOUS
<1> USE DEF TrapParts
<1>1. /\ Len(handlers) = 1 /\ handlers[1].end = "delegate"
      /\ mscratch = cur.at /\ cur.at = "hart_contexts_user"
  BY DEF Resuming, DelegateMret
<1>2. TypeOK' /\ handlers' = <<>> /\ Len(handlers') = 0
  BY <1>1, MretTypes
<1>3. cur'.who = "smode" /\ UNCHANGED <<context, mscratch>>
  BY <1>1 DEF DelegateMret, Nesting, Kept, Code
<1> QED BY <1>1, <1>2, <1>3 DEF Nesting, Kept, Executing, Resuming, Interruptible

-----------------------------------------------------------------------------
\* One handler in progress.
LEMMA Sole ==
  ASSUME NEW x \in HandlerRecords
  PROVE  /\ <<x>> \in Seq(HandlerRecords) /\ Len(<<x>>) = 1 /\ <<x>>[1] = x
         /\ Append(<<>>, x) = <<x>>
OBVIOUS

\* A handler that lets the hart go on with something else than what its traps
\* interrupted leaves one handler, for the context that is loaded.
LEMMA LeaveStep ==
  ASSUME TypeOK, TrapParts, Stop \/ Start
  PROVE  TypeOK' /\ TrapParts'
<1> USE DEF TrapParts
<1>1. PICK ctx \in Contexts, code \in Saved :
        /\ Leave(ctx, code)
        /\ code.who \in {"smode", "reset"}
        /\ ctx = IF code.who = "smode" THEN "hart_contexts_user" ELSE "hart_contexts"
  <2>1. CASE Stop
    <3>1. Leave("hart_contexts", context["hart_contexts"])
      BY <2>1 DEF Stop
    <3>2. /\ context["hart_contexts"].who = "reset" /\ context["hart_contexts"] \in Saved
          /\ "hart_contexts" \in Contexts
      BY DEF Kept, TypeOK, Contexts
    <3> QED BY <3>1, <3>2
  <2>2. CASE Start
    <3>1. Leave("hart_contexts_user", Code("smode", 0))
      BY <2>2 DEF Start
    <3>2. Code("smode", 0) \in Saved /\ "hart_contexts_user" \in Contexts
      BY PlaceZero DEF Code, Saved, Interruptible, Contexts
    <3>3. Code("smode", 0).who = "smode"
      BY DEF Code
    <3> QED BY <3>1, <3>2, <3>3
  <2> QED BY <2>1, <2>2
<1>2. Innermost \in HandlerRecords
  BY InnermostType DEF TypeOK, Executing, Stop, Start
<1>3. Handler("return", ctx, Innermost.half, code) \in HandlerRecords
  BY <1>1, <1>2 DEF Handler, HandlerRecords
<1> DEFINE x == Handler("return", ctx, Innermost.half, code)
<1>4. /\ handlers' = <<x>> /\ Len(handlers') = 1 /\ handlers'[1] = x
      /\ handlers' \in Seq(HandlerRecords) /\ Innermost' = x
  BY <1>1, <1>3, Sole DEF Leave, Innermost
<1>5. x.end = "return" /\ x.ctx = ctx /\ x.back = code
  BY DEF Handler
<1>6. /\ cur' = Code("switch", ctx) /\ mie' = FALSE /\ UNCHANGED <<mscratch, mepc>>
      /\ context' = [context EXCEPT ![ctx] = code]
  BY <1>1 DEF Leave, SwitchContext
<1> HIDE DEF x
<1>7. TypeOK'
  BY <1>1, <1>4, <1>6 DEF TypeOK, Code, Loading
<1>8. context'[ctx] = code /\ context'["hart_contexts"].who = "reset"
  BY <1>1, <1>6 DEF Kept, TypeOK, Contexts
<1>9. Nesting' /\ Kept'
  BY <1>1, <1>4, <1>5, <1>8 DEF Nesting, Kept
<1>10. Executing' /\ Resuming'
  BY <1>4, <1>5, <1>6 DEF Executing, Resuming, Code
<1> QED BY <1>7, <1>9, <1>10

\* The context is advanced behind the environment call, and with it what the
\* handler has to return to.
LEMMA SkipEcallStep == TypeOK /\ TrapParts /\ SkipEcall => TypeOK' /\ TrapParts'
<1> SUFFICES ASSUME TypeOK, TrapParts, SkipEcall PROVE TypeOK' /\ TrapParts'
  OBVIOUS
<1> USE DEF TrapParts
<1>1. Innermost \in HandlerRecords /\ Len(handlers) \in Nat /\ Len(handlers) >= 1
  BY InnermostType DEF TypeOK, Executing, SkipEcall
<1>2. /\ Len(handlers) = 1 /\ Innermost = handlers[1]
      /\ handlers[1].back.who = "smode" /\ handlers[1].ctx = "hart_contexts_user"
      /\ handlers[1].half = "low" /\ mscratch = "hart_contexts_exception"
  <2>1. Len(handlers) # 2
    BY DEF Nesting, Innermost, SkipEcall
  <2>2. Len(handlers) = 1
    <3>1. Len(handlers) <= 2
      BY DEF Executing, SkipEcall
    <3> QED BY <1>1, <2>1, <3>1, Depth
  <2> QED BY <2>2 DEF Nesting, Executing, Innermost, SkipEcall
<1> DEFINE b == handlers[1].back
           next == (b.at + 1) % Steps
           x == Handler("return", "hart_contexts_user", "low", Code(b.who, next))
<1>3. b \in Saved /\ context["hart_contexts_user"] = b
  BY <1>1, <1>2 DEF HandlerRecords, Kept
<1>4. next \in 0..(Steps - 1) /\ Code(b.who, next) \in Saved
  BY <1>3, StepsWrap DEF Saved, Code
<1>5. x \in HandlerRecords
  BY <1>4 DEF Handler, HandlerRecords, Contexts
<1>6. handlers' = <<x>>
  BY <1>1, <1>2, <1>5, Popped, Sole DEF SkipEcall, TypeOK
<1>7. context' = [context EXCEPT !["hart_contexts_user"] = Code(b.who, next)]
  <2>1. context' = [context EXCEPT !["hart_contexts_user"].at = (@ + 1) % Steps]
    BY <1>2 DEF SkipEcall
  <2>2. [b EXCEPT !.at = next] = Code(b.who, next)
    BY <1>3 DEF Saved, Code
  <2> QED BY <1>3, <2>1, <2>2 DEF TypeOK, Contexts
<1>8. UNCHANGED <<cur, mscratch, mepc, mie>>
  BY DEF SkipEcall
<1>9. /\ Len(handlers') = 1 /\ handlers'[1] = x /\ Innermost' = x
      /\ handlers' \in Seq(HandlerRecords)
  BY <1>5, <1>6, Sole DEF Innermost
<1>10. /\ x.end = "return" /\ x.half = "low" /\ x.ctx = "hart_contexts_user"
       /\ x.back = Code(b.who, next) /\ x.back.who = "smode"
  BY <1>2 DEF Handler, Code
<1>11. cur.who = "exception"
  BY DEF SkipEcall
<1> HIDE DEF x, next, b
<1>12. TypeOK'
  BY <1>4, <1>7, <1>8, <1>9 DEF TypeOK
<1>13. Nesting' /\ Kept'
  BY <1>4, <1>7, <1>9, <1>10 DEF Nesting, Kept, TypeOK, Contexts
<1>14. Executing' /\ Resuming'
  BY <1>2, <1>8, <1>9, <1>10, <1>11 DEF Executing, Resuming
<1> QED BY <1>12, <1>13, <1>14

\* The steps that change neither what the handlers have interrupted nor what the
\* contexts hold: the code goes on, or prepares to load a context.
LEMMA QuietStep ==
  ASSUME TypeOK, TrapParts,
         \/ Execute \/ Return \/ Halt \/ SwitchSet \/ Delegate \/ DelegateSet
         \/ UNCHANGED vars
  PROVE  TypeOK' /\ TrapParts'
<1> USE DEF TrapParts
<1>1. UNCHANGED <<context, handlers>>
  BY DEF Execute, Return, Halt, SwitchSet, Delegate, DelegateSet, vars
<1>2. Nesting' /\ Kept' /\ Innermost' = Innermost
  BY <1>1 DEF Nesting, Kept, Innermost
<1>3. CASE Execute
  <2>1. cur \in [who : Interruptible \cup {"interrupt"}, at : 0..(Steps - 1)]
    BY <1>3 DEF Execute, TypeOK, Loading
  <2>2. (cur.at + 1) % Steps \in 0..(Steps - 1)
    BY <2>1, StepsWrap
  <2>3. /\ cur' \in [who : Interruptible \cup {"interrupt"}, at : 0..(Steps - 1)]
        /\ cur'.who = cur.who /\ cur.who \in {"smode", "exception", "interrupt"}
    BY <1>3, <2>1, <2>2 DEF Execute
  <2>4. UNCHANGED <<context, mscratch, mepc, mie, handlers>>
    BY <1>3 DEF Execute
  <2>5. TypeOK'
    BY <2>3, <2>4 DEF TypeOK
  <2>6. Executing' /\ Resuming'
    BY <1>2, <2>3, <2>4 DEF Executing, Resuming
  <2> QED BY <1>2, <2>5, <2>6
<1>4. CASE Return
  <2>1. Innermost \in HandlerRecords
    BY <1>4, InnermostType DEF Return, TypeOK, Executing
  <2>2. /\ cur' = Code("switch", Innermost.ctx) /\ mie' = FALSE
        /\ Innermost.end = "return" /\ Len(handlers) >= 1
        /\ UNCHANGED <<context, mscratch, mepc, handlers>>
    BY <1>4 DEF Return, SwitchContext, Executing
  <2>3. TypeOK'
    BY <2>1, <2>2 DEF TypeOK, Code, Loading, HandlerRecords
  <2>4. Executing' /\ Resuming'
    BY <1>2, <2>2 DEF Executing, Resuming, Code
  <2> QED BY <1>2, <2>3, <2>4
<1>5. CASE Halt
  <2>1. mie' = FALSE /\ UNCHANGED <<cur, context, mscratch, mepc, handlers>>
    BY <1>5 DEF Halt
  <2>2. TypeOK'
    BY <2>1 DEF TypeOK
  <2>3. Executing' /\ Resuming'
    BY <1>2, <2>1 DEF Executing, Resuming
  <2> QED BY <1>2, <2>2, <2>3
<1>6. CASE SwitchSet
  <2>1. /\ cur.who = "switch" /\ cur' = Code("mret", cur.at)
        /\ mscratch' = cur.at /\ mepc' = context[cur.at].at
        /\ UNCHANGED <<context, mie, handlers>>
    BY <1>6 DEF SwitchSet
  <2>2. cur.at \in Contexts
    BY <2>1 DEF TypeOK, Interruptible
  <2>3. TypeOK'
    BY <2>1, <2>2 DEF TypeOK, Code, Loading, Saved
  <2>4. Executing' /\ Resuming'
    BY <1>2, <2>1 DEF Executing, Resuming, Code, Interruptible
  <2> QED BY <1>2, <2>3, <2>4
<1>7. CASE Delegate
  <2>1. /\ cur.who = "exception" /\ Innermost.end = "delegate"
        /\ cur' = Code("delegate", Innermost.ctx) /\ mie' = FALSE
        /\ UNCHANGED <<context, mscratch, mepc, handlers>>
    BY <1>7 DEF Delegate
  <2>2. Len(handlers) \in Nat /\ Len(handlers) >= 1 /\ Len(handlers) <= 2
    BY <2>1, InnermostType DEF TypeOK, Executing
  <2>3. Len(handlers) # 2
    BY <2>1 DEF Nesting, Innermost
  <2>4. Len(handlers) = 1
    BY <2>2, <2>3, Depth
  <2>5. handlers[1].end = "delegate" /\ Innermost.ctx = "hart_contexts_user"
    BY <2>1, <2>4 DEF Nesting, Innermost
  <2>6. TypeOK'
    BY <2>1, <2>5 DEF TypeOK, Code, Loading, Contexts
  <2>7. Executing' /\ Resuming'
    BY <2>1, <2>4, <2>5 DEF Executing, Resuming, Code
  <2> QED BY <1>2, <2>6, <2>7
<1>8. CASE DelegateSet
  <2>1. /\ cur.who = "delegate" /\ cur' = Code("sret", cur.at) /\ mscratch' = cur.at
        /\ UNCHANGED <<context, mepc, mie, handlers>>
    BY <1>8 DEF DelegateSet
  <2>2. cur.at \in Contexts
    BY <2>1 DEF TypeOK, Interruptible
  <2>3. TypeOK'
    BY <2>1, <2>2 DEF TypeOK, Code, Loading
  <2>4. Executing' /\ Resuming'
    BY <1>2, <2>1 DEF Executing, Resuming, Code, Interruptible
  <2> QED BY <1>2, <2>3, <2>4
<1>9. CASE UNCHANGED vars
  <2>1. UNCHANGED <<cur, context, mscratch, mepc, mie, handlers>>
    BY <1>9 DEF vars
  <2>2. TypeOK'
    BY <2>1 DEF TypeOK
  <2>3. Executing' /\ Resuming'
    BY <1>2, <2>1 DEF Executing, Resuming
  <2> QED BY <1>2, <2>2, <2>3
<1> QED BY <1>3, <1>4, <1>5, <1>6, <1>7, <1>8, <1>9

\* Every step keeps the invariant.
LEMMA NextTrapInv == TrapInv /\ [Next]_vars => TrapInv'
<1> SUFFICES ASSUME TypeOK, TrapParts, [Next]_vars PROVE TypeOK' /\ TrapParts'
  BY DEF TrapInv
<1>1. CASE Interrupt \/ (\E end \in Ends : Exception(end)) \/ Fault
  BY <1>1, TrapStep
<1>2. CASE Mret \/ DelegateMret
  BY <1>2, MretStep, DelegateMretStep
<1>3. CASE Stop \/ Start
  BY <1>3, LeaveStep
<1>4. CASE SkipEcall
  BY <1>4, SkipEcallStep
<1>5. CASE \/ Execute \/ Return \/ Halt \/ SwitchSet \/ Delegate \/ DelegateSet
           \/ UNCHANGED vars
  BY <1>5, QuietStep
<1> QED BY <1>1, <1>2, <1>3, <1>4, <1>5 DEF Next

\* However long the handlers are and wherever traps hit, the handlers nest as
\* the contexts and the halves of the stack allow.
THEOREM TrapInvariant == Spec => []TrapInv
BY InitTrapInv, NextTrapInv, PTL DEF Spec

-----------------------------------------------------------------------------
\* What the handlers that return know of each other.
LEMMA ReturningOnes ==
  ASSUME TrapInv, NEW k \in Returning
  PROVE  /\ k \in {1, 2} /\ k <= Len(handlers) /\ Len(handlers) \in {1, 2, 3}
         /\ k = 2 => Len(handlers) = 2 /\ handlers[2].end = "return"
<1>1. Len(handlers) \in Nat /\ DOMAIN handlers = 1..Len(handlers)
  BY LenProperties DEF TrapInv, TypeOK
<1>2. k \in 1..Len(handlers) /\ \A j \in 1..k : handlers[j].end # "halt"
  BY <1>1 DEF Returning
<1>3. Len(handlers) \in {1, 2, 3}
  BY <1>1, <1>2, Depth DEF TrapInv, TrapParts
<1>4. Len(handlers) = 3 => handlers[2].end = "halt"
  BY DEF TrapInv, TrapParts, Nesting
<1>5. k \in {1, 2} /\ (k = 2 => Len(handlers) = 2)
  BY <1>2, <1>3, <1>4
<1>6. k = 2 => handlers[2].end # "halt"
  BY <1>2
<1> QED BY <1>2, <1>3, <1>5, <1>6 DEF TrapInv, TrapParts, Nesting

\* What a handler interrupted stays in the context that the handler will switch
\* to, whatever interrupts and faults hit it before, and while interrupts are
\* enabled the next trap saves somewhere else.
THEOREM ContextsStayKept == Spec => []ContextsKept
<1>1. TrapInv => ContextsKept
  <2> SUFFICES ASSUME TrapInv, NEW k \in Returning
               PROVE  /\ context[handlers[k].ctx] = handlers[k].back
                      /\ k = Len(handlers) /\ mie => mscratch # handlers[k].ctx
    BY DEF ContextsKept
  <2>1. /\ k \in {1, 2} /\ k <= Len(handlers) /\ Len(handlers) \in {1, 2, 3}
        /\ k = 2 => Len(handlers) = 2 /\ handlers[2].end = "return"
    BY ReturningOnes
  <2>2. context[handlers[k].ctx] = handlers[k].back
    BY <2>1 DEF TrapInv, TrapParts, Kept, Nesting
  <2>3. ASSUME k = Len(handlers), mie PROVE mscratch # handlers[k].ctx
    <3>1. handlers # <<>>
      BY <2>1, EmptySeq
    <3>2. cur.who = "exception"
      BY <2>3, <3>1 DEF TrapInv, TrapParts, Executing, Interruptible
    <3>3. mscratch = "hart_contexts_exception" /\ handlers[k].half = "low"
      BY <2>3, <3>2 DEF TrapInv, TrapParts, Executing, Innermost
    <3>4. k = 1
      BY <2>1, <3>3 DEF TrapInv, TrapParts, Nesting
    <3> QED BY <2>3, <3>3, <3>4 DEF TrapInv, TrapParts, Nesting
  <2> QED BY <2>2, <2>3
<1> QED BY <1>1, TrapInvariant, PTL

\* No handler uses the half of the stack of one that it has interrupted and that
\* is going to return.
THEOREM StackStaysKept == Spec => []StackKept
<1>1. TrapInv => StackKept
  <2> SUFFICES ASSUME TrapInv, NEW j \in Returning, NEW k \in Returning, j # k
               PROVE  handlers[j].half # handlers[k].half
    BY DEF StackKept
  <2>1. j \in {1, 2} /\ k \in {1, 2}
    BY ReturningOnes
  <2>2. Len(handlers) = 2 /\ handlers[2].end = "return"
    BY <2>1, ReturningOnes
  <2>3. handlers[1].half = "low" /\ handlers[2].half = "high"
    BY <2>2 DEF TrapInv, TrapParts, Nesting
  <2> QED BY <2>1, <2>3
<1> QED BY <1>1, TrapInvariant, PTL

\* S-mode never executes with the context of a handler in mscratch.
THEOREM SmodeHasItsContext == Spec => []SmodeContext
<1>1. TrapInv => SmodeContext
  BY DEF TrapInv, TrapParts, Executing, SmodeContext
<1> QED BY <1>1, TrapInvariant, PTL

\* A trap ends where the hart was interrupted, or behind the environment call.
THEOREM TrapsReturnBack == Spec => ReturnsBack
<1>1. TrapInv /\ [Next]_vars => [Mret => cur' = Innermost.back]_vars
  BY ResumesBack DEF TrapInv
<1> QED BY <1>1, TrapInvariant, PTL DEF Spec, ReturnsBack

=============================================================================
