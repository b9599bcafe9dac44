---------------------------- MODULE HartsProofs ----------------------------
(***************************************************************************)
(* Theorems about Harts, for any number of harts: its invariants, and that *)
(* it implements HartLifecycle and Mailbox.                                *)
(***************************************************************************)
EXTENDS HartsRefinement, TLAPS

USE DEF locks, box, base, intr, smode, hsm

-----------------------------------------------------------------------------
(***************************************************************************)
(* Types                                                                   *)
(***************************************************************************)

\* Hart ids are numbers.
LEMMA HartsAreNumbers == \A h \in Harts : h \in Int
  BY HartsAssumption DEF Harts

\* An id that passes is_valid_hartid is a hart, so that it is an index of the
\* tables that kinit allocates.
LEMMA ValidIdsAreHarts ==
  \A id \in HartIdArgs : is_valid_hartid(id) => id \in Harts
  BY HartsAssumption DEF HartIdArgs, is_valid_hartid, Harts

\* The initial values have their types.
LEMMA InitTypeOK == Init => TypeOK
  BY HartsAssumption, SMT DEF Init, TypeOK, Harts, BootHart, Empty, Message, NoCommand,
     Hart_Command, Commands, Addrs, HsmStates, Locations, QueHeld, Masked,
     IrqLocations, StartStages

\* A call that names harts only enters its handler with well typed locals.
LEMMA ServeTypeOK ==
  ASSUME TypeOK, NEW h \in Harts, NEW call \in AllCalls,
         NEW to \in {"print", "loop", "hs_lock"}, NEW targets \in SUBSET Harts,
         NEW command \in Hart_Command, Serve(h, call, to, targets, command)
  PROVE  TypeOK'
  BY SMT DEF TypeOK, Serve, Goto, Locations

\* What the senders send is a hart command.
LEMMA MessageType ==
  /\ Empty \in Hart_Command
  /\ Message("SMODE_SOFTINT", NoAddr) \in Hart_Command
  /\ \A c \in FenceCommands : Message(c, NoAddr) \in Hart_Command
  /\ \A addr \in StartAddrs : Message("STARTHART", addr) \in Hart_Command
  BY DEF Empty, Message, NoCommand, Hart_Command, Commands, Addrs

\* The same for the two ways in which a call that names a set of harts goes on.
LEMMA ToHartsTypeOK ==
  ASSUME TypeOK, NEW h \in Harts, NEW call \in AllCalls, NEW command,
         Message(command, NoAddr) \in Hart_Command, ToHarts(h, call, command)
  PROVE  TypeOK'
<1>1. PICK targets \in SUBSET HartIdArgs :
        IF \A t \in targets : is_valid_hartid(t)
          THEN Serve(h, call, "loop", targets, Message(command, NoAddr))
          ELSE Serve(h, call, "print", {}, Empty)
  BY DEF ToHarts
<1>2. CASE \A t \in targets : is_valid_hartid(t)
  <2>1. targets \in SUBSET Harts
    BY <1>2, ValidIdsAreHarts
  <2>. QED
    BY <1>1, <1>2, <2>1, ServeTypeOK
<1>3. CASE ~\A t \in targets : is_valid_hartid(t)
  BY <1>1, <1>3, MessageType, ServeTypeOK
<1>. QED
  BY <1>2, <1>3

\* Every environment call keeps the types.
LEMMA EcallTypeOK ==
  ASSUME TypeOK, NEW h \in Harts, Ecall(h)
  PROVE  TypeOK'
<1>1. CASE Query(h)
  BY <1>1, MessageType, ServeTypeOK DEF Query, AllCalls
<1>2. CASE SendIpi(h)
  BY <1>2, MessageType, ToHartsTypeOK DEF SendIpi, AllCalls
<1>3. CASE RemoteFence(h)
  BY <1>3, MessageType, ToHartsTypeOK DEF RemoteFence, AllCalls
<1>4. CASE HartStart(h)
  <2>1. PICK t \in HartIdArgs, addr \in StartAddrs \cup {NoAddr} :
          IF is_valid_hartid(t) /\ addr # NoAddr /\ t # h
            THEN Serve(h, "start", "hs_lock", {t}, Message("STARTHART", addr))
            ELSE Serve(h, "start", "print", {}, Empty)
    BY <1>4 DEF HartStart
  <2>2. CASE is_valid_hartid(t) /\ addr # NoAddr /\ t # h
    <3>1. {t} \in SUBSET Harts /\ addr \in StartAddrs
      BY <2>2, ValidIdsAreHarts
    <3>. QED
      BY <2>1, <2>2, <3>1, MessageType, ServeTypeOK DEF AllCalls
  <2>3. CASE ~(is_valid_hartid(t) /\ addr # NoAddr /\ t # h)
    BY <2>1, <2>3, MessageType, ServeTypeOK DEF AllCalls
  <2>. QED
    BY <2>2, <2>3
<1>5. CASE HartDown(h)
  BY <1>5, MessageType, ServeTypeOK DEF HartDown, AllCalls
<1>. QED
  BY <1>1, <1>2, <1>3, <1>4, <1>5 DEF Ecall

\* Every step keeps the types.
LEMMA NextTypeOK == TypeOK /\ [Next]_vars => TypeOK'
<1> SUFFICES ASSUME TypeOK, [Next]_vars PROVE TypeOK'
  OBVIOUS
<1>1. CASE UNCHANGED vars
  BY <1>1 DEF vars, TypeOK
<1>2. ASSUME NEW h \in Harts, Ecall(h) PROVE TypeOK'
  BY <1>2, EcallTypeOK
<1> USE DEF TypeOK
<1>3. ASSUME NEW h \in Harts, PrintWait(h) PROVE TypeOK'
  BY <1>3, SMT DEF PrintWait, Goto, Locations
<1>4. ASSUME NEW h \in Harts, PrintPost(h) PROVE TypeOK'
  BY <1>4, SMT DEF PrintPost, Goto, Locations
<1>5. ASSUME NEW h \in Harts, HsLock(h) PROVE TypeOK'
  BY <1>5, SMT DEF HsLock, Goto, Locations, ksem_wait
<1>6. ASSUME NEW h \in Harts, HsCheck(h) PROVE TypeOK'
  BY <1>6, SMT DEF HsCheck, Goto, Locations, Hart_Command, Commands,
     NoCommand, Message, Empty
<1>7. ASSUME NEW h \in Harts, HsSet(h) PROVE TypeOK'
  BY <1>7, SMT DEF HsSet, Goto, Locations, HsmStates, Hart_Command
<1>8. ASSUME NEW h \in Harts, HsPost(h) PROVE TypeOK'
  BY <1>8, SMT DEF HsPost, Goto, Locations, ksem_post, Empty
<1>9. ASSUME NEW h \in Harts, DownLock(h) PROVE TypeOK'
  BY <1>9, SMT DEF DownLock, Goto, Locations, ksem_wait
<1>10. ASSUME NEW h \in Harts, DownSet(h) PROVE TypeOK'
  BY <1>10, SMT DEF DownSet, Goto, Locations, HsmStates
<1>11. ASSUME NEW h \in Harts, DownPost(h) PROVE TypeOK'
  BY <1>11, SMT DEF DownPost, Goto, Locations, ksem_post
<1>12. ASSUME NEW h \in Harts, SwitchToZero(h) PROVE TypeOK'
  BY <1>12, SMT DEF SwitchToZero, Goto, Locations, Locals, Hart_Command,
     Commands, NoCommand, Message, Empty
<1>13. ASSUME NEW h \in Harts, FetchFault(h) PROVE TypeOK'
  BY <1>13, SMT DEF FetchFault, Goto, Locations, Masked
<1>14. ASSUME NEW h \in Harts, FaultPrint(h) PROVE TypeOK'
  BY <1>14, SMT DEF FaultPrint, Goto, Locations, Masked
<1>15. ASSUME NEW h \in Harts, FaultHalt(h) PROVE TypeOK'
  BY <1>15, SMT DEF FaultHalt, Goto, Locations, Masked
<1>16. ASSUME NEW h \in Harts, LoopEnd(h) PROVE TypeOK'
  BY <1>16, SMT DEF LoopEnd, Goto, Locations
<1>17. ASSUME NEW h \in Harts, LoopSelf(h) PROVE TypeOK'
  BY <1>17, SMT DEF LoopSelf, Goto, Locations
<1>18. ASSUME NEW h \in Harts, LoopOther(h) PROVE TypeOK'
  BY <1>18, SMT DEF LoopOther, Goto, Locations
<1>19. ASSUME NEW h \in Harts, QueLock(h) PROVE TypeOK'
  BY <1>19, SMT DEF QueLock, Goto, Locations, QueHeld, ksem_wait
<1>20. ASSUME NEW h \in Harts, QueWait(h) PROVE TypeOK'
  BY <1>20, SMT DEF QueWait, Goto, Locations, QueHeld
<1>21. ASSUME NEW h \in Harts, QueCommand(h) PROVE TypeOK'
  BY <1>21, SMT DEF QueCommand, Goto, Locations, QueHeld, Hart_Command,
     Commands, NoCommand, Message
<1>22. ASSUME NEW h \in Harts, QueParams(h) PROVE TypeOK'
  BY <1>22, SMT DEF QueParams, Goto, Locations, QueHeld, Hart_Command,
     Commands, NoCommand, Message
<1>23. ASSUME NEW h \in Harts, QueRing(h) PROVE TypeOK'
  BY <1>23, SMT DEF QueRing, Goto, Locations, QueHeld
<1>24. ASSUME NEW h \in Harts, QuePost(h) PROVE TypeOK'
  BY <1>24, SMT DEF QuePost, Goto, Locations, QueHeld, ksem_post
<1>25. ASSUME NEW h \in Harts, Sret(h) PROVE TypeOK'
  BY <1>25, SMT DEF Sret, Goto, Locations, Locals, Hart_Command, Commands,
     NoCommand, Message, Empty
<1>26. ASSUME NEW h \in Harts, TakeIrq(h) PROVE TypeOK'
  BY <1>26, SMT DEF TakeIrq, IrqGoto, IrqLocations, StartStages
<1>27. ASSUME NEW h \in Harts, IrqRead(h) PROVE TypeOK'
  BY <1>27, SMT DEF IrqRead, IrqGoto, IrqLocations, StartStages
<1>28. ASSUME NEW h \in Harts, StartPrint(h) PROVE TypeOK'
  BY <1>28, SMT DEF StartPrint, IrqGoto, IrqLocations, StartStages
<1>29. ASSUME NEW h \in Harts, StartPrintPost(h) PROVE TypeOK'
  BY <1>29, SMT DEF StartPrintPost, IrqGoto, IrqLocations, StartStages
<1>30. ASSUME NEW h \in Harts, StartContext(h) PROVE TypeOK'
  BY <1>30, SMT DEF StartContext, IrqGoto, IrqLocations, StartStages,
     Hart_Command
<1>31. ASSUME NEW h \in Harts, StartLock(h) PROVE TypeOK'
  BY <1>31, SMT DEF StartLock, IrqGoto, IrqLocations, StartStages, ksem_wait
<1>32. ASSUME NEW h \in Harts, StartSet(h) PROVE TypeOK'
  BY <1>32, SMT DEF StartSet, IrqGoto, IrqLocations, StartStages, HsmStates
<1>33. ASSUME NEW h \in Harts, StartPost(h) PROVE TypeOK'
  BY <1>33, SMT DEF StartPost, IrqGoto, IrqLocations, StartStages, ksem_post
<1>34. ASSUME NEW h \in Harts, IrqClear(h) PROVE TypeOK'
  BY <1>34, SMT DEF IrqClear, IrqGoto, IrqLocations, StartStages,
     Hart_Command, Commands, NoCommand, Message
<1>35. ASSUME NEW h \in Harts, IrqAck(h) PROVE TypeOK'
  BY <1>35, SMT DEF IrqAck, IrqGoto, IrqLocations, StartStages, Hart_Command,
     Commands, NoCommand, Message, Empty
<1>36. ASSUME NEW h \in Harts, IrqSsip(h) PROVE TypeOK'
  BY <1>36, SMT DEF IrqSsip, IrqGoto, IrqLocations, StartStages
<1>37. ASSUME NEW h \in Harts, Enter(h) PROVE TypeOK'
  BY <1>37, SMT DEF Enter, IrqGoto, IrqLocations, StartStages, Locations,
     Locals, Hart_Command, Commands, NoCommand, Message, Empty
<1>38. ASSUME NEW h \in Harts, ClearSsip(h) PROVE TypeOK'
  BY <1>38, SMT DEF ClearSsip, Goto, Locations
<1>. QED
  BY <1>1, <1>2, <1>3, <1>4, <1>5, <1>6, <1>7, <1>8, <1>9, <1>10, <1>11,
     <1>12, <1>13, <1>14, <1>15, <1>16, <1>17, <1>18, <1>19, <1>20, <1>21,
     <1>22, <1>23, <1>24, <1>25, <1>26, <1>27, <1>28, <1>29, <1>30, <1>31,
     <1>32, <1>33, <1>34, <1>35, <1>36, <1>37, <1>38
     DEF Next, Step, Serving, Interrupt

\* Every variable keeps its type, for any number of harts; in particular the
\* firmware only ever indexes its tables with ids of harts.
THEOREM TypeCorrect == Spec => []TypeOK
<1>1. Init => TypeOK
  BY InitTypeOK
<1>2. TypeOK /\ [Next]_vars => TypeOK'
  BY NextTypeOK
<1>. QED
  BY <1>1, <1>2, PTL DEF Spec

-----------------------------------------------------------------------------
(***************************************************************************)
(* Mailboxes                                                               *)
(***************************************************************************)

\* The next target of a hart is unique.
LEMMA NextIsUnique ==
  ASSUME NEW h \in Harts, NEW t \in Harts, NEW u \in Harts,
         IsNext(h, t), IsNext(h, u)
  PROVE  t = u
  BY HartsAreNumbers DEF IsNext

\* Initially the boot hart is about to send, and no mailbox is in use.
LEMMA InitBoxParts == Init => BoxParts
  BY HartsAssumption, SMT DEF Init, BoxParts, QueLocked, InQue, BoxExclusive,
     BoxWritten, OutIsCommand, BoxServed, NoUnhandledCommand, QueHeld, Writing,
     Reading, StartStages, Message, Commands, Harts, BootHart, Empty, NoCommand

\* A call that is entered has a command to send, or prints.
LEMMA ServeBoxParts ==
  ASSUME BoxInv, NEW h \in Harts, NEW call \in AllCalls,
         NEW to \in {"print", "loop", "hs_lock"}, NEW targets,
         NEW command \in Hart_Command, Serve(h, call, to, targets, command),
         to = "print" => command = Empty,
         to = "loop" => command.command \in Commands,
         to = "hs_lock" => command.command = "STARTHART"
  PROVE  BoxParts'
  BY SMT DEF BoxInv, BoxParts, TypeOK, Serve, Goto, QueLocked, InQue,
     BoxExclusive, BoxWritten, OutIsCommand, BoxServed, NoUnhandledCommand,
     IsNext, QueHeld, Writing, Reading, StartStages

\* Every environment call keeps the invariant of the mailboxes.
LEMMA EcallBoxParts ==
  ASSUME BoxInv, NEW h \in Harts, Ecall(h)
  PROVE  BoxParts'
<1>1. ASSUME NEW call \in AllCalls, NEW command \in Commands,
             Message(command, NoAddr) \in Hart_Command, ToHarts(h, call, command)
      PROVE  BoxParts'
  <2>1. Message(command, NoAddr).command = command
    BY DEF Message
  <2>. QED
    BY <1>1, <2>1, MessageType, ServeBoxParts DEF ToHarts
<1>2. CASE Query(h)
  BY <1>2, MessageType, ServeBoxParts DEF Query, AllCalls
<1>3. CASE SendIpi(h)
  BY <1>1, <1>3, MessageType DEF SendIpi, AllCalls, Commands
<1>4. CASE RemoteFence(h)
  BY <1>1, <1>4, MessageType DEF RemoteFence, AllCalls, Commands
<1>5. CASE HartStart(h)
  <2>1. \A addr : Message("STARTHART", addr).command = "STARTHART"
    BY DEF Message
  <2>. QED
    BY <1>5, <2>1, MessageType, ServeBoxParts DEF HartStart, AllCalls
<1>6. CASE HartDown(h)
  BY <1>6, MessageType, ServeBoxParts DEF HartDown, AllCalls
<1>. QED
  BY <1>2, <1>3, <1>4, <1>5, <1>6 DEF Ecall

\* Every step keeps the invariant of the mailboxes.
LEMMA NextBoxInv == BoxInv /\ [Next]_vars => BoxInv'
<1> SUFFICES ASSUME BoxInv, [Next]_vars PROVE BoxInv'
  OBVIOUS
<1>1. TypeOK'
  BY NextTypeOK DEF BoxInv
<1>2. CASE UNCHANGED vars
  BY <1>2 DEF vars, BoxInv, BoxParts, TypeOK, QueLocked, InQue, BoxExclusive,
     BoxWritten, OutIsCommand, BoxServed, NoUnhandledCommand, IsNext
<1>3. ASSUME NEW h \in Harts, Ecall(h) PROVE BoxParts'
  BY <1>3, EcallBoxParts
<1> USE DEF BoxInv, TypeOK, BoxParts, QueLocked, InQue, BoxExclusive, BoxWritten,
        OutIsCommand, BoxServed, NoUnhandledCommand, IsNext, QueHeld, Writing,
        Reading, StartStages
<1>4. ASSUME NEW h \in Harts, PrintWait(h) PROVE BoxParts'
  BY <1>4, SMT DEF PrintWait, Goto, Empty, Message, NoCommand
<1>5. ASSUME NEW h \in Harts, PrintPost(h) PROVE BoxParts'
  <2>1. /\ pc[h] = "print_post"
        /\ pc' \in {[pc EXCEPT ![h] = "down_lock"],
                    [pc EXCEPT ![h] = "hs_post"], [pc EXCEPT ![h] = "sret"]}
        /\ UNCHANGED <<hart_command_que_locks, box, todo, out, irq, cmd>>
    BY <1>5 DEF PrintPost, Goto
  <2>2. OutIsCommand'
    BY <2>1, SMT
  <2>3. \A g \in Harts :
          /\ pc'[g] \in QueHeld => pc'[g] = pc[g]
          /\ \A t \in Harts : IsNext(g, t)' <=> IsNext(g, t)
    BY <2>1, SMT
  <2>4. (BoxServed /\ NoUnhandledCommand)'
    BY <2>1
  <2>5. (QueLocked /\ BoxExclusive /\ BoxWritten)'
    <3> HIDE DEF IsNext
    <3>. QED
      BY <2>1, <2>3, SMT
  <2>. QED
    BY <2>2, <2>4, <2>5
<1>6. ASSUME NEW h \in Harts, HsLock(h) PROVE BoxParts'
  BY <1>6, SMT DEF HsLock, Goto, ksem_wait
<1>7. ASSUME NEW h \in Harts, HsCheck(h) PROVE BoxParts'
  BY <1>7, SMT DEF HsCheck, Goto, Empty, Message, NoCommand, Hart_Command,
     Commands
<1>8. ASSUME NEW h \in Harts, HsSet(h) PROVE BoxParts'
  BY <1>8, SMT DEF HsSet, Goto
<1>9. ASSUME NEW h \in Harts, HsPost(h) PROVE BoxParts'
  BY <1>9, SMT DEF HsPost, Goto, ksem_post, Empty, Message, NoCommand,
     Hart_Command, Commands
<1>10. ASSUME NEW h \in Harts, DownLock(h) PROVE BoxParts'
  BY <1>10, SMT DEF DownLock, Goto, ksem_wait
<1>11. ASSUME NEW h \in Harts, DownSet(h) PROVE BoxParts'
  BY <1>11, SMT DEF DownSet, Goto
<1>12. ASSUME NEW h \in Harts, DownPost(h) PROVE BoxParts'
  BY <1>12, SMT DEF DownPost, Goto, ksem_post
<1>13. ASSUME NEW h \in Harts, SwitchToZero(h) PROVE BoxParts'
  BY <1>13, SMT DEF SwitchToZero, Goto, Locals, Empty, Message, NoCommand
<1>14. ASSUME NEW h \in Harts, FetchFault(h) PROVE BoxParts'
  BY <1>14, SMT DEF FetchFault, Goto, Masked
<1>15. ASSUME NEW h \in Harts, FaultPrint(h) PROVE BoxParts'
  BY <1>15, SMT DEF FaultPrint, Goto
<1>16. ASSUME NEW h \in Harts, FaultHalt(h) PROVE BoxParts'
  BY <1>16, SMT DEF FaultHalt, Goto, Masked
<1>17. ASSUME NEW h \in Harts, LoopEnd(h) PROVE BoxParts'
  BY <1>17, SMT DEF LoopEnd, Goto
<1>18. ASSUME NEW h \in Harts, LoopSelf(h) PROVE BoxParts'
  BY <1>18, SMT DEF LoopSelf, Goto
<1>19. ASSUME NEW h \in Harts, LoopOther(h) PROVE BoxParts'
  BY <1>19, SMT DEF LoopOther, Goto
<1>20. ASSUME NEW h \in Harts, QueLock(h) PROVE BoxParts'
  <2>1. PICK t \in Harts : IsNext(h, t) /\ ksem_wait(hart_command_que_locks, t)
    BY <1>20 DEF QueLock
  <2>2. QueLocked'
    <3>1. \A g, u \in Harts : IsNext(g, u)' <=> IsNext(g, u)
      BY <1>20 DEF QueLock
    <3>2. \A u \in Harts : IsNext(h, u) => u = t
      BY <2>1, NextIsUnique
    <3> HIDE DEF IsNext
    <3>3. \A g \in Harts : ~(pc[g] \in QueHeld /\ IsNext(g, t))
      BY <2>1 DEF ksem_wait
    <3>. QED
      BY <1>20, <2>1, <3>1, <3>2, <3>3, SMT DEF QueLock, ksem_wait, Goto
  <2>3. BoxExclusive'
    BY <1>20, <2>1, NextIsUnique, SMT DEF QueLock, ksem_wait, Goto
  <2>4. BoxWritten'
    BY <1>20, <2>1, NextIsUnique, SMT DEF QueLock, ksem_wait, Goto
  <2>5. OutIsCommand'
    BY <1>20, <2>1, NextIsUnique, SMT DEF QueLock, ksem_wait, Goto
  <2>6. BoxServed'
    BY <1>20, <2>1, NextIsUnique, SMT DEF QueLock, ksem_wait, Goto
  <2>7. NoUnhandledCommand'
    BY <1>20, <2>1, NextIsUnique, SMT DEF QueLock, ksem_wait, Goto
  <2>. QED
    BY <2>2, <2>3, <2>4, <2>5, <2>6, <2>7
<1>21. ASSUME NEW h \in Harts, QueWait(h) PROVE BoxParts'
  <2>1. PICK t \in Harts : IsNext(h, t) /\ msip[t] = 0
    BY <1>21 DEF QueWait
  <2>2. QueLocked'
    BY <1>21, <2>1, NextIsUnique, SMT DEF QueWait, Goto
  <2>3. BoxExclusive'
    BY <1>21, <2>1, NextIsUnique, SMT DEF QueWait, Goto
  <2>4. BoxWritten'
    BY <1>21, <2>1, NextIsUnique, SMT DEF QueWait, Goto
  <2>5. OutIsCommand'
    BY <1>21, <2>1, NextIsUnique, SMT DEF QueWait, Goto
  <2>6. BoxServed'
    BY <1>21, <2>1, NextIsUnique, SMT DEF QueWait, Goto
  <2>7. NoUnhandledCommand'
    BY <1>21, <2>1, NextIsUnique, SMT DEF QueWait, Goto
  <2>. QED
    BY <2>2, <2>3, <2>4, <2>5, <2>6, <2>7
<1>22. ASSUME NEW h \in Harts, QueCommand(h) PROVE BoxParts'
  <2>1. PICK t \in Harts : IsNext(h, t) /\ hart_commands' =
          [hart_commands EXCEPT ![t] = Message(out[h].command, @.param1)]
    BY <1>22 DEF QueCommand
  <2>2. QueLocked'
    BY <1>22, <2>1, NextIsUnique, SMT DEF QueCommand, Goto, Message
  <2>3. BoxExclusive'
    BY <1>22, <2>1, NextIsUnique, SMT DEF QueCommand, Goto, Message
  <2>4. BoxWritten'
    <3>1. \A g, u \in Harts : IsNext(g, u)' <=> IsNext(g, u)
      BY <1>22 DEF QueCommand
    <3>2. \A u \in Harts : IsNext(h, u) => u = t
      BY <2>1, NextIsUnique
    <3> HIDE DEF IsNext
    <3>3. \A g \in Harts : pc[g] \in QueHeld /\ IsNext(g, t) => g = h
      BY <1>22, <2>1 DEF QueCommand, Goto
    <3>. QED
      BY <1>22, <2>1, <3>1, <3>2, <3>3, SMT DEF QueCommand, Goto, Message
  <2>5. OutIsCommand'
    BY <1>22, <2>1, NextIsUnique, SMT DEF QueCommand, Goto, Message
  <2>6. BoxServed'
    BY <1>22, <2>1, NextIsUnique, SMT DEF QueCommand, Goto, Message
  <2>7. NoUnhandledCommand'
    BY <1>22, <2>1, NextIsUnique, SMT DEF QueCommand, Goto, Message
  <2>. QED
    BY <2>2, <2>3, <2>4, <2>5, <2>6, <2>7
<1>23. ASSUME NEW h \in Harts, QueParams(h) PROVE BoxParts'
  <2>1. PICK t \in Harts : IsNext(h, t) /\ hart_commands' =
          [hart_commands EXCEPT ![t] = Message(@.command, out[h].param1)]
    BY <1>23 DEF QueParams
  <2>2. QueLocked'
    BY <1>23, <2>1, NextIsUnique, SMT DEF QueParams, Goto, Message
  <2>3. BoxExclusive'
    BY <1>23, <2>1, NextIsUnique, SMT DEF QueParams, Goto, Message
  <2>4. BoxWritten'
    <3>1. \A g, u \in Harts : IsNext(g, u)' <=> IsNext(g, u)
      BY <1>23 DEF QueParams
    <3>2. \A u \in Harts : IsNext(h, u) => u = t
      BY <2>1, NextIsUnique
    <3> HIDE DEF IsNext
    <3>3. \A g \in Harts : pc[g] \in QueHeld /\ IsNext(g, t) => g = h
      BY <1>23, <2>1 DEF QueParams, Goto
    <3>. QED
      BY <1>23, <2>1, <3>1, <3>2, <3>3, SMT DEF QueParams, Goto, Message
  <2>5. OutIsCommand'
    BY <1>23, <2>1, NextIsUnique, SMT DEF QueParams, Goto, Message
  <2>6. BoxServed'
    BY <1>23, <2>1, NextIsUnique, SMT DEF QueParams, Goto, Message
  <2>7. NoUnhandledCommand'
    BY <1>23, <2>1, NextIsUnique, SMT DEF QueParams, Goto, Message
  <2>. QED
    BY <2>2, <2>3, <2>4, <2>5, <2>6, <2>7
<1>24. ASSUME NEW h \in Harts, QueRing(h) PROVE BoxParts'
  <2>1. PICK t \in Harts : IsNext(h, t) /\ msip' = [msip EXCEPT ![t] = 1]
    BY <1>24 DEF QueRing
  <2>2. QueLocked'
    BY <1>24, <2>1, NextIsUnique, SMT DEF QueRing, Goto
  <2>3. BoxExclusive'
    BY <1>24, <2>1, NextIsUnique, SMT DEF QueRing, Goto
  <2>4. BoxWritten'
    BY <1>24, <2>1, NextIsUnique, SMT DEF QueRing, Goto
  <2>5. OutIsCommand'
    BY <1>24, <2>1, NextIsUnique, SMT DEF QueRing, Goto
  <2>6. BoxServed'
    <3>1. hart_commands[t].command \in Commands
      BY <1>24, <2>1 DEF QueRing, Goto
    <3>. QED
      BY <1>24, <2>1, <3>1, SMT DEF QueRing, Goto
  <2>7. NoUnhandledCommand'
    BY <1>24, <2>1, NextIsUnique, SMT DEF QueRing, Goto
  <2>. QED
    BY <2>2, <2>3, <2>4, <2>5, <2>6, <2>7
<1>25. ASSUME NEW h \in Harts, QuePost(h) PROVE BoxParts'
  BY <1>25, HartsAreNumbers, SMT DEF QuePost, Goto, ksem_post
<1>26. ASSUME NEW h \in Harts, Sret(h) PROVE BoxParts'
  BY <1>26, SMT DEF Sret, Goto, Locals, Empty, Message, NoCommand
<1>27. ASSUME NEW h \in Harts, TakeIrq(h) PROVE BoxParts'
  BY <1>27, SMT DEF TakeIrq, IrqGoto, Masked
<1>28. ASSUME NEW h \in Harts, IrqRead(h) PROVE BoxParts'
  BY <1>28, SMT DEF IrqRead, IrqGoto, Hart_Command, Commands
<1>29. ASSUME NEW h \in Harts, StartPrint(h) PROVE BoxParts'
  BY <1>29, SMT DEF StartPrint, IrqGoto
<1>30. ASSUME NEW h \in Harts, StartPrintPost(h) PROVE BoxParts'
  BY <1>30, SMT DEF StartPrintPost, IrqGoto
<1>31. ASSUME NEW h \in Harts, StartContext(h) PROVE BoxParts'
  BY <1>31, SMT DEF StartContext, IrqGoto
<1>32. ASSUME NEW h \in Harts, StartLock(h) PROVE BoxParts'
  BY <1>32, SMT DEF StartLock, IrqGoto, ksem_wait
<1>33. ASSUME NEW h \in Harts, StartSet(h) PROVE BoxParts'
  BY <1>33, SMT DEF StartSet, IrqGoto
<1>34. ASSUME NEW h \in Harts, StartPost(h) PROVE BoxParts'
  BY <1>34, SMT DEF StartPost, IrqGoto, ksem_post
<1>35. ASSUME NEW h \in Harts, IrqClear(h) PROVE BoxParts'
  BY <1>35, SMT DEF IrqClear, IrqGoto, Message, NoCommand
<1>36. ASSUME NEW h \in Harts, IrqAck(h) PROVE BoxParts'
  BY <1>36, SMT DEF IrqAck, IrqGoto, Empty, Message, NoCommand
<1>37. ASSUME NEW h \in Harts, IrqSsip(h) PROVE BoxParts'
  BY <1>37, SMT DEF IrqSsip, IrqGoto
<1>38. ASSUME NEW h \in Harts, Enter(h) PROVE BoxParts'
  BY <1>38, SMT DEF Enter, IrqGoto, Locals, Empty, Message, NoCommand
<1>39. ASSUME NEW h \in Harts, ClearSsip(h) PROVE BoxParts'
  BY <1>39, SMT DEF ClearSsip, Goto
<1>. QED
  BY <1>1, <1>2, <1>3, <1>4, <1>5, <1>6, <1>7, <1>8, <1>9, <1>10, <1>11,
     <1>12, <1>13, <1>14, <1>15, <1>16, <1>17, <1>18, <1>19, <1>20, <1>21,
     <1>22, <1>23, <1>24, <1>25, <1>26, <1>27, <1>28, <1>29, <1>30, <1>31,
     <1>32, <1>33, <1>34, <1>35, <1>36, <1>37, <1>38, <1>39
     DEF Next, Step, Serving, Interrupt

\* Any number of harts may command each other and be interrupted anywhere: an
\* interrupt never finds a mailbox without a command.
THEOREM CommandsUnderstood == Spec => []NoUnhandledCommand
<1>1. Init => BoxInv
  BY InitTypeOK, InitBoxParts DEF BoxInv
<1>2. BoxInv /\ [Next]_vars => BoxInv'
  BY NextBoxInv
<1>3. BoxInv => NoUnhandledCommand
  BY DEF BoxInv, BoxParts
<1>. QED
  BY <1>1, <1>2, <1>3, PTL DEF Spec

\* For any number of harts, a mailbox has one writer, which never writes while
\* the interrupt of its owner is pending or reads the mailbox.
THEOREM MailboxesExclusive == Spec => []MailboxExclusive
<1>1. Init => BoxInv
  BY InitTypeOK, InitBoxParts DEF BoxInv
<1>2. BoxInv /\ [Next]_vars => BoxInv'
  BY NextBoxInv
<1>3. BoxInv => MailboxExclusive
  BY DEF BoxInv, BoxParts, MailboxExclusive, QueLocked, BoxExclusive, InQue,
     QueHeld, Writing, Reading
<1>. QED
  BY <1>1, <1>2, <1>3, PTL DEF Spec

-----------------------------------------------------------------------------
(***************************************************************************)
(* The start orders                                                        *)
(***************************************************************************)

\* A step that neither accepts a start, nor passes the order on, nor carries it
\* out.
OrdersKept ==
  /\ want' = want
  /\ \A g, t \in Harts :
       /\ Sending(g, t)' <=> Sending(g, t)
       /\ Sending(g, t) => out'[g].param1 = out[g].param1
  /\ \A t \in Harts :
       /\ StartInBox(t)' <=> StartInBox(t)
       /\ StartInBox(t) => hart_commands'[t].param1 = hart_commands[t].param1

\* Such a step keeps every order where it is.
LEMMA KeptOrdersUnique ==
  ASSUME StartUnique, OrdersKept
  PROVE  StartUnique'
  BY SMT DEF StartUnique, SentIsWanted, SenderUnique, SentNotInBox, BoxIsWanted,
     WantedExists, OrdersKept

\* A hart whose start may be accepted has no order, and is not commanded by
\* kmain.
LEMMA DownHasNoOrder ==
  ASSUME BoxInv, StartInv, NEW h \in Harts, pc[h] = "hs_set", irq[h] = "none",
         NEW t \in todo[h]
  PROVE  /\ t \in Harts /\ todo[h] = {t}
         /\ op[t] # "kmain" /\ want[t] = NoAddr
         /\ sbi_hsm_states[t] \in {"STOPPED", "SUSPENDED"}
<1>1. t \in Harts /\ todo[h] = {t} /\ op[h] = "start"
  BY SMT DEF BoxInv, TypeOK, StartInv, HsmParts, Places, StartTarget, OneTarget
<1>2. sbi_hsm_states[t] \in {"STOPPED", "SUSPENDED"}
  BY SMT DEF StartInv, HsmParts, StatesTrue
<1>3. op[t] # "kmain"
  BY <1>1, SMT DEF StartInv, HsmParts, Boot, QueHeld
<1>4. want[t] = NoAddr
  BY <1>1, <1>2, <1>3, SMT DEF StartInv, HsmParts, StatesTrue
<1>. QED
  BY <1>1, <1>2, <1>3, <1>4

\* An order that is accepted is new: it has one sender and lies in no mailbox.
LEMMA HsSetOrders ==
  ASSUME BoxInv, StartInv, NEW h \in Harts, HsSet(h)
  PROVE  StartUnique'
<1>1. PICK t \in todo[h] :
        /\ sbi_hsm_states' = [sbi_hsm_states EXCEPT ![t] = "START_PENDING"]
        /\ want' = [want EXCEPT ![t] = out[h].param1]
  BY DEF HsSet
<1>2. /\ pc[h] = "hs_set" /\ irq[h] = "none"
      /\ t \in Harts /\ todo[h] = {t} /\ want[t] = NoAddr
  BY DownHasNoOrder DEF HsSet, Goto
<1>3. /\ out[h].param1 # NoAddr /\ out[h] # Empty
      /\ want'[t] = out[h].param1 /\ want \in [Harts -> Addrs \cup {NoAddr}]
  BY <1>1, <1>2, SMT DEF BoxInv, BoxParts, TypeOK, StartInv, HsmParts, Places,
     StartTarget, OutIsCommand, Empty, Message, NoCommand
<1>4. (\A g \in Harts : ~Sending(g, t)) /\ ~StartInBox(t)
  BY <1>2, SMT DEF StartInv, StartUnique, SentIsWanted, BoxIsWanted
<1>5. \A g, u \in Harts :
        Sending(g, u)' <=> Sending(g, u) \/ (g = h /\ u = t)
  BY <1>2, <1>3, SMT DEF HsSet, Goto, Sending, IsNext, QueHeld, BoxInv, TypeOK
<1>6. \A u \in Harts : StartInBox(u)' <=> StartInBox(u)
  BY SMT DEF HsSet, Goto, StartInBox
<1>7. \A u \in Harts : u # t => want'[u] = want[u]
  BY <1>1, <1>3
<1>8. out' = out /\ hart_commands' = hart_commands
  BY DEF HsSet
<1>. QED
  BY <1>2, <1>3, <1>4, <1>5, <1>6, <1>7, <1>8, SMT DEF StartInv, StartUnique,
     SentIsWanted, SenderUnique, SentNotInBox, BoxIsWanted, WantedExists

\* The store that raises the interrupt turns an order that is being sent into
\* one that lies in the mailbox.
LEMMA QueRingOrders ==
  ASSUME BoxInv, StartInv, NEW h \in Harts, QueRing(h)
  PROVE  StartUnique'
<1>1. PICK t \in Harts : IsNext(h, t) /\ msip' = [msip EXCEPT ![t] = 1]
  BY DEF QueRing
<1>2. /\ msip \in [Harts -> {0, 1}] /\ msip[t] = 0
      /\ irq[t] \notin {"s_post", "clear"}
  BY <1>1, SMT DEF QueRing, Goto, BoxInv, BoxParts, TypeOK, BoxExclusive,
     Writing, Reading, StartStages
<1>3. /\ hart_commands[t].command = out[h].command
      /\ hart_commands[t].param1 = out[h].param1
  BY <1>1, SMT DEF QueRing, Goto, BoxInv, BoxParts, BoxWritten
<1>4. Sending(h, t) <=> out[h].command = "STARTHART"
  BY <1>1, SMT DEF QueRing, Goto, Sending, QueHeld
<1>5. \A u \in Harts : Sending(h, u) => u = t
  BY <1>1, NextIsUnique DEF QueRing, Goto, Sending
<1>6. \A g, u \in Harts : Sending(g, u)' <=> Sending(g, u) /\ g # h
  BY SMT DEF QueRing, Goto, Sending, IsNext, QueHeld, BoxInv, TypeOK
<1>7. \A u \in Harts :
        StartInBox(u)' <=> StartInBox(u) \/ (u = t /\ Sending(h, t))
  BY <1>1, <1>2, <1>3, <1>4, SMT DEF QueRing, StartInBox
<1>8. want' = want /\ out' = out /\ hart_commands' = hart_commands
  BY DEF QueRing
<1>. QED
  BY <1>1, <1>3, <1>5, <1>6, <1>7, <1>8, SMT DEF StartInv, StartUnique,
     SentIsWanted, SenderUnique, SentNotInBox, BoxIsWanted, WantedExists

\* The order that is carried out was the only one.
LEMMA StartSetOrders ==
  ASSUME BoxInv, StartInv, NEW h \in Harts, StartSet(h)
  PROVE  StartUnique'
<1>1. StartInBox(h) /\ want \in [Harts -> Addrs \cup {NoAddr}]
  BY SMT DEF StartSet, IrqGoto, StartInBox, BoxInv, BoxParts, TypeOK,
     BoxExclusive, BoxServed, Reading, StartStages
<1>2. \A g, u \in Harts : Sending(g, u)' <=> Sending(g, u)
  BY DEF StartSet, Sending, IsNext
<1>3. \A u \in Harts : StartInBox(u)' <=> StartInBox(u) /\ u # h
  BY SMT DEF StartSet, IrqGoto, StartInBox, BoxInv, TypeOK
<1>4. want' = [want EXCEPT ![h] = NoAddr]
  BY DEF StartSet
<1>5. out' = out /\ hart_commands' = hart_commands
  BY DEF StartSet
<1>. QED
  BY <1>1, <1>2, <1>3, <1>4, <1>5, SMT DEF StartInv, StartUnique,
     SentIsWanted, SenderUnique, SentNotInBox, BoxIsWanted, WantedExists

\* Every step of a call or of an interrupt keeps the orders unique.
LEMMA StepOrders ==
  ASSUME BoxInv, StartInv, NEW h \in Harts,
         Serving(h) \/ Interrupt(h) \/ ClearSsip(h)
  PROVE  StartUnique'
<1> USE DEF BoxInv, BoxParts, TypeOK, BoxExclusive, BoxServed, OutIsCommand,
        StartInv, HsmParts, Places, NoTargets, StartTarget, SendTargets,
        DownCalls, Boot, StatesTrue, StartUnique, SentIsWanted, BoxIsWanted,
        OrdersKept, Sending, StartInBox, Starting, OneTarget, IsNext,
        QueHeld, Masked, StartStages, Active, Parked, Writing, Reading,
        Message, Empty, NoCommand
<1>1. ASSUME PrintWait(h) PROVE OrdersKept
  BY <1>1, SMT DEF PrintWait, Goto
<1>2. ASSUME PrintPost(h) PROVE OrdersKept
  BY <1>2, SMT DEF PrintPost, Goto
<1>3. ASSUME HsLock(h) PROVE OrdersKept
  BY <1>3, SMT DEF HsLock, Goto, ksem_wait
<1>4. ASSUME HsCheck(h) PROVE OrdersKept
  BY <1>4, SMT DEF HsCheck, Goto
<1>5. ASSUME HsSet(h) PROVE StartUnique'
  BY <1>5, HsSetOrders
<1>6. ASSUME HsPost(h) PROVE OrdersKept
  BY <1>6, HartsAreNumbers, SMT DEF HsPost, Goto, ksem_post
<1>7. ASSUME DownLock(h) PROVE OrdersKept
  BY <1>7, SMT DEF DownLock, Goto, ksem_wait
<1>8. ASSUME DownSet(h) PROVE OrdersKept
  BY <1>8, SMT DEF DownSet, Goto
<1>9. ASSUME DownPost(h) PROVE OrdersKept
  BY <1>9, SMT DEF DownPost, Goto, ksem_post
<1>10. ASSUME SwitchToZero(h) PROVE OrdersKept
  BY <1>10, SMT DEF SwitchToZero, Goto, Locals
<1>11. ASSUME FetchFault(h) PROVE OrdersKept
  BY <1>11, SMT DEF FetchFault, Goto
<1>12. ASSUME FaultPrint(h) PROVE OrdersKept
  BY <1>12, SMT DEF FaultPrint, Goto
<1>13. ASSUME FaultHalt(h) PROVE OrdersKept
  BY <1>13, SMT DEF FaultHalt, Goto
<1>14. ASSUME LoopEnd(h) PROVE OrdersKept
  BY <1>14, SMT DEF LoopEnd, Goto
<1>15. ASSUME LoopSelf(h) PROVE OrdersKept
  BY <1>15, SMT DEF LoopSelf, Goto
<1>16. ASSUME LoopOther(h) PROVE OrdersKept
  BY <1>16, SMT DEF LoopOther, Goto
<1>17. ASSUME QueLock(h) PROVE OrdersKept
  BY <1>17, SMT DEF QueLock, Goto, ksem_wait
<1>18. ASSUME QueWait(h) PROVE OrdersKept
  BY <1>18, SMT DEF QueWait, Goto
<1>19. ASSUME QueCommand(h) PROVE OrdersKept
  BY <1>19, SMT DEF QueCommand, Goto
<1>20. ASSUME QueParams(h) PROVE OrdersKept
  BY <1>20, SMT DEF QueParams, Goto
<1>21. ASSUME QueRing(h) PROVE StartUnique'
  BY <1>21, QueRingOrders
<1>22. ASSUME QuePost(h) PROVE OrdersKept
  BY <1>22, SMT DEF QuePost, Goto, ksem_post
<1>23. ASSUME Sret(h) PROVE OrdersKept
  BY <1>23, SMT DEF Sret, Goto, Locals
<1>24. ASSUME TakeIrq(h) PROVE OrdersKept
  BY <1>24, SMT DEF TakeIrq, IrqGoto
<1>25. ASSUME IrqRead(h) PROVE OrdersKept
  BY <1>25, SMT DEF IrqRead, IrqGoto
<1>26. ASSUME StartPrint(h) PROVE OrdersKept
  BY <1>26, SMT DEF StartPrint, IrqGoto
<1>27. ASSUME StartPrintPost(h) PROVE OrdersKept
  BY <1>27, SMT DEF StartPrintPost, IrqGoto
<1>28. ASSUME StartContext(h) PROVE OrdersKept
  BY <1>28, SMT DEF StartContext, IrqGoto
<1>29. ASSUME StartLock(h) PROVE OrdersKept
  BY <1>29, SMT DEF StartLock, IrqGoto, ksem_wait
<1>30. ASSUME StartSet(h) PROVE StartUnique'
  BY <1>30, StartSetOrders
<1>31. ASSUME StartPost(h) PROVE OrdersKept
  BY <1>31, SMT DEF StartPost, IrqGoto, ksem_post
<1>32. ASSUME IrqClear(h) PROVE OrdersKept
  BY <1>32, SMT DEF IrqClear, IrqGoto
<1>33. ASSUME IrqAck(h) PROVE OrdersKept
  BY <1>33, SMT DEF IrqAck, IrqGoto
<1>34. ASSUME IrqSsip(h) PROVE OrdersKept
  BY <1>34, SMT DEF IrqSsip, IrqGoto
<1>35. ASSUME Enter(h) PROVE OrdersKept
  BY <1>35, SMT DEF Enter, IrqGoto, Locals
<1>36. ASSUME ClearSsip(h) PROVE OrdersKept
  BY <1>36, SMT DEF ClearSsip, Goto
<1>. QED
  BY <1>1, <1>2, <1>3, <1>4, <1>5, <1>6, <1>7, <1>8, <1>9, <1>10, <1>11,
     <1>12, <1>13, <1>14, <1>15, <1>16, <1>17, <1>18, <1>19, <1>20, <1>21,
     <1>22, <1>23, <1>24, <1>25, <1>26, <1>27, <1>28, <1>29, <1>30, <1>31,
     <1>32, <1>33, <1>34, <1>35, <1>36, KeptOrdersUnique
     DEF Serving, Interrupt

-----------------------------------------------------------------------------
(***************************************************************************)
(* The locks and the table of the hart states                              *)
(***************************************************************************)

\* Every step of a call or of an interrupt keeps the locks with their holders
\* and the table true.
LEMMA StepHsmParts ==
  ASSUME BoxInv, StartInv, NEW h \in Harts,
         Serving(h) \/ Interrupt(h) \/ ClearSsip(h)
  PROVE  HsmParts'
<1> USE DEF BoxInv, BoxParts, TypeOK, BoxExclusive, BoxServed, OutIsCommand,
        StartInv, HsmParts, Places, NoTargets, StartTarget, SendTargets,
        DownCalls, Boot, HsmLocked, PrintLocked, StatesTrue, StartUnique,
        SentIsWanted, BoxIsWanted, HoldsHsm, HoldsPrint, Sending, StartInBox,
        Starting, OneTarget, IsNext, QueHeld, Masked, StartStages, Active,
        Parked, Writing, Reading, Message, Empty, NoCommand
<1>1. ASSUME PrintWait(h) PROVE HsmParts'
  BY <1>1, HartsAreNumbers, SMT DEF PrintWait, Goto
<1>2. ASSUME PrintPost(h) PROVE HsmParts'
  BY <1>2, HartsAreNumbers, SMT DEF PrintPost, Goto
<1>3. ASSUME HsLock(h) PROVE HsmParts'
  BY <1>3, HartsAreNumbers, SMT DEF HsLock, Goto, ksem_wait
<1>4. ASSUME HsCheck(h) PROVE HsmParts'
  <2>1. PICK t \in todo[h] :
          LET refused == sbi_hsm_states[t] \in {"STARTED", "START_PENDING"} IN
            /\ Goto(h, "hs_check", IF refused THEN "print" ELSE "hs_set")
            /\ out' = [out EXCEPT ![h] = IF refused THEN Empty ELSE @]
            /\ UNCHANGED <<locks, box, op, todo, intr, smode, hsm>>
    BY <1>4 DEF HsCheck
  <2>2. t \in Harts /\ todo[h] = {t}
    BY <2>1, SMT DEF Goto
  <2>3. (Places /\ Boot /\ HsmLocked /\ PrintLocked)'
    BY <2>1, <2>2, SMT DEF Goto
  <2>4. StatesTrue'
    BY <2>1, <2>2, SMT DEF Goto, HsmStates
  <2>. QED
    BY <2>3, <2>4
<1>5. ASSUME HsSet(h) PROVE HsmParts'
  <2>1. PICK t \in todo[h] :
          /\ sbi_hsm_states' = [sbi_hsm_states EXCEPT ![t] = "START_PENDING"]
          /\ want' = [want EXCEPT ![t] = out[h].param1]
    BY <1>5 DEF HsSet
  <2>2. /\ t \in Harts /\ todo[h] = {t} /\ op[t] # "kmain" /\ want[t] = NoAddr
        /\ sbi_hsm_states[t] \in {"STOPPED", "SUSPENDED"}
    BY <1>5, DownHasNoOrder DEF HsSet, Goto
  <2>3. (Places /\ Boot /\ HsmLocked /\ PrintLocked)'
    BY <1>5, <2>1, <2>2, SMT DEF HsSet, Goto
  <2>4. StatesTrue'
    BY <1>5, <2>1, <2>2, SMT DEF HsSet, Goto
  <2>. QED
    BY <2>3, <2>4
<1>6. ASSUME HsPost(h) PROVE HsmParts'
  BY <1>6, HartsAreNumbers, SMT DEF HsPost, Goto, ksem_post
<1>7. ASSUME DownLock(h) PROVE HsmParts'
  BY <1>7, HartsAreNumbers, SMT DEF DownLock, Goto, ksem_wait
<1>8. ASSUME DownSet(h) PROVE HsmParts'
  BY <1>8, HartsAreNumbers, SMT DEF DownSet, Goto
<1>9. ASSUME DownPost(h) PROVE HsmParts'
  BY <1>9, HartsAreNumbers, SMT DEF DownPost, Goto, ksem_post
<1>10. ASSUME SwitchToZero(h) PROVE HsmParts'
  BY <1>10, HartsAreNumbers, SMT DEF SwitchToZero, Goto, Locals
<1>11. ASSUME FetchFault(h) PROVE HsmParts'
  BY <1>11, HartsAreNumbers, SMT DEF FetchFault, Goto
<1>12. ASSUME FaultPrint(h) PROVE HsmParts'
  BY <1>12, HartsAreNumbers, SMT DEF FaultPrint, Goto
<1>13. ASSUME FaultHalt(h) PROVE HsmParts'
  BY <1>13, HartsAreNumbers, SMT DEF FaultHalt, Goto
<1>14. ASSUME LoopEnd(h) PROVE HsmParts'
  BY <1>14, HartsAreNumbers, SMT DEF LoopEnd, Goto
<1>15. ASSUME LoopSelf(h) PROVE HsmParts'
  BY <1>15, HartsAreNumbers, SMT DEF LoopSelf, Goto
<1>16. ASSUME LoopOther(h) PROVE HsmParts'
  BY <1>16, HartsAreNumbers, SMT DEF LoopOther, Goto
<1>17. ASSUME QueLock(h) PROVE HsmParts'
  BY <1>17, HartsAreNumbers, SMT DEF QueLock, Goto, ksem_wait
<1>18. ASSUME QueWait(h) PROVE HsmParts'
  BY <1>18, HartsAreNumbers, SMT DEF QueWait, Goto
<1>19. ASSUME QueCommand(h) PROVE HsmParts'
  BY <1>19, HartsAreNumbers, SMT DEF QueCommand, Goto
<1>20. ASSUME QueParams(h) PROVE HsmParts'
  BY <1>20, HartsAreNumbers, SMT DEF QueParams, Goto
<1>21. ASSUME QueRing(h) PROVE HsmParts'
  BY <1>21, HartsAreNumbers, SMT DEF QueRing, Goto
<1>22. ASSUME QuePost(h) PROVE HsmParts'
  BY <1>22, HartsAreNumbers, SMT DEF QuePost, Goto, ksem_post
<1>23. ASSUME Sret(h) PROVE HsmParts'
  BY <1>23, HartsAreNumbers, SMT DEF Sret, Goto, Locals
<1>24. ASSUME TakeIrq(h) PROVE HsmParts'
  BY <1>24, HartsAreNumbers, SMT DEF TakeIrq, IrqGoto
<1>25. ASSUME IrqRead(h) PROVE HsmParts'
  <2>1. (Places /\ Boot /\ HsmLocked /\ PrintLocked)'
    BY <1>25, SMT DEF IrqRead, IrqGoto
  <2>2. CASE hart_commands[h].command = "STARTHART"
    <3>1. want[h] # NoAddr /\ ~Sending(h, h)
      BY <1>25, <2>2, SMT DEF IrqRead, IrqGoto, SentNotInBox
    <3>2. \/ pc[h] \in {"idle", "switch", "zero"}
          \/ op[h] = "kmain" /\ pc[h] = "que_post"
      <4>1. CASE op[h] = "kmain"
        BY <1>25, <3>1, <4>1, HartsAreNumbers, SMT DEF IrqRead, IrqGoto
      <4>2. CASE op[h] # "kmain"
        <5>1. sbi_hsm_states[h] = "START_PENDING"
          BY <3>1, <4>2, SMT
        <5>2. pc[h] \notin Active \cup {"down_post"}
          <6> HIDE DEF Active
          <6>. QED
            BY <4>2, <5>1
        <5>3. pc[h] \notin Masked
          BY <1>25 DEF IrqRead, IrqGoto
        <5>. QED
          BY <5>2, <5>3, SMT DEF Locations
      <4>. QED
        BY <4>1, <4>2
    <3>. QED
      BY <1>25, <2>1, <2>2, <3>1, <3>2, SMT DEF IrqRead, IrqGoto
  <2>3. CASE hart_commands[h].command # "STARTHART"
    BY <1>25, <2>1, <2>3, SMT DEF IrqRead, IrqGoto
  <2>. QED
    BY <2>2, <2>3
<1>26. ASSUME StartPrint(h) PROVE HsmParts'
  BY <1>26, HartsAreNumbers, SMT DEF StartPrint, IrqGoto
<1>27. ASSUME StartPrintPost(h) PROVE HsmParts'
  BY <1>27, HartsAreNumbers, SMT DEF StartPrintPost, IrqGoto
<1>28. ASSUME StartContext(h) PROVE HsmParts'
  BY <1>28, HartsAreNumbers, SMT DEF StartContext, IrqGoto
<1>29. ASSUME StartLock(h) PROVE HsmParts'
  BY <1>29, HartsAreNumbers, SMT DEF StartLock, IrqGoto, ksem_wait
<1>30. ASSUME StartSet(h) PROVE HsmParts'
  BY <1>30, HartsAreNumbers, SMT DEF StartSet, IrqGoto
<1>31. ASSUME StartPost(h) PROVE HsmParts'
  <2>1. (Places /\ Boot /\ PrintLocked /\ StatesTrue)'
    BY <1>31, SMT DEF StartPost, IrqGoto
  <2>2. \A g, t \in Harts :
          HoldsHsm(g, t)' <=> HoldsHsm(g, t) /\ ~(g = h /\ t = h)
    BY <1>31, SMT DEF StartPost, IrqGoto
  <2>3. HsmLocked'
    <3>1. HoldsHsm(h, h)
      BY <1>31 DEF StartPost, IrqGoto
    <3> HIDE DEF HoldsHsm
    <3>. QED
      BY <1>31, <2>2, <3>1, SMT DEF StartPost, ksem_post
  <2>. QED
    BY <2>1, <2>3
<1>32. ASSUME IrqClear(h) PROVE HsmParts'
  BY <1>32, HartsAreNumbers, SMT DEF IrqClear, IrqGoto
<1>33. ASSUME IrqAck(h) PROVE HsmParts'
  BY <1>33, HartsAreNumbers, SMT DEF IrqAck, IrqGoto
<1>34. ASSUME IrqSsip(h) PROVE HsmParts'
  BY <1>34, HartsAreNumbers, SMT DEF IrqSsip, IrqGoto
<1>35. ASSUME Enter(h) PROVE HsmParts'
  BY <1>35, HartsAreNumbers, SMT DEF Enter, IrqGoto, Locals
<1>36. ASSUME ClearSsip(h) PROVE HsmParts'
  BY <1>36, HartsAreNumbers, SMT DEF ClearSsip, Goto
<1>. QED
  BY <1>1, <1>2, <1>3, <1>4, <1>5, <1>6, <1>7, <1>8, <1>9, <1>10, <1>11,
     <1>12, <1>13, <1>14, <1>15, <1>16, <1>17, <1>18, <1>19, <1>20, <1>21,
     <1>22, <1>23, <1>24, <1>25, <1>26, <1>27, <1>28, <1>29, <1>30, <1>31,
     <1>32, <1>33, <1>34, <1>35, <1>36
     DEF Serving, Interrupt

\* A call that is entered touches no order, no lock and no state.
LEMMA ServeStartInv ==
  ASSUME BoxInv, StartInv, NEW h \in Harts, NEW call \in AllCalls,
         NEW to \in {"print", "loop", "hs_lock"}, NEW targets \in SUBSET Harts,
         NEW command \in Hart_Command, Serve(h, call, to, targets, command),
         to = "print" => targets = {} /\ command = Empty,
         to = "loop" =>
           call \in {"ipi", "fence"} /\ command.command # "STARTHART",
         to = "hs_lock" =>
           /\ call = "start" /\ command.param1 # NoAddr
           /\ targets # {} /\ h \notin targets
           /\ \A t, u \in targets : t = u
  PROVE  StartInv'
<1>1. pc[h] = "smode" /\ irq[h] = "none" /\ op[h] # "kmain"
  BY SMT DEF Serve, Goto, StartInv, HsmParts, Boot, QueHeld
<1>2. HsmParts'
  BY <1>1, SMT DEF BoxInv, TypeOK, AllCalls, Serve, Goto, StartInv, HsmParts,
     Places, NoTargets, StartTarget, SendTargets, DownCalls, Boot, HsmLocked,
     PrintLocked, StatesTrue, HoldsHsm, HoldsPrint, Starting, OneTarget,
     IsNext, QueHeld, Masked, StartStages, Active, Parked, Message, Empty,
     NoCommand
<1>3. OrdersKept
  BY <1>1, SMT DEF BoxInv, TypeOK, Serve, Goto, OrdersKept, Sending,
     StartInBox, IsNext, QueHeld
<1>. QED
  BY <1>2, <1>3, KeptOrdersUnique DEF StartInv

\* Every environment call keeps the invariant.
LEMMA EcallStartInv ==
  ASSUME BoxInv, StartInv, NEW h \in Harts, Ecall(h)
  PROVE  StartInv'
<1>1. ASSUME NEW call \in AllCalls, Serve(h, call, "print", {}, Empty)
      PROVE  StartInv'
  BY <1>1, MessageType, ServeStartInv
<1>2. ASSUME NEW call \in {"ipi", "fence"}, NEW command \in Commands,
             command # "STARTHART", Message(command, NoAddr) \in Hart_Command,
             ToHarts(h, call, command)
      PROVE  StartInv'
  <2>1. PICK targets \in SUBSET HartIdArgs :
          IF \A t \in targets : is_valid_hartid(t)
            THEN Serve(h, call, "loop", targets, Message(command, NoAddr))
            ELSE Serve(h, call, "print", {}, Empty)
    BY <1>2 DEF ToHarts
  <2>2. CASE \A t \in targets : is_valid_hartid(t)
    <3>1. /\ targets \in SUBSET Harts /\ call \in AllCalls
          /\ Message(command, NoAddr).command # "STARTHART"
      BY <1>2, <2>2, ValidIdsAreHarts DEF Message, AllCalls
    <3>. QED
      BY <1>2, <2>1, <2>2, <3>1, ServeStartInv
  <2>3. CASE ~\A t \in targets : is_valid_hartid(t)
    BY <1>1, <2>1, <2>3 DEF AllCalls
  <2>. QED
    BY <2>2, <2>3
<1>3. CASE Query(h)
  BY <1>1, <1>3 DEF Query, AllCalls
<1>4. CASE SendIpi(h)
  BY <1>2, <1>4, MessageType DEF SendIpi, Commands
<1>5. CASE RemoteFence(h)
  <2>1. \A c \in FenceCommands : c # "STARTHART"
    BY HartsAssumption DEF AllFences
  <2>. QED
    BY <1>2, <1>5, <2>1, MessageType DEF RemoteFence, Commands
<1>6. CASE HartStart(h)
  <2>1. PICK t \in HartIdArgs, addr \in StartAddrs \cup {NoAddr} :
          IF is_valid_hartid(t) /\ addr # NoAddr /\ t # h
            THEN Serve(h, "start", "hs_lock", {t}, Message("STARTHART", addr))
            ELSE Serve(h, "start", "print", {}, Empty)
    BY <1>6 DEF HartStart
  <2>2. CASE is_valid_hartid(t) /\ addr # NoAddr /\ t # h
    <3>1. /\ {t} \in SUBSET Harts /\ {t} # {} /\ h \notin {t}
          /\ \A u, v \in {t} : u = v
      BY <2>2, ValidIdsAreHarts
    <3>2. /\ Message("STARTHART", addr) \in Hart_Command
          /\ Message("STARTHART", addr).param1 # NoAddr
      BY <2>2, MessageType DEF Message
    <3>. QED
      BY <2>1, <2>2, <3>1, <3>2, ServeStartInv DEF AllCalls
  <2>3. CASE ~(is_valid_hartid(t) /\ addr # NoAddr /\ t # h)
    BY <1>1, <2>1, <2>3 DEF AllCalls
  <2>. QED
    BY <2>2, <2>3
<1>7. CASE HartDown(h)
  BY <1>1, <1>7 DEF HartDown, AllCalls
<1>. QED
  BY <1>3, <1>4, <1>5, <1>6, <1>7 DEF Ecall

\* Initially kmain holds the one order, and every hart is stopped.
LEMMA InitStartInv == Init => StartInv
<1> SUFFICES ASSUME Init PROVE StartInv
  OBVIOUS
<1>1. BootHart \in Harts /\ KernelAddr # NoAddr /\ "STARTHART" # NoCommand
  BY HartsAssumption, SMT DEF Harts, BootHart, NoCommand
<1>2. \A g, t \in Harts : Sending(g, t) <=> g = BootHart /\ t = BootHart
  BY <1>1, HartsAreNumbers, SMT DEF Init, Sending, IsNext, QueHeld, Message
<1>3. \A t \in Harts : ~StartInBox(t)
  BY SMT DEF Init, StartInBox
<1>4. StartUnique
  BY <1>1, <1>2, <1>3, SMT DEF Init, StartUnique, SentIsWanted, SenderUnique,
     SentNotInBox, BoxIsWanted, WantedExists, Message
<1>5. HsmParts
  BY <1>1, SMT DEF Init, HsmParts, Places, NoTargets, StartTarget,
     SendTargets, DownCalls, Boot, HsmLocked, PrintLocked, StatesTrue,
     HoldsHsm, HoldsPrint, Starting, OneTarget, QueHeld, Masked, StartStages,
     Active, Parked, Message
<1>. QED
  BY <1>4, <1>5 DEF StartInv

\* Every step keeps the invariant.
LEMMA NextStartInv == BoxInv /\ StartInv /\ [Next]_vars => StartInv'
<1> SUFFICES ASSUME BoxInv, StartInv, [Next]_vars PROVE StartInv'
  OBVIOUS
<1>1. CASE UNCHANGED vars
  BY <1>1 DEF vars, StartInv, HsmParts, Places, NoTargets, StartTarget,
     SendTargets, DownCalls, Boot, HsmLocked, PrintLocked, StatesTrue,
     StartUnique, SentIsWanted, SenderUnique, SentNotInBox, BoxIsWanted,
     WantedExists, HoldsHsm, HoldsPrint, Sending, StartInBox, Starting,
     OneTarget, IsNext
<1>2. CASE Next
  BY <1>2, EcallStartInv, StepOrders, StepHsmParts DEF Next, Step, StartInv
<1>. QED
  BY <1>1, <1>2

\* The two invariants hold in every state.
THEOREM StartInvariant == Spec => [](BoxInv /\ StartInv)
<1>1. Init => BoxInv /\ StartInv
  BY InitTypeOK, InitBoxParts, InitStartInv DEF BoxInv
<1>2. BoxInv /\ StartInv /\ [Next]_vars => (BoxInv /\ StartInv)'
  BY NextBoxInv, NextStartInv
<1>. QED
  BY <1>1, <1>2, PTL DEF Spec

-----------------------------------------------------------------------------
(***************************************************************************)
(* What follows for S-mode and for the locks                               *)
(***************************************************************************)

\* For any number of harts that start, stop and interrupt each other, S-mode
\* executes on a hart only while the table says STARTED.
THEOREM RunningHartsAreStarted == Spec => []RunsOnlyWhenStarted
<1>1. StartInv => RunsOnlyWhenStarted
  BY SMT DEF StartInv, HsmParts, Boot, StatesTrue, Active, QueHeld,
     RunsOnlyWhenStarted
<1>. QED
  BY <1>1, StartInvariant, PTL

\* For any number of harts, an interrupt never waits for a lock that the code
\* it interrupted holds.
THEOREM NoHartBlocksItself == Spec => []NoSelfDeadlock
<1>1. BoxInv /\ StartInv => NoSelfDeadlock
  BY SMT DEF StartInv, HsmParts, StatesTrue, Starting, StartStages, HoldsHsm,
     NoSelfDeadlock
<1>. QED
  BY <1>1, StartInvariant, PTL

\* The orders that OneStart counts are those the invariant speaks of.
LEMMA StartOrdersAreSent ==
  ASSUME BoxInv, StartInv, NEW t \in Harts
  PROVE  StartOrders(t) = {h \in Harts : Sending(h, t)}
<1>1. \A h \in Harts :
        pc[h] = "hs_post" =>
          op[h] = "start" /\ (out[h] # Empty <=> out[h].command = "STARTHART")
  BY SMT DEF BoxInv, BoxParts, OutIsCommand, StartInv, HsmParts, Places,
     StartTarget, Empty, Message, NoCommand
<1>2. \A h \in Harts :
        pc[h] \in {"que_lock"} \cup (QueHeld \ {"que_post"})
          /\ out[h].command = "STARTHART" =>
          op[h] \in {"start", "kmain"} /\ (IsNext(h, t) <=> t \in todo[h])
  BY HartsAreNumbers, SMT DEF StartInv, HsmParts, Places, SendTargets, Boot,
     OneTarget, IsNext, QueHeld, BoxInv, TypeOK
<1>. QED
  BY <1>1, <1>2 DEF StartOrders, Sending, QueHeld

\* For any number of harts at most one start is under way for a hart, with the
\* address that was accepted for it.
THEOREM OneStartPerHart == Spec => []OneStart
<1>1. ASSUME BoxInv, StartInv, NEW t \in Harts, want[t] = NoAddr
      PROVE  StartOrders(t) = {} /\ ~StartInBox(t)
  BY <1>1, StartOrdersAreSent DEF StartInv, StartUnique, SentIsWanted,
     BoxIsWanted
<1>2. ASSUME BoxInv, StartInv, NEW t \in Harts, StartInBox(t)
      PROVE  StartOrders(t) = {} /\ hart_commands[t].param1 = want[t]
  BY <1>2, StartOrdersAreSent DEF StartInv, StartUnique, SentNotInBox,
     BoxIsWanted
<1>3. ASSUME BoxInv, StartInv, NEW t \in Harts, want[t] # NoAddr,
             ~StartInBox(t)
      PROVE  \E h \in Harts : StartOrders(t) = {h} /\ out[h].param1 = want[t]
  <2>1. PICK h \in Harts : Sending(h, t)
    BY <1>3 DEF StartInv, StartUnique, WantedExists
  <2>2. {g \in Harts : Sending(g, t)} = {h}
    BY <1>3, <2>1 DEF StartInv, StartUnique, SenderUnique
  <2>3. out[h].param1 = want[t]
    BY <1>3, <2>1 DEF StartInv, StartUnique, SentIsWanted
  <2>. QED
    BY <1>3, <2>2, <2>3, StartOrdersAreSent
<1>4. BoxInv /\ StartInv => OneStart
  BY <1>1, <1>2, <1>3 DEF OneStart
<1>. QED
  BY <1>4, StartInvariant, PTL

-----------------------------------------------------------------------------
(***************************************************************************)
(* No lock is lost                                                         *)
(***************************************************************************)

\* The part of NoLockLost that StartInv lacks: a lock that is taken has a
\* holder.
LocksHeld ==
  /\ \A t \in Harts \ {BootHart} :
       hart_command_que_locks[t] = 1 => \E h \in Harts : InQue(h, t)
  /\ \A t \in Harts :
       sbi_hsm_locks[t] = 1 => \E h \in Harts : HoldsHsm(h, t)
  /\ printm_lock = 1 => \E h \in Harts : HoldsPrint(h)

\* In a step of h, a lock stays with its holder, or h takes it.
LocksKept(h) ==
  /\ \A t \in Harts \ {BootHart} :
       hart_command_que_locks'[t] = 1 =>
         \/ InQue(h, t)'
         \/ /\ hart_command_que_locks[t] = 1
            /\ \A g \in Harts : InQue(g, t) => InQue(g, t)'
  /\ \A t \in Harts :
       sbi_hsm_locks'[t] = 1 =>
         \/ HoldsHsm(h, t)'
         \/ /\ sbi_hsm_locks[t] = 1
            /\ \A g \in Harts : HoldsHsm(g, t) => HoldsHsm(g, t)'
  /\ printm_lock' = 1 =>
       \/ HoldsPrint(h)'
       \/ printm_lock = 1 /\ \A g \in Harts : HoldsPrint(g) => HoldsPrint(g)'

\* Such a step leaves no lock without a holder.
LEMMA KeptLocksHeld ==
  ASSUME LocksHeld, NEW h \in Harts, LocksKept(h)
  PROVE  LocksHeld'
<1>1. \A t \in Harts \ {BootHart} :
        hart_command_que_locks'[t] = 1 => \E g \in Harts : InQue(g, t)'
  BY DEF LocksHeld, LocksKept
<1>2. \A t \in Harts :
        sbi_hsm_locks'[t] = 1 => \E g \in Harts : HoldsHsm(g, t)'
  BY DEF LocksHeld, LocksKept
<1>3. printm_lock' = 1 => \E g \in Harts : HoldsPrint(g)'
  BY DEF LocksHeld, LocksKept
<1>. QED
  BY <1>1, <1>2, <1>3 DEF LocksHeld

\* Every step of a call or of an interrupt keeps the locks with their holders.
LEMMA StepLocksKept ==
  ASSUME BoxInv, StartInv, NEW h \in Harts,
         Serving(h) \/ Interrupt(h) \/ ClearSsip(h)
  PROVE  LocksKept(h)
<1> USE DEF BoxInv, TypeOK, StartInv, HsmParts, Places, NoTargets,
        StartTarget, DownCalls, Boot, HsmLocked, PrintLocked, StatesTrue,
        HoldsHsm, HoldsPrint, InQue, Starting, OneTarget, IsNext, QueHeld,
        Masked, StartStages, Parked, LocksKept
<1>1. ASSUME PrintWait(h) PROVE LocksKept(h)
  BY <1>1, HartsAreNumbers, SMT DEF PrintWait, Goto
<1>2. ASSUME PrintPost(h) PROVE LocksKept(h)
  BY <1>2, HartsAreNumbers, SMT DEF PrintPost, Goto
<1>3. ASSUME HsLock(h) PROVE LocksKept(h)
  BY <1>3, HartsAreNumbers, SMT DEF HsLock, Goto, ksem_wait
<1>4. ASSUME HsCheck(h) PROVE LocksKept(h)
  BY <1>4, HartsAreNumbers, SMT DEF HsCheck, Goto
<1>5. ASSUME HsSet(h) PROVE LocksKept(h)
  BY <1>5, HartsAreNumbers, SMT DEF HsSet, Goto
<1>6. ASSUME HsPost(h) PROVE LocksKept(h)
  BY <1>6, HartsAreNumbers, SMT DEF HsPost, Goto, ksem_post
<1>7. ASSUME DownLock(h) PROVE LocksKept(h)
  BY <1>7, HartsAreNumbers, SMT DEF DownLock, Goto, ksem_wait
<1>8. ASSUME DownSet(h) PROVE LocksKept(h)
  BY <1>8, HartsAreNumbers, SMT DEF DownSet, Goto
<1>9. ASSUME DownPost(h) PROVE LocksKept(h)
  BY <1>9, HartsAreNumbers, SMT DEF DownPost, Goto, ksem_post
<1>10. ASSUME SwitchToZero(h) PROVE LocksKept(h)
  BY <1>10, HartsAreNumbers, SMT DEF SwitchToZero, Goto, Locals
<1>11. ASSUME FetchFault(h) PROVE LocksKept(h)
  BY <1>11, HartsAreNumbers, SMT DEF FetchFault, Goto
<1>12. ASSUME FaultPrint(h) PROVE LocksKept(h)
  BY <1>12, HartsAreNumbers, SMT DEF FaultPrint, Goto
<1>13. ASSUME FaultHalt(h) PROVE LocksKept(h)
  BY <1>13, HartsAreNumbers, SMT DEF FaultHalt, Goto
<1>14. ASSUME LoopEnd(h) PROVE LocksKept(h)
  BY <1>14, HartsAreNumbers, SMT DEF LoopEnd, Goto
<1>15. ASSUME LoopSelf(h) PROVE LocksKept(h)
  BY <1>15, HartsAreNumbers, SMT DEF LoopSelf, Goto
<1>16. ASSUME LoopOther(h) PROVE LocksKept(h)
  BY <1>16, HartsAreNumbers, SMT DEF LoopOther, Goto
<1>17. ASSUME QueLock(h) PROVE LocksKept(h)
  BY <1>17, HartsAreNumbers, SMT DEF QueLock, Goto, ksem_wait
<1>18. ASSUME QueWait(h) PROVE LocksKept(h)
  BY <1>18, HartsAreNumbers, SMT DEF QueWait, Goto
<1>19. ASSUME QueCommand(h) PROVE LocksKept(h)
  BY <1>19, HartsAreNumbers, SMT DEF QueCommand, Goto
<1>20. ASSUME QueParams(h) PROVE LocksKept(h)
  BY <1>20, HartsAreNumbers, SMT DEF QueParams, Goto
<1>21. ASSUME QueRing(h) PROVE LocksKept(h)
  BY <1>21, HartsAreNumbers, SMT DEF QueRing, Goto
<1>22. ASSUME QuePost(h) PROVE LocksKept(h)
  <2>1. PICK t \in Harts :
          /\ IsNext(h, t)
          /\ ksem_post(hart_command_que_locks, t)
          /\ todo' = [todo EXCEPT ![h] = @ \ {t}]
    BY <1>22 DEF QuePost
  <2>2. \A g, u \in Harts : u # t /\ InQue(g, u) => InQue(g, u)'
    <3>1. \A u \in Harts : IsNext(h, u) => u = t
      BY <2>1, NextIsUnique
    <3>2. \A g, u \in Harts : g # h => (IsNext(g, u)' <=> IsNext(g, u))
      BY <2>1
    <3> HIDE DEF IsNext
    <3>. QED
      BY <1>22, <3>1, <3>2, SMT DEF QuePost, Goto
  <2> HIDE DEF InQue
  <2>. QED
    BY <1>22, <2>1, <2>2, SMT DEF QuePost, Goto, ksem_post
<1>23. ASSUME Sret(h) PROVE LocksKept(h)
  BY <1>23, HartsAreNumbers, SMT DEF Sret, Goto, Locals
<1>24. ASSUME TakeIrq(h) PROVE LocksKept(h)
  BY <1>24, HartsAreNumbers, SMT DEF TakeIrq, IrqGoto
<1>25. ASSUME IrqRead(h) PROVE LocksKept(h)
  BY <1>25, HartsAreNumbers, SMT DEF IrqRead, IrqGoto
<1>26. ASSUME StartPrint(h) PROVE LocksKept(h)
  BY <1>26, HartsAreNumbers, SMT DEF StartPrint, IrqGoto
<1>27. ASSUME StartPrintPost(h) PROVE LocksKept(h)
  BY <1>27, HartsAreNumbers, SMT DEF StartPrintPost, IrqGoto
<1>28. ASSUME StartContext(h) PROVE LocksKept(h)
  BY <1>28, HartsAreNumbers, SMT DEF StartContext, IrqGoto
<1>29. ASSUME StartLock(h) PROVE LocksKept(h)
  BY <1>29, HartsAreNumbers, SMT DEF StartLock, IrqGoto, ksem_wait
<1>30. ASSUME StartSet(h) PROVE LocksKept(h)
  BY <1>30, HartsAreNumbers, SMT DEF StartSet, IrqGoto
<1>31. ASSUME StartPost(h) PROVE LocksKept(h)
  BY <1>31, HartsAreNumbers, SMT DEF StartPost, IrqGoto, ksem_post
<1>32. ASSUME IrqClear(h) PROVE LocksKept(h)
  BY <1>32, HartsAreNumbers, SMT DEF IrqClear, IrqGoto
<1>33. ASSUME IrqAck(h) PROVE LocksKept(h)
  BY <1>33, HartsAreNumbers, SMT DEF IrqAck, IrqGoto
<1>34. ASSUME IrqSsip(h) PROVE LocksKept(h)
  BY <1>34, HartsAreNumbers, SMT DEF IrqSsip, IrqGoto
<1>35. ASSUME Enter(h) PROVE LocksKept(h)
  BY <1>35, HartsAreNumbers, SMT DEF Enter, IrqGoto, Locals
<1>36. ASSUME ClearSsip(h) PROVE LocksKept(h)
  BY <1>36, HartsAreNumbers, SMT DEF ClearSsip, Goto
<1>. QED
  BY <1>1, <1>2, <1>3, <1>4, <1>5, <1>6, <1>7, <1>8, <1>9, <1>10, <1>11,
     <1>12, <1>13, <1>14, <1>15, <1>16, <1>17, <1>18, <1>19, <1>20, <1>21,
     <1>22, <1>23, <1>24, <1>25, <1>26, <1>27, <1>28, <1>29, <1>30, <1>31,
     <1>32, <1>33, <1>34, <1>35, <1>36
     DEF Serving, Interrupt

\* Every step leaves a lock that is taken with a holder.
LEMMA NextLocksHeld ==
  BoxInv /\ StartInv /\ LocksHeld /\ [Next]_vars => LocksHeld'
<1> SUFFICES ASSUME BoxInv, StartInv, LocksHeld, [Next]_vars PROVE LocksHeld'
  OBVIOUS
<1>1. CASE UNCHANGED vars
  BY <1>1 DEF vars, LocksHeld, HoldsHsm, HoldsPrint, InQue, IsNext
<1>2. ASSUME NEW h \in Harts, Ecall(h) PROVE LocksKept(h)
  <2>1. /\ pc[h] = "smode" /\ UNCHANGED <<locks, irq>>
        /\ \A g \in Harts \ {h} :
             pc'[g] = pc[g] /\ op'[g] = op[g] /\ todo'[g] = todo[g]
    BY <1>2, SMT DEF Ecall, Query, SendIpi, RemoteFence, HartStart, HartDown,
       ToHarts, Serve, Goto, BoxInv, TypeOK
  <2>. QED
    BY <1>2, <2>1, SMT DEF LocksKept, InQue, IsNext, HoldsHsm, HoldsPrint,
       QueHeld, StartInv, HsmParts, DownCalls, Places, BoxInv, TypeOK
<1>3. CASE Next
  BY <1>2, <1>3, StepLocksKept, KeptLocksHeld DEF Next, Step
<1>. QED
  BY <1>1, <1>3

\* For any number of harts, and wherever interrupts hit: a lock that is taken
\* has a holder that is going to release it, except the mailbox lock of the
\* boot hart.
THEOREM LocksNotLost == Spec => []NoLockLost
<1>1. Init => LocksHeld
  BY HartsAssumption, SMT DEF Init, LocksHeld
<1>2. BoxInv /\ StartInv /\ LocksHeld => NoLockLost
  BY DEF LocksHeld, NoLockLost, StartInv, HsmParts, HsmLocked, PrintLocked
<1>. QED
  BY <1>1, <1>2, NextLocksHeld, StartInvariant, PTL DEF Spec

-----------------------------------------------------------------------------
(***************************************************************************)
(* HartLifecycle                                                           *)
(***************************************************************************)

\* What HartLifecycle sees of a hart.
LifeVars ==
  <<sbi_hsm_states, want,
    [h \in Harts |-> IF sbi_hsm_states[h] = "STARTED" THEN user_pc[h] ELSE NoAddr]>>

\* The firmware orders the start of the boot hart.
LEMMA InitLife == Init => Life!Init
BY DEF Init, Life!Init

\* The store START_PENDING of sbi_hart_start accepts an order.
LEMMA HsSetAccepts ==
  ASSUME BoxInv, StartInv, NEW h \in Harts, HsSet(h)
  PROVE  \E t \in Harts : Life!Accept(t)
<1>1. PICK t \in todo[h] :
        /\ sbi_hsm_states' = [sbi_hsm_states EXCEPT ![t] = "START_PENDING"]
        /\ want' = [want EXCEPT ![t] = out[h].param1]
  BY DEF HsSet
<1>2. /\ t \in Harts /\ want[t] = NoAddr
      /\ sbi_hsm_states[t] \in {"STOPPED", "SUSPENDED"}
  BY DownHasNoOrder DEF HsSet, Goto
<1>3. out[h].param1 \in Addrs
  BY SMT DEF HsSet, Goto, BoxInv, TypeOK, Hart_Command, StartInv, HsmParts, Places,
     StartTarget
<1>4. UNCHANGED [u \in Harts |->
                   IF sbi_hsm_states[u] = "STARTED" THEN user_pc[u] ELSE NoAddr]
  BY <1>1, <1>2, SMT DEF HsSet, BoxInv, TypeOK
<1> QED BY <1>1, <1>2, <1>3, <1>4 DEF Life!Accept

\* The store STOPPED or SUSPENDED takes a started hart down.
LEMMA DownSetLeaves ==
  ASSUME BoxInv, StartInv, NEW h \in Harts, DownSet(h)
  PROVE  Life!Leave(h)
<1>1. /\ pc[h] = "down_set" /\ op[h] \in {"stop", "suspend"}
      /\ sbi_hsm_states[h] = "STARTED"
  BY SMT DEF DownSet, Goto, StartInv, HsmParts, Places, DownCalls, StatesTrue, Active
<1>2. \E down \in {"STOPPED", "SUSPENDED"} :
        sbi_hsm_states' = [sbi_hsm_states EXCEPT ![h] = down]
  BY DEF DownSet
<1>3. /\ user_pc' = user_pc /\ sbi_hsm_states'[h] # "STARTED"
      /\ \A u \in Harts : u # h => sbi_hsm_states'[u] = sbi_hsm_states[u]
  BY <1>2 DEF DownSet, BoxInv, TypeOK
<1>4. [u \in Harts |->
        IF sbi_hsm_states'[u] = "STARTED" THEN user_pc'[u] ELSE NoAddr]
      = [[u \in Harts |-> IF sbi_hsm_states[u] = "STARTED" THEN user_pc[u] ELSE NoAddr]
           EXCEPT ![h] = NoAddr]
  BY <1>3
<1> QED BY <1>1, <1>2, <1>4 DEF Life!Leave, DownSet

\* The store STARTED of the STARTHART interrupt begins what was ordered, at the
\* address that was ordered.
LEMMA StartSetBegins ==
  ASSUME BoxInv, StartInv, NEW h \in Harts, StartSet(h)
  PROVE  Life!Begin(h)
<1>1. want[h] # NoAddr /\ user_pc[h] = want[h]
  BY SMT DEF StartSet, IrqGoto, StartInv, HsmParts, StatesTrue, Starting, StartStages
<1>2. /\ user_pc' = user_pc /\ sbi_hsm_states'[h] = "STARTED"
      /\ \A u \in Harts : u # h => sbi_hsm_states'[u] = sbi_hsm_states[u]
  BY DEF StartSet, BoxInv, TypeOK
<1>3. [u \in Harts |->
        IF sbi_hsm_states'[u] = "STARTED" THEN user_pc'[u] ELSE NoAddr]
      = [[u \in Harts |-> IF sbi_hsm_states[u] = "STARTED" THEN user_pc[u] ELSE NoAddr]
           EXCEPT ![h] = want[h]]
  BY <1>1, <1>2
<1> QED BY <1>1, <1>3 DEF Life!Begin, StartSet

\* The context of a hart is written while the hart is not started yet.
LEMMA StartContextUnseen ==
  ASSUME BoxInv, StartInv, NEW h \in Harts, StartContext(h)
  PROVE  UNCHANGED LifeVars
<1>1. sbi_hsm_states[h] # "STARTED"
  BY SMT DEF StartContext, IrqGoto, StartInv, HsmParts, StatesTrue, Starting, StartStages
<1> QED BY <1>1, SMT DEF StartContext, LifeVars, BoxInv, TypeOK

\* Every step of any number of harts is a step of HartLifecycle, or is not seen
\* by it.
LEMMA NextLife ==
  BoxInv /\ StartInv /\ [Next]_vars => Life!Next \/ UNCHANGED LifeVars
<1> SUFFICES ASSUME BoxInv, StartInv, [Next]_vars
             PROVE  Life!Next \/ UNCHANGED LifeVars
  OBVIOUS
<1> DEFINE Unseen == UNCHANGED <<sbi_hsm_states, want, user_pc>>
<1>1. Unseen => UNCHANGED LifeVars
  BY DEF LifeVars
<1> HIDE DEF Unseen
<1>2. CASE UNCHANGED vars
  BY <1>1, <1>2 DEF vars, Unseen
<1>3. ASSUME NEW h \in Harts, Ecall(h) PROVE Unseen
  BY <1>3 DEF Ecall, Query, SendIpi, RemoteFence, HartStart, HartDown, ToHarts,
     Serve, Unseen
<1>4. ASSUME NEW h \in Harts, Serving(h), ~HsSet(h), ~DownSet(h) PROVE Unseen
  BY <1>4 DEF Serving, PrintWait, PrintPost, HsLock, HsCheck, HsPost, DownLock,
     DownPost, SwitchToZero, FetchFault, FaultPrint, FaultHalt, LoopEnd, LoopSelf,
     LoopOther, QueLock, QueWait, QueCommand, QueParams, QueRing, QuePost, Sret,
     Unseen
<1>5. ASSUME NEW h \in Harts, Interrupt(h), ~StartContext(h), ~StartSet(h)
      PROVE  Unseen
  BY <1>5 DEF Interrupt, TakeIrq, IrqRead, StartPrint, StartPrintPost, StartLock,
     StartPost, IrqClear, IrqAck, IrqSsip, Enter, Unseen
<1>6. ASSUME NEW h \in Harts, ClearSsip(h) PROVE Unseen
  BY <1>6 DEF ClearSsip, Unseen
<1>7. ASSUME NEW h \in Harts, Step(h) PROVE Life!Next \/ UNCHANGED LifeVars
  <2>1. CASE HsSet(h)
    BY <2>1, HsSetAccepts DEF Life!Next
  <2>2. CASE DownSet(h)
    BY <2>2, DownSetLeaves DEF Life!Next
  <2>3. CASE StartSet(h)
    BY <2>3, StartSetBegins DEF Life!Next
  <2>4. CASE StartContext(h)
    BY <2>4, StartContextUnseen
  <2> QED BY <1>1, <1>3, <1>4, <1>5, <1>6, <1>7, <2>1, <2>2, <2>3, <2>4 DEF Step
<1> QED BY <1>2, <1>7 DEF Next

\* ImplementsLifecycle: whatever the harts do together, on however many of them,
\* is a life of each hart as the HSM extension promises it.
THEOREM LifecycleImplemented == Spec => ImplementsLifecycle
<1>1. BoxInv /\ StartInv /\ [Next]_vars =>
        [Life!Next]_<<sbi_hsm_states, want,
           [h \in Harts |->
              IF sbi_hsm_states[h] = "STARTED" THEN user_pc[h] ELSE NoAddr]>>
  BY NextLife DEF LifeVars
<1> QED BY <1>1, InitLife, StartInvariant, PTL DEF Spec, ImplementsLifecycle, Life!Spec

-----------------------------------------------------------------------------
(***************************************************************************)
(* Mailbox                                                                 *)
(***************************************************************************)

\* Where the base thread is on its way to the mailbox of its next target.
Sends == {"que_lock"} \cup QueHeld

\* What the invariants of Harts say nothing of: a hart commands itself in kmain
\* only, and its copy of a command is in use exactly while it serves it.
SendsToOthers ==
  \A h \in Harts :
    pc[h] \in Sends /\ op[h] # "kmain" => ~IsNext(h, h)

CopyInUse ==
  \A t \in Harts :
    IF irq[t] \in StartStages \cup {"clear", "ack"}
      THEN cmd[t].command \in Commands
      ELSE cmd[t] = Empty

RefineInv == SendsToOthers /\ CopyInUse

\* No command is the word that says that the mailbox is empty.
LEMMA CommandsAreNoZero == NoCommand \notin Commands
BY HartsAssumption DEF NoCommand, Commands, AllFences

\* Initially the boot hart, in kmain, is about to command itself.
LEMMA InitRefineInv == Init => RefineInv
BY SMT DEF Init, RefineInv, SendsToOthers, CopyInUse, Sends, QueHeld, StartStages

\* A call enters its handler; no interrupt is involved.
LEMMA EcallLocals ==
  ASSUME BoxInv, NEW h \in Harts, Ecall(h)
  PROVE  /\ pc[h] = "smode" /\ irq[h] = "none"
         /\ \E to \in {"print", "loop", "hs_lock"} : pc' = [pc EXCEPT ![h] = to]
         /\ op'[h] # "kmain"
         /\ \A g \in Harts \ {h} :
              op'[g] = op[g] /\ todo'[g] = todo[g] /\ out'[g] = out[g]
         /\ pc'[h] = "loop" =>
              todo'[h] \in SUBSET Harts /\ out'[h] \in Messages
         /\ UNCHANGED <<box, intr>>
<1>1. ASSUME NEW call \in AllCalls, NEW to \in {"print", "hs_lock"}, NEW targets,
             NEW command, Serve(h, call, to, targets, command)
      PROVE  /\ pc[h] = "smode" /\ irq[h] = "none" /\ pc' = [pc EXCEPT ![h] = to]
             /\ pc'[h] # "loop" /\ op'[h] # "kmain"
             /\ \A g \in Harts \ {h} :
                  op'[g] = op[g] /\ todo'[g] = todo[g] /\ out'[g] = out[g]
             /\ UNCHANGED <<box, intr>>
  BY <1>1, SMT DEF Serve, Goto, BoxInv, TypeOK, AllCalls
<1>2. ASSUME NEW call \in AllCalls, NEW targets \in SUBSET Harts,
             NEW command \in Messages, Serve(h, call, "loop", targets, command)
      PROVE  /\ pc[h] = "smode" /\ irq[h] = "none" /\ pc' = [pc EXCEPT ![h] = "loop"]
             /\ op'[h] # "kmain" /\ todo'[h] = targets /\ out'[h] = command
             /\ \A g \in Harts \ {h} :
                  op'[g] = op[g] /\ todo'[g] = todo[g] /\ out'[g] = out[g]
             /\ UNCHANGED <<box, intr>>
  BY <1>2, SMT DEF Serve, Goto, BoxInv, TypeOK, AllCalls
<1>3. ASSUME NEW call \in AllCalls, NEW c \in FenceCommands \cup {"SMODE_SOFTINT"},
             ToHarts(h, call, c)
      PROVE  \/ \E targets : Serve(h, call, "print", {}, Empty)
             \/ \E targets \in SUBSET Harts : Message(c, NoAddr) \in Messages /\
                  Serve(h, call, "loop", targets, Message(c, NoAddr))
  <2>1. c # "STARTHART" /\ c \in Commands
    BY HartsAssumption DEF AllFences, Commands
  <2>2. Message(c, NoAddr) \in Messages
    BY <2>1, CommandsAreNoZero DEF Message, Messages, Hart_Command, Commands
  <2> QED BY <1>3, <2>2, ValidIdsAreHarts DEF ToHarts
<1>4. CASE Query(h)
  BY <1>4, <1>1 DEF Query, AllCalls
<1>5. CASE SendIpi(h)
  BY <1>5, <1>1, <1>2, <1>3 DEF SendIpi, AllCalls
<1>6. CASE RemoteFence(h)
  <2>1. PICK c \in FenceCommands : ToHarts(h, "fence", c)
    BY <1>6 DEF RemoteFence
  <2> QED BY <2>1, <1>1, <1>2, <1>3 DEF AllCalls
<1>7. CASE HartStart(h)
  BY <1>7, <1>1 DEF HartStart, AllCalls
<1>8. CASE HartDown(h)
  BY <1>8, <1>1 DEF HartDown, AllCalls
<1> QED BY <1>4, <1>5, <1>6, <1>7, <1>8 DEF Ecall

\* Every step of a call or of an interrupt keeps the two facts.
LEMMA StepRefineInv ==
  ASSUME BoxInv, StartInv, RefineInv, NEW h \in Harts,
         Serving(h) \/ Interrupt(h) \/ ClearSsip(h)
  PROVE  RefineInv'
<1> USE DEF RefineInv, SendsToOthers, CopyInUse, Sends, QueHeld, StartStages
<1>1. ASSUME UNCHANGED <<op, todo, irq, cmd>>, NEW to \in Locations,
             pc' = [pc EXCEPT ![h] = to], to \in Sends => pc[h] \in Sends
      PROVE  RefineInv'
  BY <1>1, SMT DEF IsNext, BoxInv, TypeOK
<1>2. ASSUME UNCHANGED <<irq, cmd>>, NEW to \in Locations \ Sends,
             pc' = [pc EXCEPT ![h] = to],
             \A g \in Harts \ {h} : op'[g] = op[g] /\ todo'[g] = todo[g]
      PROVE  RefineInv'
  BY <1>2, SMT DEF IsNext, BoxInv, TypeOK
<1>3. ASSUME UNCHANGED <<pc, op, todo, cmd>>, NEW from \in IrqLocations,
             NEW to \in IrqLocations, IrqGoto(h, from, to),
             (from \in StartStages \cup {"clear", "ack"})
               <=> (to \in StartStages \cup {"clear", "ack"})
      PROVE  RefineInv'
  BY <1>3, SMT DEF IrqGoto, IsNext, BoxInv, TypeOK
<1> USE DEF Goto, Locations, IrqLocations, Masked
<1>4. CASE PrintWait(h) \/ HsLock(h) \/ HsSet(h) \/ DownLock(h) \/ DownSet(h) \/ DownPost(h)
           \/ FetchFault(h) \/ FaultPrint(h) \/ FaultHalt(h) \/ LoopEnd(h)
           \/ QueLock(h) \/ QueWait(h) \/ QueCommand(h) \/ QueParams(h) \/ QueRing(h)
  BY <1>1, <1>4 DEF PrintWait, HsLock, HsSet, DownLock, DownSet, DownPost, FetchFault,
     FaultPrint, FaultHalt, LoopEnd, QueLock, QueWait, QueCommand, QueParams, QueRing
<1>5. CASE PrintPost(h)
  BY <1>1, <1>5 DEF PrintPost
<1>6. CASE HsCheck(h)
  BY <1>1, <1>6 DEF HsCheck
<1>7. CASE HsPost(h)
  BY <1>7, SMT DEF HsPost, IsNext, BoxInv, TypeOK, StartInv, HsmParts, Places,
     StartTarget, OneTarget
<1>8. CASE SwitchToZero(h) \/ Sret(h)
  BY <1>2, <1>8 DEF SwitchToZero, Sret, Locals, BoxInv, TypeOK
<1>9. CASE LoopSelf(h)
  BY <1>2, <1>9 DEF LoopSelf, BoxInv, TypeOK
<1>10. CASE LoopOther(h)
  BY <1>10, NextIsUnique, SMT DEF LoopOther, BoxInv, TypeOK, IsNext
<1>11. CASE QuePost(h)
  BY <1>2, <1>11 DEF QuePost, BoxInv, TypeOK
<1>12. CASE ClearSsip(h)
  BY <1>2, <1>12 DEF ClearSsip
<1>13. CASE TakeIrq(h)
  BY <1>3, <1>13 DEF TakeIrq
<1>14. CASE IrqRead(h)
  BY <1>14, SMT DEF IrqRead, IrqGoto, IsNext, BoxInv, BoxParts, BoxServed, TypeOK,
     BoxExclusive, Reading, Commands
<1>15. CASE StartPrint(h) \/ StartPrintPost(h) \/ StartContext(h) \/ StartLock(h)
            \/ StartSet(h) \/ StartPost(h) \/ IrqClear(h) \/ IrqSsip(h)
  BY <1>3, <1>15 DEF StartPrint, StartPrintPost, StartContext, StartLock, StartSet,
     StartPost, IrqClear, IrqSsip
<1>16. CASE IrqAck(h)
  BY <1>16, SMT DEF IrqAck, IrqGoto, IsNext, BoxInv, TypeOK
<1>17. CASE Enter(h)
  BY <1>17, SMT DEF Enter, IrqGoto, Locals, IsNext, BoxInv, TypeOK
<1> QED BY <1>4, <1>5, <1>6, <1>7, <1>8, <1>9, <1>10, <1>11, <1>12, <1>13, <1>14,
       <1>15, <1>16, <1>17 DEF Serving, Interrupt

\* Every step keeps the two facts.
LEMMA NextRefineInv ==
  BoxInv /\ StartInv /\ RefineInv /\ [Next]_vars => RefineInv'
<1> SUFFICES ASSUME BoxInv, StartInv, RefineInv, [Next]_vars PROVE RefineInv'
  OBVIOUS
<1>1. CASE UNCHANGED vars
  BY <1>1 DEF vars, RefineInv, SendsToOthers, CopyInUse, IsNext
<1>2. ASSUME NEW h \in Harts, Ecall(h) PROVE RefineInv'
  BY <1>2, EcallLocals, SMT DEF RefineInv, SendsToOthers, CopyInUse, IsNext, Sends,
     QueHeld, BoxInv, TypeOK
<1> QED BY <1>1, <1>2, StepRefineInv DEF Next, Step

\* What Mailbox sees: the requests and the slots.
Asks == [h \in Harts |-> Unsent(h) \X {out[h]}]
Slots ==
  [h \in Harts |-> IF msip[h] = 1 /\ cmd[h] = Empty THEN hart_commands[h] ELSE cmd[h]]

\* The targets a hart still has to command, by place.
LEMMA UnsentByPlace ==
  ASSUME NEW h \in Harts
  PROVE  /\ pc[h] \in {"loop", "que_lock"} \cup (QueHeld \ {"que_post"}) =>
              Unsent(h) = IF op[h] = "kmain" THEN todo[h] ELSE todo[h] \ {h}
         /\ pc[h] = "que_post" =>
              Unsent(h) = {t \in todo[h] \ {h} : ~IsNext(h, t)}
         /\ pc[h] \notin {"loop"} \cup Sends => Unsent(h) = {}
BY DEF Unsent, Sends, QueHeld

\* The same in the next state.
LEMMA UnsentByPlaceNext ==
  ASSUME NEW h \in Harts
  PROVE  /\ pc'[h] \in {"loop", "que_lock"} \cup (QueHeld \ {"que_post"}) =>
              Unsent(h)' = IF op'[h] = "kmain" THEN todo'[h] ELSE todo'[h] \ {h}
         /\ pc'[h] = "que_post" =>
              Unsent(h)' = {t \in todo'[h] \ {h} : ~IsNext(h, t)'}
         /\ pc'[h] \notin {"loop"} \cup Sends => Unsent(h)' = {}
BY DEF Unsent, Sends, QueHeld

\* The requests of a hart whose base thread does not move do not change.
LEMMA OthersKeepAsks ==
  ASSUME NEW g \in Harts, pc'[g] = pc[g], op'[g] = op[g], todo'[g] = todo[g]
  PROVE  Unsent(g)' = Unsent(g)
BY DEF Unsent, IsNext

\* A step after which a hart has the same commands to send, or has none as
\* before.
AskKept(h) ==
  \/ Unsent(h)' = Unsent(h) /\ out'[h] = out[h]
  \/ Unsent(h)' = {} /\ Unsent(h) = {}

\* If only such a hart moves, the requests are the same.
LEMMA KeptAsks ==
  ASSUME NEW h \in Harts, AskKept(h),
         \A g \in Harts \ {h} :
           pc'[g] = pc[g] /\ op'[g] = op[g] /\ todo'[g] = todo[g] /\ out'[g] = out[g]
  PROVE  Asks' = Asks
<1>1. \A g \in Harts : (Unsent(g) \X {out[g]})' = Unsent(g) \X {out[g]}
  BY OthersKeepAsks DEF AskKept
<1> QED BY <1>1 DEF Asks

\* The base thread moves alone.
BaseMoves(h) ==
  \A g \in Harts \ {h} :
    pc'[g] = pc[g] /\ op'[g] = op[g] /\ todo'[g] = todo[g] /\ out'[g] = out[g]

\* The steps of a call that ask for nothing and send nothing.
LEMMA QuietCalls ==
  ASSUME BoxInv, StartInv, RefineInv, NEW h \in Harts, Serving(h) \/ ClearSsip(h),
         ~QueRing(h), HsPost(h) => out[h] = Empty
  PROVE  AskKept(h) /\ BaseMoves(h)
<1> USE UnsentByPlace, UnsentByPlaceNext DEF Goto, Sends, QueHeld, BoxInv, TypeOK,
        BaseMoves
<1> DEFINE Idle == {"smode", "print", "print_post", "hs_lock", "hs_check", "hs_set",
                    "hs_post", "down_lock", "down_set", "down_post", "switch", "zero",
                    "sret"} \cup Masked
<1>1. ASSUME NEW from \in Idle, NEW to \in Idle, Goto(h, from, to), BaseMoves(h)
      PROVE  AskKept(h) /\ BaseMoves(h)
  BY <1>1 DEF AskKept, Masked
<1>2. ASSUME NEW from \in {"loop", "que_lock", "que_wait", "que_cmd", "que_par"},
             NEW to \in {"loop", "que_lock", "que_wait", "que_cmd", "que_par", "que_ring"},
             Goto(h, from, to), BaseMoves(h), UNCHANGED <<op, out>>,
             todo'[h] \ {h} = todo[h] \ {h}, from = "loop" \/ todo' = todo
      PROVE  AskKept(h) /\ BaseMoves(h)
  <2>1. Unsent(h) = IF op[h] = "kmain" THEN todo[h] ELSE todo[h] \ {h}
    BY <1>2
  <2>2. Unsent(h)' = IF op'[h] = "kmain" THEN todo'[h] ELSE todo'[h] \ {h}
    BY <1>2
  <2>3. op'[h] = op[h] /\ out'[h] = out[h] /\ (op[h] = "kmain" => todo'[h] = todo[h])
    BY <1>2 DEF StartInv, HsmParts, Places, SendTargets
  <2>4. todo'[h] \ {h} = todo[h] \ {h}
    BY <1>2
  <2> HIDE UnsentByPlace, UnsentByPlaceNext
  <2>5. Unsent(h)' = Unsent(h)
    <3>1. CASE op[h] = "kmain"
      BY <2>1, <2>2, <2>3, <3>1
    <3>2. CASE op[h] # "kmain"
      BY <2>1, <2>2, <2>3, <2>4, <3>2
    <3> QED BY <3>1, <3>2
  <2> QED BY <1>2, <2>3, <2>5 DEF AskKept
<1>3. CASE PrintWait(h) \/ HsLock(h) \/ HsSet(h) \/ DownLock(h) \/ DownSet(h) \/ DownPost(h)
           \/ FetchFault(h) \/ FaultPrint(h) \/ FaultHalt(h) \/ ClearSsip(h)
  BY <1>1, <1>3 DEF PrintWait, HsLock, HsSet, DownLock, DownSet, DownPost, FetchFault,
     FaultPrint, FaultHalt, ClearSsip, Masked
<1>4. CASE PrintPost(h)
  BY <1>1, <1>4 DEF PrintPost
<1>5. CASE HsCheck(h)
  BY <1>1, <1>5 DEF HsCheck
<1>6. CASE HsPost(h)
  BY <1>1, <1>6 DEF HsPost
<1>7. CASE SwitchToZero(h) \/ Sret(h)
  BY <1>1, <1>7 DEF SwitchToZero, Sret, Locals
<1>8. CASE LoopEnd(h)
  BY <1>8 DEF LoopEnd, AskKept
<1>9. CASE LoopSelf(h)
  BY <1>2, <1>9 DEF LoopSelf
<1>10. CASE LoopOther(h)
  BY <1>2, <1>10 DEF LoopOther
<1>11. CASE QueLock(h) \/ QueWait(h) \/ QueCommand(h) \/ QueParams(h)
  BY <1>2, <1>11 DEF QueLock, QueWait, QueCommand, QueParams
<1>12. CASE QuePost(h)
  <2>1. PICK t \in Harts : IsNext(h, t) /\ todo' = [todo EXCEPT ![h] = @ \ {t}]
    BY <1>12 DEF QuePost
  <2>2. CASE op[h] = "kmain"
    <3>1. todo[h] = {h} /\ IsNext(h, h)
      BY <1>12, <2>1, <2>2, SMT DEF QuePost, StartInv, HsmParts, Boot, IsNext
    <3>2. Unsent(h) = {} /\ Unsent(h)' = {}
      BY <1>12, <2>2, <3>1 DEF QuePost
    <3> QED BY <1>12, <3>2 DEF QuePost, AskKept
  <2>3. CASE op[h] # "kmain"
    <3>1. \A u \in todo[h] : IsNext(h, u) <=> u = t
      BY <2>1, NextIsUnique
    <3>2. Unsent(h) = todo[h] \ {h, t} /\ Unsent(h)' = todo[h] \ {h, t}
      BY <1>12, <2>1, <2>3, <3>1 DEF QuePost
    <3> QED BY <1>12, <3>2 DEF QuePost, AskKept
  <2> QED BY <2>2, <2>3
<1> QED BY <1>3, <1>4, <1>5, <1>6, <1>7, <1>8, <1>9, <1>10, <1>11, <1>12 DEF Serving

\* A step that changes no mailbox but one that is being written or served.
SameSlots ==
  /\ UNCHANGED <<msip, cmd>>
  /\ \A t \in Harts :
       hart_commands'[t] # hart_commands[t] => msip[t] = 0 \/ cmd[t] # Empty

\* A mailbox that is written while its software interrupt is clear is not a
\* slot yet; what happens to it while it is served is not seen either.
LEMMA QuietSlots ==
  ASSUME BoxInv, StartInv, RefineInv, NEW h \in Harts,
         \/ Serving(h) /\ ~QueRing(h)
         \/ ClearSsip(h)
         \/ Interrupt(h) /\ ~IrqRead(h) /\ ~IrqAck(h)
  PROVE  Slots' = Slots /\ cmd' = cmd
<1>1. SameSlots => Slots' = Slots /\ cmd' = cmd
  BY DEF Slots, SameSlots
<1> SUFFICES SameSlots
  BY <1>1
<1>2. ASSUME UNCHANGED <<box, cmd>> PROVE SameSlots
  BY <1>2 DEF SameSlots
<1>3. CASE QueCommand(h)
  <2>1. PICK t \in Harts : IsNext(h, t) /\ hart_commands' =
          [hart_commands EXCEPT ![t] = Message(out[h].command, @.param1)]
    BY <1>3 DEF QueCommand
  <2>2. msip[t] = 0
    BY <1>3, <2>1 DEF QueCommand, Goto, BoxInv, BoxParts, BoxExclusive, Writing
  <2> QED BY <1>3, <2>1, <2>2 DEF QueCommand, SameSlots, BoxInv, TypeOK
<1>4. CASE QueParams(h)
  <2>1. PICK t \in Harts : IsNext(h, t) /\ hart_commands' =
          [hart_commands EXCEPT ![t] = Message(@.command, out[h].param1)]
    BY <1>4 DEF QueParams
  <2>2. msip[t] = 0
    BY <1>4, <2>1 DEF QueParams, Goto, BoxInv, BoxParts, BoxExclusive, Writing
  <2> QED BY <1>4, <2>1, <2>2 DEF QueParams, SameSlots, BoxInv, TypeOK
<1>5. CASE IrqClear(h)
  <2>1. cmd[h].command \in Commands
    BY <1>5 DEF IrqClear, IrqGoto, RefineInv, CopyInUse
  <2>2. cmd[h] # Empty
    BY <2>1, CommandsAreNoZero DEF Empty, Message
  <2> QED BY <1>5, <2>2 DEF IrqClear, SameSlots, BoxInv, TypeOK
<1>6. CASE Serving(h) /\ ~QueRing(h) /\ ~QueCommand(h) /\ ~QueParams(h)
  BY <1>2, <1>6 DEF Serving, PrintWait, PrintPost, HsLock, HsCheck, HsSet, HsPost,
     DownLock, DownSet, DownPost, SwitchToZero, FetchFault, FaultPrint, FaultHalt,
     LoopEnd, LoopSelf, LoopOther, QueLock, QueWait, QuePost, Sret
<1>7. CASE ClearSsip(h)
  BY <1>2, <1>7 DEF ClearSsip
<1>8. CASE Interrupt(h) /\ ~IrqRead(h) /\ ~IrqAck(h) /\ ~IrqClear(h)
  BY <1>2, <1>8 DEF Interrupt, TakeIrq, StartPrint, StartPrintPost, StartContext,
     StartLock, StartSet, StartPost, IrqSsip, Enter
<1> QED BY <1>1, <1>3, <1>4, <1>5, <1>6, <1>7, <1>8

\* An interrupt asks for nothing: what it takes a hart away from, for good, is
\* no place where commands are still to be sent.
LEMMA QuietInterrupt ==
  ASSUME BoxInv, StartInv, NEW h \in Harts, Interrupt(h)
  PROVE  Asks' = Asks
<1>1. CASE Enter(h)
  <2>1. \/ pc[h] \in {"idle", "switch", "zero"}
        \/ op[h] = "kmain" /\ pc[h] = "que_post"
    BY <1>1 DEF Enter, IrqGoto, StartInv, HsmParts, StatesTrue, Starting
  <2>2. pc[h] \in {"idle", "switch", "zero"} => Unsent(h) = {}
    BY UnsentByPlace DEF Sends, QueHeld
  <2>3. op[h] = "kmain" /\ pc[h] = "que_post" => Unsent(h) = {}
    <3>1. op[h] = "kmain" /\ pc[h] = "que_post" => todo[h] = {h}
      BY DEF StartInv, HsmParts, Boot
    <3> QED BY <3>1, UnsentByPlace
  <2>4. Unsent(h) = {}
    BY <2>1, <2>2, <2>3
  <2>5. pc'[h] = "smode" /\ BaseMoves(h)
    BY <1>1 DEF Enter, Locals, BaseMoves, BoxInv, TypeOK
  <2>6. AskKept(h)
    BY <2>4, <2>5, UnsentByPlaceNext DEF AskKept, Sends, QueHeld
  <2> QED BY <2>5, <2>6, KeptAsks DEF BaseMoves
<1>2. CASE ~Enter(h)
  <2>1. UNCHANGED base
    BY <1>2 DEF Interrupt, TakeIrq, IrqRead, StartPrint, StartPrintPost, StartContext,
       StartLock, StartSet, StartPost, IrqClear, IrqAck, IrqSsip
  <2> QED BY <2>1 DEF Asks, Unsent, IsNext
<1> QED BY <1>1, <1>2

\* A hart asks for something new only when it has sent everything it was asked for.
LEMMA AskStep ==
  ASSUME NEW h \in Harts, NEW targets \in SUBSET Harts, NEW m \in Messages,
         Unsent(h) = {}, Unsent(h)' = targets, out'[h] = m,
         BaseMoves(h), Slots' = Slots, cmd' = cmd
  PROVE  Box!Ask(h)
<1>1. Asks[h] = {}
  BY DEF Asks
<1>2. Asks' = [Asks EXCEPT ![h] = targets \X {m}]
  <2>1. \A g \in Harts \ {h} : (Unsent(g) \X {out[g]})' = Unsent(g) \X {out[g]}
    BY OthersKeepAsks DEF BaseMoves
  <2>2. (Unsent(h) \X {out[h]})' = targets \X {m}
    OBVIOUS
  <2> QED BY <2>1, <2>2 DEF Asks
<1> QED BY <1>1, <1>2 DEF Box!Ask, Asks, Slots

\* An environment call asks for nothing, or for one message to the harts it
\* names but its own (the loops of sbi_send_ipi and of the remote fences).
LEMMA EcallAsks ==
  ASSUME BoxInv, NEW h \in Harts, Ecall(h)
  PROVE  Box!Ask(h) \/ (Asks' = Asks /\ Slots' = Slots /\ cmd' = cmd)
<1>1. BaseMoves(h) /\ UNCHANGED <<box, intr>> /\ pc[h] = "smode"
  BY EcallLocals DEF BaseMoves, BoxInv, TypeOK
<1>2. Slots' = Slots /\ cmd' = cmd
  BY <1>1 DEF Slots
<1>3. Unsent(h) = {}
  BY <1>1, UnsentByPlace DEF Sends, QueHeld
<1>4. CASE pc'[h] = "loop"
  <2>1. /\ op'[h] # "kmain"
        /\ todo'[h] \ {h} \in SUBSET Harts /\ out'[h] \in Messages
    BY <1>4, EcallLocals
  <2>2. Unsent(h)' = todo'[h] \ {h}
    BY <1>4, <2>1, UnsentByPlaceNext
  <2> QED BY <1>1, <1>2, <1>3, <2>1, <2>2, AskStep
<1>5. CASE pc'[h] # "loop"
  <2>1. pc'[h] \notin {"loop"} \cup Sends
    BY <1>5, EcallLocals DEF BoxInv, TypeOK, Sends, QueHeld
  <2>2. AskKept(h)
    BY <1>3, <2>1, UnsentByPlaceNext DEF AskKept
  <2> QED BY <1>1, <1>2, <2>2, KeptAsks DEF BaseMoves
<1> QED BY <1>4, <1>5

\* sbi_hart_start, once the order is accepted, asks for STARTHART.
LEMMA HsPostAsks ==
  ASSUME BoxInv, StartInv, RefineInv, NEW h \in Harts, HsPost(h), out[h] # Empty
  PROVE  Box!Ask(h)
<1>1. /\ pc[h] = "hs_post" /\ pc'[h] = "que_lock" /\ out' = out /\ op' = op
      /\ todo' = todo /\ BaseMoves(h)
  BY DEF HsPost, Goto, BaseMoves, BoxInv, TypeOK
<1>2. op[h] = "start" /\ todo[h] # {} /\ todo[h] \in SUBSET Harts /\ h \notin todo[h]
  BY <1>1 DEF StartInv, HsmParts, Places, StartTarget, OneTarget, BoxInv, TypeOK
<1>3. out[h] \in Messages
  <2>1. out[h].command = "STARTHART" /\ out[h] \in Hart_Command
    BY <1>1 DEF BoxInv, BoxParts, OutIsCommand, TypeOK
  <2>2. PICK t \in Harts : Sending(h, t)
    BY <1>1, <1>2 DEF Sending
  <2>3. out[h].param1 # NoAddr
    BY <2>2 DEF StartInv, StartUnique, SentIsWanted
  <2> QED BY <2>1, <2>3 DEF Messages, NoCommand
<1>4. Unsent(h) = {} /\ Unsent(h)' = todo[h] \ {h}
  BY <1>1, <1>2, UnsentByPlace, UnsentByPlaceNext DEF Sends, QueHeld
<1>5. Slots' = Slots /\ cmd' = cmd
  BY QuietSlots DEF Serving, HsPost, Goto, QueRing
<1> QED BY <1>1, <1>2, <1>3, <1>4, <1>5, AskStep

\* The store that raises the software interrupt posts the message, whole, into
\* a slot that is free.
LEMMA QueRingPosts ==
  ASSUME BoxInv, StartInv, RefineInv, NEW h \in Harts, QueRing(h)
  PROVE  Box!Post(h)
<1>1. PICK t \in Harts : IsNext(h, t) /\ msip' = [msip EXCEPT ![t] = 1]
  BY DEF QueRing
<1>2. /\ pc[h] = "que_ring" /\ pc'[h] = "que_post" /\ BaseMoves(h)
      /\ UNCHANGED <<op, todo, out, hart_commands, cmd>>
  BY DEF QueRing, Goto, BaseMoves, BoxInv, TypeOK
<1>3. t \in todo[h] /\ \A u \in todo[h] : IsNext(h, u) <=> u = t
  BY <1>1, NextIsUnique DEF IsNext, BoxInv, TypeOK
<1>4. \A u \in todo[h] : IsNext(h, u)' <=> u = t
  BY <1>2, <1>3 DEF IsNext
<1>5. t \in Unsent(h) /\ Unsent(h)' = Unsent(h) \ {t}
  <2>1. CASE op[h] = "kmain"
    <3>1. todo[h] = {h} /\ t = h
      BY <1>2, <1>3, <2>1 DEF StartInv, HsmParts, Boot, QueHeld
    <3>2. Unsent(h) = {h} /\ Unsent(h)' = {}
      BY <1>2, <1>4, <2>1, <3>1, UnsentByPlace, UnsentByPlaceNext DEF QueHeld
    <3> QED BY <3>1, <3>2
  <2>2. CASE op[h] # "kmain"
    <3>1. t # h
      BY <1>1, <1>2, <2>2 DEF RefineInv, SendsToOthers, Sends, QueHeld
    <3>2. Unsent(h) = todo[h] \ {h}
      BY <1>2, <2>2, UnsentByPlace DEF QueHeld
    <3>3. Unsent(h)' = {u \in todo[h] \ {h} : u # t}
      BY <1>2, <1>4, <2>2, UnsentByPlaceNext
    <3> QED BY <1>3, <3>1, <3>2, <3>3
  <2> QED BY <2>1, <2>2
<1>6. msip[t] = 0 /\ cmd[t] = Empty
  <2>1. msip[t] = 0
    BY <1>1, <1>2 DEF BoxInv, BoxParts, BoxExclusive, Writing
  <2>2. irq[t] \notin Reading
    BY <2>1 DEF BoxInv, BoxParts, BoxExclusive
  <2> QED BY <2>1, <2>2 DEF RefineInv, CopyInUse, Reading
<1>7. hart_commands[t] = out[h]
  <2>1. /\ hart_commands[t].command = out[h].command
        /\ hart_commands[t].param1 = out[h].param1
    BY <1>1, <1>2 DEF BoxInv, BoxParts, BoxWritten
  <2>2. hart_commands[t] \in Hart_Command /\ out[h] \in Hart_Command
    BY DEF BoxInv, TypeOK
  <2> QED BY <2>1, <2>2 DEF Hart_Command
<1>8. Slots[t] = Empty /\ Slots' = [Slots EXCEPT ![t] = out[h]]
  <2>1. msip'[t] = 1 /\ \A u \in Harts : u # t => msip'[u] = msip[u]
    BY <1>1 DEF BoxInv, TypeOK
  <2>2. Slots[t] = Empty
    BY <1>6 DEF Slots
  <2>3. Slots'[t] = out[h] /\ \A u \in Harts : u # t => Slots'[u] = Slots[u]
    BY <1>2, <1>6, <1>7, <2>1 DEF Slots
  <2> QED BY <2>2, <2>3 DEF Slots
<1>9. <<t, out[h]>> \in Asks[h] /\ Asks' = [Asks EXCEPT ![h] = @ \ {<<t, out[h]>>}]
  <2>1. \A g \in Harts \ {h} : (Unsent(g) \X {out[g]})' = Unsent(g) \X {out[g]}
    BY <1>2, OthersKeepAsks DEF BaseMoves
  <2>2. (Unsent(h) \X {out[h]})' = (Unsent(h) \X {out[h]}) \ {<<t, out[h]>>}
    BY <1>2, <1>5
  <2> QED BY <1>5, <2>1, <2>2 DEF Asks
<1>10. PICK ask \in Asks[h] : ask = <<t, out[h]>>
  BY <1>9
<1>11. /\ Slots[ask[1]] = Empty /\ Slots' = [Slots EXCEPT ![ask[1]] = ask[2]]
       /\ Asks' = [Asks EXCEPT ![h] = @ \ {ask}]
  BY <1>8, <1>9, <1>10
<1> QED BY <1>2, <1>10, <1>11 DEF Box!Post, Asks, Slots

\* The handler copies what lies in the slot: it serves it.
LEMMA IrqReadTakes ==
  ASSUME BoxInv, StartInv, RefineInv, NEW h \in Harts, IrqRead(h)
  PROVE  Box!Take(h) /\ Slots' = Slots
<1>1. irq[h] = "read" /\ msip[h] = 1 /\ cmd[h] = Empty
  BY DEF IrqRead, IrqGoto, BoxInv, BoxParts, BoxExclusive, Reading, RefineInv,
     CopyInUse, StartStages
<1>2. hart_commands[h] # Empty
  BY <1>1, CommandsAreNoZero DEF BoxInv, BoxParts, BoxServed, Empty, Message
<1>3. /\ cmd' = [cmd EXCEPT ![h] = hart_commands[h]]
      /\ UNCHANGED <<msip, hart_commands>>
  BY DEF IrqRead
<1>4. Slots[h] = hart_commands[h] /\ Slots' = Slots
  BY <1>1, <1>2, <1>3 DEF Slots, BoxInv, TypeOK
<1>5. Asks' = Asks
  BY QuietInterrupt DEF Interrupt
<1> QED BY <1>1, <1>2, <1>3, <1>4, <1>5 DEF Box!Take, Asks, Slots

\* The store that clears the software interrupt frees the slot.
LEMMA IrqAckFrees ==
  ASSUME BoxInv, StartInv, RefineInv, NEW h \in Harts, IrqAck(h)
  PROVE  Box!Done(h)
<1>1. cmd[h] # Empty
  <2>1. cmd[h].command \in Commands
    BY DEF IrqAck, IrqGoto, RefineInv, CopyInUse
  <2> QED BY <2>1, CommandsAreNoZero DEF Empty, Message
<1>2. /\ msip' = [msip EXCEPT ![h] = 0] /\ cmd' = [cmd EXCEPT ![h] = Empty]
      /\ hart_commands' = hart_commands
  BY DEF IrqAck
<1>3. Slots' = [Slots EXCEPT ![h] = Empty]
  <2>1. /\ msip'[h] = 0 /\ cmd'[h] = Empty
        /\ \A u \in Harts : u # h => msip'[u] = msip[u] /\ cmd'[u] = cmd[u]
    BY <1>2 DEF BoxInv, TypeOK
  <2>2. Slots'[h] = Empty /\ \A u \in Harts : u # h => Slots'[u] = Slots[u]
    BY <1>2, <2>1 DEF Slots
  <2> QED BY <2>2 DEF Slots
<1>4. Asks' = Asks
  BY QuietInterrupt DEF Interrupt
<1> QED BY <1>1, <1>2, <1>3, <1>4 DEF Box!Done, Asks, Slots

\* Every step of any number of harts is a step of Mailbox, or is not seen by it.
LEMMA NextBox ==
  BoxInv /\ StartInv /\ RefineInv /\ [Next]_vars =>
    Box!Next \/ UNCHANGED <<Asks, Slots, cmd>>
<1> SUFFICES ASSUME BoxInv, StartInv, RefineInv, [Next]_vars
             PROVE  Box!Next \/ UNCHANGED <<Asks, Slots, cmd>>
  OBVIOUS
<1>1. CASE UNCHANGED vars
  BY <1>1 DEF vars, Asks, Slots, Unsent, IsNext
<1>2. ASSUME NEW h \in Harts, Step(h)
      PROVE  Box!Next \/ UNCHANGED <<Asks, Slots, cmd>>
  <2>1. CASE Ecall(h)
    BY <2>1, EcallAsks DEF Box!Next
  <2>2. CASE QueRing(h)
    BY <2>2, QueRingPosts DEF Box!Next
  <2>3. CASE HsPost(h) /\ out[h] # Empty
    BY <2>3, HsPostAsks DEF Box!Next
  <2>4. CASE IrqRead(h)
    BY <2>4, IrqReadTakes DEF Box!Next
  <2>5. CASE IrqAck(h)
    BY <2>5, IrqAckFrees DEF Box!Next
  <2>6. CASE /\ Serving(h) \/ ClearSsip(h)
             /\ ~QueRing(h) /\ (HsPost(h) => out[h] = Empty)
    <3>1. AskKept(h) /\ BaseMoves(h)
      BY <2>6, QuietCalls
    <3>2. Asks' = Asks
      BY <3>1, KeptAsks DEF BaseMoves
    <3> QED BY <2>6, <3>2, QuietSlots
  <2>7. CASE Interrupt(h) /\ ~IrqRead(h) /\ ~IrqAck(h)
    BY <2>7, QuietInterrupt, QuietSlots
  <2> QED BY <1>2, <2>1, <2>2, <2>3, <2>4, <2>5, <2>6, <2>7 DEF Step
<1> QED BY <1>1, <1>2 DEF Next

\* The boot hart asks itself to start; every slot is free.
LEMMA InitBox == Init => Box!Init
<1> SUFFICES ASSUME Init PROVE Box!Init
  OBVIOUS
<1>1. \A h \in Harts : Unsent(h) = IF h = BootHart THEN {BootHart} ELSE {}
  BY UnsentByPlace DEF Init, Sends, QueHeld
<1>2. \A h \in Harts :
        Unsent(h) \X {out[h]} =
          IF h = BootHart THEN {<<BootHart, Message("STARTHART", KernelAddr)>>} ELSE {}
  BY <1>1 DEF Init
<1> QED BY <1>2 DEF Init, Box!Init

\* ImplementsMailbox: every command that any of the harts is asked to send
\* reaches its target once, whole and alone, and is served before the next one.
THEOREM MailboxImplemented == Spec => ImplementsMailbox
<1>1. BoxInv /\ StartInv /\ RefineInv /\ [Next]_vars => [Box!Next]_<<Asks, Slots, cmd>>
  BY NextBox
<1>2. BoxInv /\ StartInv /\ RefineInv /\ [Next]_vars =>
        [Box!Next]_<<
          [h \in Harts |-> Unsent(h) \X {out[h]}],
          [h \in Harts |->
             IF msip[h] = 1 /\ cmd[h] = Empty THEN hart_commands[h] ELSE cmd[h]],
          cmd>>
  BY <1>1 DEF Asks, Slots
<1> QED BY <1>2, InitBox, InitRefineInv, NextRefineInv, StartInvariant, PTL
        DEF Spec, ImplementsMailbox, Box!Spec

=============================================================================
