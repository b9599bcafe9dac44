# Echelon SBI: formal models

Echelon SBI is M-mode firmware for RISC-V machines.  It boots the harts, loads a kernel, starts it in S-mode on hart 0 and
serves the kernel's SBI calls: base, timer, interprocessor interrupts (IPI), remote fences, hart state management (HSM),
system reset.  This directory holds TLA+ models of it, the TLC runs that check them, and proofs that the TLA+ proof system
(TLAPS) checks.  `PROJECT.json` maps every definition to the lines it models; paths below are relative to `src/src/`.

## 1. Inventory

| component | state | operations | interacts with |
|---|---|---|---|
| hart commands (`interrupts/context_switch.c`, `thread_locking.S`) | per hart a mailbox `hart_commands`, a semaphore `hart_command_que_locks`, the software interrupt bit of the CLINT (msip) | `send_hart_command_que`, the machine software interrupt in `interrupt_c_handler` | called by IPI, fences, HSM and `kmain`; interrupts other harts |
| HSM (`sbi_commands/hsm.c`) | per hart `sbi_hsm_states` and a semaphore | `sbi_hart_start`, `_stop`, `_get_status`, `_suspend`; the STARTHART command | sends commands; switches contexts |
| IPI, remote fences (`sbi_commands/ipi.c`, `rfnc.c`) | none of their own; `mip.SSIP` | `sbi_send_ipi`, `sbi_remote_fence_i`, `sbi_remote_sfence_vma(_asid)` | send commands to a set of harts |
| SBI dispatch (`sbi_commands.c`) | none | `call_to_sbi`, `is_valid_hartid`, `is_valid_phys_mem_addr` | called by `exception_c_handler` |
| boot (`entry.S`, `main.c`, `globals.c`) | CSRs, `hart_contexts`, msip | `my_entry_pt`, `kinit`, `hart_init_handler`, `probe_csr`, `kmain` | interrupts all harts, sends the first command |
| traps (`interrupts/context_switch_asm.S`, `context_switch.c`) | three contexts and one stack per hart, `mscratch`, `mstatus.MIE` | `interrupt_entry_handler`, `exception_c_handler`, `switch_context`, `s_delegation_trampoline` | everything runs inside it |
| timer (`sbi_commands/time.c`) | `mtimecmp` or `stimecmp`, `mie.MTIE`, `mip.STIP` | `sbi_set_timer`, the machine timer interrupt | clock; S-mode |
| heap (`memalloc.c`) | list of sections in one block | `kmalloc`, `kfree`, `kmalloc_stack`, `kfree_stack`; an unused page allocator | used by `kinit` and `kmain` |
| console (`printm.c`, `drivers/uart.c`) | `printm_lock`, one buffer for text and numbers | `printm`, `_vprintm`, `_itoa` | called from everywhere, interrupts included |
| loading (`main.c`), `memcpy` (`string.c`) | memory; where each file was found and goes to | `kmain` up to the start of the boot hart | takes files from the loader that ran before and from an archive; places them behind firmware and heap |
| parsers (`dataparse/`) | none | `get_cpio_entry_header`, `dtb_parse` | called by `kmain` |
| M extension supplement (`ext_m_supplement.S`) | none | multiplication, division, remainder, in one register and in two | called by compiled code |
| base, system reset (`sbi_commands/base.c`, `srst.c`) | one device register | constants, identity CSRs, `sbi_probe_extension`, `sbi_system_reset` | |

What is hard in it:

- *Concurrency without an operating system.*  Harts share mailboxes, tables and locks, with test-and-set spin locks only.  The
  handler of an environment call runs with interrupts enabled, so a hart is interrupted while it holds locks, and the STARTHART
  interrupt never returns to what it interrupted.
- *Order of stores.*  Mailbox and interrupt bit are two locations, written and cleared in an order that the other side relies on.
- *Traps inside traps.*  There are no frames: a trap saves to the context in `mscratch`, and nested traps must find another one.
- *Boot order.*  Each hart changes its trap handler from inside the trap handler, while others may already command it.
- *Devices.*  A clock that goes on while its comparator is written in two halves.
- *Numbers that wrap, round and borrow*: sizes in the heap, load addresses, hart masks with a base, paddings in archive and
  device tree, division in two registers.
- *Copies that overlap*: files are placed where others may still lie.

Correct means: every command is handled once, whole, and understood; locks are released; a hart runs S-mode exactly when the
HSM table says so, after one accepted order, at its address; calls return; no hart is lost while booting; what a trap
interrupts is resumed unchanged; no timer tick comes early and none is lost; the heap gives out disjoint memory and fails
only when it is full; the kernel finds itself, its device tree and its initramfs whole whenever they had room; each sequential
routine returns, with the right result, and a call that answers an error has done nothing.  The hazards in `PROJECT.json` give the lines where each of these could go wrong.

## 2. Modules

```
Harts ── HartsInvariant ── HartsRefinement ── HartsLive ── MCHarts         (TLC)
                             │  INSTANCE Mailbox, HartLifecycle
                             └── HartsProofs                               (TLAPS)
Boot ── BootProofs          TrapContext ── TrapContextProofs
Timer ── TimerProofs        Kmalloc (INSTANCE Heap) ── KmallocProofs        Load ── MCLoad
                                                                             └── LoadProofs
SbiCalls ── Routines (INSTANCE MulDiv, Printm, Cpio, Dtb, WalkPts) ── MCRoutines
                └── RoutinesProofs (INSTANCE MulDivProofs)                  MulDiv ── MulDivProofs
```

**Harts** is the core: all harts with everything they share.  A hart has two threads of control: the *base thread* (`pc`), which is
what an interrupt interrupts (S-mode, the handler of an environment call, `kmain`, the idle loop), and the *interrupt thread*
(`irq`), which is `interrupt_c_handler` and runs with `mstatus.MIE` clear.  One step is one access to shared memory.

| variable | code |
|---|---|
| `hart_commands`, `msip`, `hart_command_que_locks` | the same, and `clint_hart_msip_ctls`; a mailbox keeps `command` and `param1` |
| `sbi_hsm_states`, `sbi_hsm_locks`, `printm_lock` | the same |
| `pc`, `op`, `todo`, `out` | place in the code, the SBI call, the harts of the mask not yet visited, the local `command` |
| `irq`, `cmd` | place in `interrupt_c_handler`, its local copy of the command |
| `ssip`, `user_pc` | `mip.SSIP`, `REG_PC` of the hart's context in `hart_contexts_user` |
| `want` | history: the start order that was accepted and not acted upon |

Actions: `Query`, `SendIpi`, `RemoteFence`, `HartStart`, `HartDown` enter a call; `Print…` is `printm`; `Hs…` is `sbi_hart_start`;
`Down…`, `SwitchToZero`, `FetchFault`, `Fault…` is stop and suspend with what they lead to; `Loop…` and `Que…` the loop over the
targets and `send_hart_command_que`; `TakeIrq`, `Irq…`, `Start…`, `Enter` the interrupt.

**Mailbox** (abstract): asked messages are put in an empty slot, served, removed.  **HartLifecycle** (abstract): an order is
accepted for a hart that is down, begins once, and the hart leaves by itself.  **HartsRefinement** maps Harts to both.
**HartsInvariant** holds the inductive invariants, **HartsLive** fairness, a bound on calls, and liveness.

**Boot**: from reset to the first commands.  `pc` is the boot code of a hart, `irq` its `hart_init_handler`, one step per effect on a
CSR, register or device.  What `mscratch` and `sp` hold at reset is the value "unknown".  Commands are abstract here (`owed`).

**TrapContext**: one hart, its three contexts, and the handlers in progress with the context and the half of the stack each uses.
Code is abstracted to what it is and how far it has come, so that "resumed where it was" can be said.  The ends of the handlers are
taken apart into what must not be interrupted: `SwitchContext` (interrupts off), `SwitchSet` (`mscratch` and `mepc`), `Mret`, and the
same for `Delegate`.  `mepc` is a variable because the next trap overwrites it.

**Timer**: one hart, the clock, the comparator in two words.  All four variants (32 or 64 bit, with or without sstc).

**Kmalloc**: the list of sections, with address arithmetic modulo 2^xlen.  **Heap** (abstract): disjoint blocks; an allocation
succeeds if there is a place and fails if there is none; a free takes back what was named.

**Load**: `kmain` from the search for the three files to the start of the kernel.  Memory is a function from addresses to what lies
there, and `memcpy` copies upwards, a cell after the other; addresses are XLEN bits wide and sums wrap.  What the loader before the
firmware passes on (`fw_dyninfo`, `init_reg_a1`, `initrd_start`) and what the archive has are inputs.  `KernelClears` is the kernel's
own first act, without which a file behind the kernel's image would look whole.

**MulDiv**, **Printm**, **SbiCalls**, **Cpio**, **Dtb**, **WalkPts** are sequential routines, each with the call as its initial state and one step per
pass of a loop:

| module | state | actions |
|---|---|---|
| MulDiv | `a`, `b`, `quot`, `mask`, `count`, `sign`: the registers, numbers being tuples of words | one action per routine, put together from the stages the routines share (align, subtract, divide, fix the sign) |
| Printm | place in the format, buffer, flags, width, arguments taken, output | one per kind of character: text, `%`, flags, width, length, each conversion |
| SbiCalls | the request, place, the loop over the mask (`mask`, `base`, `i`), what was sent, the HSM table, the reset device, the answer | one per SBI function, with its errors |
| Cpio | `ptr`, `datasize`, the result | no header, match, trailer, next entry |
| Dtb | offset in the structure block, `initrd_start` | one per token |
| WalkPts | `page_walk`, `shift_ammount` | enter, one level of tables, one level of a superpage, offset |

Cpio and Dtb write archives and trees down as the tools that make them do, byte order and padding included; the search sees only
what lies at an address.  SbiCalls complements Harts: Harts has all harts and abstracts a mask to the set of hart ids, SbiCalls has one
caller, masks and bases at the width of a register, and the answers.  **Routines** runs the six side by side, a behaviour being one
call of one of them; it extends SbiCalls and instantiates the others.  Each module names what it assumes of its constants (`MulDivAssumption`, ...);
`RoutinesAssumption` puts these together, and TLC evaluates it for the values that **MCRoutines** gives.

## 3. Runs

| run | question | bounds |
|---|---|---|
| HartsFanOut | types; no lock lost; commands understood; one writer per mailbox; Harts implements Mailbox | 3 harts, starts, IPIs and one kind of fence, 3 calls |
| HartsHsm | no hart spins on its own lock; S-mode only on STARTED harts; at most one start under way; Harts implements HartLifecycle | 3 harts, start, stop, suspend, unlimited |
| HartsProgress | every call returns; every command is handled; an IPI reaches its target; an accepted start starts | 3 harts, the last 2 in use, starts and IPIs, 3 calls |
| Boot | no hart dead, no command lost, handler ready, `kinit` undisturbed; `kinit` ends, commands are received | 3 harts |
| TrapContext | contexts and stack halves kept, also while a context is being resumed; S-mode's context; return to the right place | 3 places per program |
| Timer | no early tick; the interrupt is armed; each tick comes; S-mode not starved | 3 low words, 3 high words, every time |
| Kmalloc | list in order; nothing lost or given twice; stacks usable; Kmalloc implements Heap | 8-bit addresses, a block of 80 bytes |
| Routines | results of multiplication and division and the invariant of their loops; output of `printm`; harts reached by a mask; answers that agree with what was done; file and initramfs found; address translated; every routine returns | words of 3 bits (MulDiv) and 6 bits (SbiCalls), archives of up to 3 entries, trees of up to 4 items |
| Load | the kernel starts where it should, and all files and the firmware are whole exactly if there was room | 7-bit addresses, 44 cells of RAM, boundaries every 8 cells |
| HartsBootLock, HartsRestart, BootStack | findings, see section 6 | |

Why the bounds are enough.  *Harts*: every interaction is between a sender, another sender and a target, so that three harts show
all contention for one mailbox and one HSM lock.  In the
runs without a bound on calls histories are finite only because state is.  Three calls let two harts send to a third one while it
sends itself.  The `StartAddrs` are one valid address besides `KernelAddr`, and `NoAddr` for an invalid one: addresses are only
compared and copied.  *Boot*: the boot hart, one hart ahead of it and one behind.  *Timer*: words of three values have a first, a last
and one in between, and the time passes the carry into the high word twice.  *TrapContext*: nesting is bounded by the code, not by
the model.  *Kmalloc*: 80 bytes hold up to five sections with sizes that exactly fill, barely miss and overflow the block or the
address space.  *MulDiv*: words of 3 bits, all pairs of operands; a double number then has 6, enough for a divisor that is shifted across the
words, borrows, carries and the most negative operands.  *Printm*: a buffer of 4 characters, so that text and numbers flush it;
every flag and every pair of flags in either order; types of 2 to 6 bits, which keep their order.  *SbiCalls*: registers of 6 bits, so that masks name valid,
invalid and wrapped ids with 4 harts of which 3 are in use; every mask with every base.  *Cpio*: odd and even sizes, one that needs both halves, one that is as long as 32 bit sums allow, data that looks like
headers, archives without a trailer.  *Dtb*: values of every length modulo 4, words in them that read as tokens, names that are a part of the
one searched for, both byte orders.  *WalkPts*: Sv32 and
Sv39 with indices of two bits, pages at every level of their tables, every address, ASIDs with the bits next to the page number set.  *Load*: kernels that end below and behind the next boundary, text offsets of zero, a boundary, none, and
so high that the sum wraps; files of the loader at places that collide with the kernel, or not.  In the four liveness properties with a bound on calls the locks would otherwise not be fair (below).

Deadlock is checked in Boot, Timer, TrapContext and Kmalloc.  In the Harts runs it is not: all harts may be halted after
`sbi_hart_stop` (a hart that goes down halts for good), and with a bound on calls S-mode ends.  In Routines and Load it is not either: a
routine ends, and `Returns` says that it does.

**Fairness.**  A hart executes the firmware and nothing else, so that each thread of a hart that can take a step takes one: weak
fairness of `Serving(h)` and `Interrupt(h)` for each hart, not of single actions, and none for S-mode, which need not call.  The spin locks
(`amoswap` in a loop, `thread_locking.S`) are not fair: with unlimited calls of others a hart may starve, so that progress is
claimed for finitely many calls (`MaxCalls`), which is what the code guarantees.  Boot: weak fairness of the boot code and of
each hart's trap handler; nobody is obliged to send a command.  Timer: the clock advances and the hart executes.  Routines: the hart executes.

Each property of a passing run has a mutant in `PROJECT.json`: a definition marked *Mutation* in the module, a plausible bug under which
the run finds that property violated.

## 4. Proofs

Every theorem is about the specification that TLC checks, for every value of the constants that the named assumption of its module allows.

| theorem | statement | for |
|---|---|---|
| TypeCorrect | `[]TypeOK` of Harts | any number of harts, any calls, fences and addresses |
| CommandsUnderstood, MailboxesExclusive | `[]NoUnhandledCommand`, `[]MailboxExclusive` | same |
| StartInvariant | `[](BoxInv /\ StartInv)` | same |
| RunningHartsAreStarted, NoHartBlocksItself, OneStartPerHart, LocksNotLost | `[]RunsOnlyWhenStarted`, `[]NoSelfDeadlock`, `[]OneStart`, `[]NoLockLost` | same |
| MailboxImplemented, LifecycleImplemented | Harts implements Mailbox and HartLifecycle | same |
| BootInvariant | `[]BootInv` | any number of harts |
| NoHartIsDead, CommandsKept, HandlersReady, KinitStaysIntact | `[]NoHartDead`, `[]NoCommandLost`, `[]HandlerReady`, `[]KinitIntact` | same |
| TrapInvariant | `[]TrapInv` | code of any length |
| ContextsStayKept, StackStaysKept, SmodeHasItsContext, TrapsReturnBack | `[]ContextsKept`, `[]StackKept`, `[]SmodeContext`, `ReturnsBack` | same |
| TimerInvariant, NoEarlyTickHolds, ArmedHolds | `[]TimerInv`, `[]NoEarlyTick`, `[]Armed` | words of any width, any times |
| HeapInvariant, ListStaysOrdered, ListStaysOwned | `[]HeapInv`, `[]ListOrdered`, `[]ListOwned` | any word, address width, block and sizes |
| StacksStayUsable, HeapImplemented | `[]StacksUsable`; Kmalloc implements Heap | same, given `StacksBelowWrap` |
| SbiInvariant, TargetsAreReached, AnswersStayTruthful | `[]SbiInv`, `[]TargetsReached`, `[]AnswersTruthful` | registers of any width, any number of harts |
| WalksAreRight | `[]WalkRight` | registers, entries, indices and tables of any number and width that `WalkAssumption` allows |
| FilesAreFound | `[]FilesFound` | archives and device trees of any length that `CpioAssumption` and `DtbAssumption` allow, in both byte orders |
| CallsPrintRight | `[]PrintsRight` | buffers, types and pairs of directives of any kind that `PrintmAssumption` allows |
| RoutinesInvariant, DivisionsStayLong, RoutinesReturnResults | `[]RoutinesInv`, `[]LongDivision`, `[]ResultRight` of Routines | any call of any routine |
| LoadInvariant, IntactExactlyIfFits | `[]LoadInv`, `[]IntactIffFits` | any memory, archive, kernels and loader that `LoadAssumption` allows |
| MulDivInvariant, DivisionsAreLong, ResultsAreRight | `[]MulDivInv`, `[]LongDivision`, `[]ResultRight` of MulDiv | registers of any width, given `MulDivAssumption` |

A property that is not inductive follows from an invariant that is.  Before such an invariant was proved TLC had found it to hold in the
bounds of section 3.

**Harts** (`HartsProofs`).  `BoxInv`: that an interrupt finds a command rests on the mailbox being written
before msip (`BoxWritten`), the writer being alone (`QueLocked`: who is in the critical section holds the lock), the writer seeing msip = 0
until it sets it (`BoxExclusive`: only the owner clears it, and only the lock holder sets it), the sender having a command
to send (`OutIsCommand`), and the owner clearing the mailbox only after it has copied the command and before it clears msip
(`BoxServed`).  The core of the type invariant is `ValidIdsAreHarts`: what passes `is_valid_hartid` indexes the tables.

`StartInv` is the strengthening for the locks, the HSM table and the start orders.  Its parts need each other:

- `Places` says what the locals of the base thread are at each place, `Boot` that `kmain` commands only the boot hart and that until
  it is done no other hart has left the idle loop.
- `HsmLocked`, `PrintLocked`: a holder of a lock holds it alone.
- `StatesTrue`: the table says STARTED wherever S-mode runs or a call of it is served; START_PENDING exactly while an order is
  outstanding; and a STARTHART interrupt only ever interrupts a hart that waits in the idle loop or on its way to address 0, or the last
  instructions of `kmain`'s own command.  The latter is why an interrupt that never returns abandons no lock (but that one).
- `StartUnique`: an order is with one sender (`Sending`) or in the mailbox (`StartInBox`), never both, never twice.  That an interrupt
  finds the order it carries out to be *the* order is what keeps `StatesTrue`; that a hart whose start is accepted has no order left
  (`DownHasNoOrder`: STOPPED or SUSPENDED excludes START_PENDING) is what keeps `StartUnique`.

Most steps leave the orders where they are (`OrdersKept`), and three lemmas treat those that do not: `HsSetOrders` (accepted),
`QueRingOrders` (into the mailbox), `StartSetOrders` (carried out).  For `LocksNotLost`, `LocksKept` says of a step that a lock which is
taken afterwards was taken before by someone who still holds it, or is taken by the hart that steps.

**The refinements of Harts** (`HartsProofs`).  For HartLifecycle three steps are visible: the store START_PENDING accepts an
order (`HsSetAccepts`), the store STARTED begins it at the address that was accepted (`StartSetBegins`, from `StatesTrue`), the store STOPPED
or SUSPENDED leaves (`DownSetLeaves`); the context of a hart is written while the hart is not started, so that this is not seen
(`StartContextUnseen`).  Mailbox needs two facts that the safety properties did not (`RefineInv`): a hart commands itself in
`kmain` only, and its copy of a command is in use exactly while it serves it.

**Boot** (`BootProofs`).  `BootInv` relates each hart to the loop of `kinit` it depends on: which harts have been rung and have
acknowledged (`KinitLoops`, `RungOnce`), which vector they have at each stage (`Vectors`), and that after the acknowledgement of the one-time
handler the interrupt bit means a command and nothing else (`OwedIsPending`).  `Scratches` and `KinitSaved` follow the context pointer through
the swap of `hart_init_handler`.

**TrapContext** (`TrapContextProofs`).  `Nesting` bounds the traps in progress by three and says which may interrupt which: the first
one S-mode or a waiting hart, a second one an exception handler, a third one only the handler of an exception that the firmware does not
survive.  From this, and from where `mscratch` points in each kind of code (`Executing`), two handlers that return never share a
context (`Kept`), and what is being loaded is what was saved (`Resuming`).

**Timer** (`TimerProofs`).  While `sbi_set_timer` writes, the interrupt is masked and no tick is left over (`NoBounce`); `Written` says what the
comparator holds after each store.  `Words` is the one lemma about arithmetic: a time is put together again from its halves.

**Kmalloc** (`KmallocProofs`).  `HeapInv`: the sections lie in the block in the order of their addresses, on word boundaries,
each one linked to the next (`Listed`, `Aligned`, `Chained`), and what callers own is what the list holds.  Each operation is one lemma about the list
(`Inserted` and `InsertOrdered`, `Freed` and `FreedOrdered`, and what they do to the owned blocks).  The loop of `kmalloc` is a recursive function over the list.
What it finds is proved without induction over data: if a claim failed for some section, it would fail for one furthest down the list, by the least
number principle (`Least`), but it holds for the section behind that one (`WalkEnds`, `Finds`).  `Checks` shows that the code's two tests for a wrapped sum
tell exactly when it wraps; this needs that no section is as long as its address, hence the assumption on where the block lies
(`mem_block_start >= mem_block_end - mem_block_start`).  That an allocation fails only when Heap has no place for it is `RoomIsPlace` and
`PlacesHaveRoom`.  `kmalloc_stack` adds 0x20 to the size it is given and does not look whether the sum wraps.  `StacksBelowWrap` says that it does not, and is a
hypothesis of the theorems about stacks; the only caller asks for the constant `STACK_SIZE` (`main.c:130`).

**SbiCalls** (`RoutinesProofs`).  `SbiInv` has the invariants of the two loops over a mask: at bit i, `mask` is the mask shifted by i
(`Looping`), the first loop has found the targets of the bits below i to be valid (`Checking`), and the second one has sent one order to each of them
(`Acting`).  No hart gets two, although base plus bit wraps around, because a register holds more numbers than it has bits (`TargetsDiffer`).  The provers
know nothing of `^`; what the proofs use of it is stated as `PowersOfTwo`, which is a fact of arithmetic and which TLC evaluates.
From it follow `PowerSum`, `Halved` and `BitsOfAllHarts` (the mask for all harts names the harts in use).

**MulDiv** (`MulDivProofs`).  A number is a tuple of words, and the first half of the proofs says which integer each operation on tuples
computes, borrows and carries between the words included (`Difference`, `Sum`, `Doubled`, `Halved`, `Negated`, `BelowIsLess`, `BitSet`).
`MulDivInv` then speaks of integers.  Divisions: the divisor in the register is the divisor times `2^count` and still fits
(`Aligned`), and so `count` is below the number of bits; the quotient so far is a multiple of `2^count` (`QuotientSoFar`), which is why the next bit
can be set with `or`; what is left is below the shifted divisor (`Reduced`), also when the top bit is decided ahead of the loop, where that holds because
the divisor's own top bit is set.  Products: what has been added and what is still to be added make up the product modulo `2^width` (`ProductSoFar`),
whatever falls out of the registers being a multiple of it.  With `count = 0` these give the result (`FinishStep`, `MultiplyDoneStep`).
`MulDivAssumption` is a hypothesis of the theorems and not an assumption of the module, because MulDiv is run as an instance; TLC evaluates it there.

**WalkPts** (`RoutinesProofs`).  An entry moves through four shifts that drop what is above and below its page number, and where entries have reserved
bits the right shifts are those of a signed number.  `TableAddressIs` and `PageAddressIs` say that what is left is the address of the page: whatever
address space satp holds above the number, and whatever flags an entry holds below it.  They rest on lemmas about one shift each (`ShiftedLeft`, `ShiftedOut`,
`ShiftedRight`, `NumberOf`; `SignOut` for the sign that a shift brings in and a later one takes out) and on `PagesFit`, that no number loses a bit.  `WalkInv` has one
part per loop: at the n-th table `page_walk` holds its number where an entry has it (`AtTable`); with k fields of the address to append, it holds the page and the
fields above them (`AtField`, `FieldAbove`).  `EntryRead`, that the entry read is the next one on the way, needs that no two tables share a page.

**Cpio** (`RoutinesProofs`).  `CpioInv`: the sum of `ptr` and `datasize` is where an entry begins (`Begin`), or the end of the archive, and no file of the
name and no trailer comes before it (`Passed`).  Where an entry begins is the sum of the lengths before it, a recursive function.  That there is
one (`Recursion`) is proved by the least number principle: for the first length for which there were none, the one below it could be extended.
Entries do not overlap (`EntriesAscend`), so that what is read at `Begin(n)` is the header of the n-th one (`EntryReads`) and nothing reads as a header at the end
(`EndReads`); a header says the same in either byte order (`HeadSays`, `SwappedTwice`), a size of two halves included.

**Dtb** (`RoutinesProofs`).  The block is the items one after the other, and so the place of each one is the sum of the lengths before it (`Laid`, `FlattenLays`;
`Recursion` again).  Where an item lies its bytes are read (`ItemReads`), a word reads as the number it was written from (`WordReads`, `SwappedWord`: four digits, divided
apart and put together again, `FourDigits`), the name of a node ends at its first 0 (`StringEnds`), and `Aligned` skips exactly the padding (`AlignedIs`).
From these, `NodeReads`, `PropReads` and `OtherReads` say for each kind of item that the step leads from its place to the place of the next one.
`DtbInv`: the offset is the place of some item, or the end; no token FDT_END comes before it (`Walked`), and `initrd_start` is 0 or the value of
linux,initrd-start, whichever the items before it say.  That values may read as tokens does no harm, because the walk never comes to a value.

**Printm** (`RoutinesProofs`).  `PrintInv` says which text (`ReadsText`) or which directive (`ReadsDirective`) of the call the interpreter is in, how many of its
flags, of the digits of its width and of the letters of its length it has read, and that `flags` and `fdwidth` hold these and nothing of the directive before.
In a text, `out` followed by `buf` is what the call is to print up to there, wherever the buffer was flushed; in a directive the
buffer is empty, so that `_itoa` may use it.  `PartsLie` says where the parts of a directive are in the format string; from it `NextInside` has the
character that is next, and `ActionInside` that it enables the action for its kind and no other.  When the conversion is
reached (`Ready`), four things are shown equal to what `Printed` asks for: the type selected by the tests of the length bits (`LengthReadIs`), the value that is left in it,
its digits, and what is put around them (`LayoutIs`).  That the digits `_itoa` collects lowest first are the numeral of the number
(`ItoaWrites`), and that a width is read as the number it spells, is proved by the least number principle.  `ConversionPrints` puts these together, and `OutputGrows` adds
the result to the output.  The provers know nothing of `^`; what they need is assumed as `Powers`, a fact of arithmetic which TLC evaluates.

**Routines** (`RoutinesProofs`).  `RoutinesInv`: the routine that is called has its invariant, the others are idle.  What MulDivProofs shows is used through an
instance of it, and `SameInit`, `SameNext`, `SameResult` and `SameDivision` say that this is an instance of the same module.

**Load** (`LoadProofs`).  `LoadInv` is the boot told backwards from its inputs: where each file was located (`FilesInv`), where it is placed
(`PlacesInv`), and the memory as a term that grows by a copy per step (`MemoryInv`: `FirstMemory`, `KernelMemory`, `DtbMemory`,
`InitramfsMemory`, `LastMemory`).  The loop that looks for room behind the heap keeps `OnTheWay`: the boundary it is at is a boundary, and
none behind the heap and not below the text offset comes before it; from this `PlaceEnds` has that it ends at `Spot`, also where the sum wraps around.  A copy
is a function that recurs over cells; what is known of it after j cells (`CopyRuns`: no cell outside the target has changed, and a cell of the target holds
what its source held if the copy could still read it) is proved by the least number principle, for the first j at which it would fail.  `CopyInside` and
`CopyFromFlash` then say when the file arrives whole: when the source is in flash, or when the target does not begin inside the source
behind its first cell.  For `IntactExactlyIfFits` both directions are needed.  If the images have room (`FitsIsIntact`), no copy and not
the cleared memory reach what lies already (`LastMemoryAt`).  If one has not (`IntactIsFits`), some cell shows it: a cell outside RAM holds nothing that was stored, and a
cell of the firmware or of two files can hold only one of them (`IntactCells`), a smeared copy has its first cell again where it began to read its own
output, and a device tree that is not aligned is looked for where it does not lie (`IntactAligned`).

What stays with TLC, and why:

- liveness, which rests on fairness and ENABLED: `CallReturns`, `CommandHandled`, `IpiDelivered`, `StartCompletes` (Harts), `HartsReady`,
  `CommandReceived` (Boot), `TickComes`, `BackToSmode` (Timer), `Returns`.

Every safety property that a passing run checks is a theorem.

## 5. Not modelled, and assumptions

- Memory is sequentially consistent: a store to the mailbox is seen before the store to the CLINT that follows it.  The code has no
  fence between the two.  Weak memory is not modelled.
- The effect of fences on translation and instruction caches is not modelled; a remote fence is a command like the others.
- S-mode in Harts makes calls and takes its software interrupt; its own faults are in TrapContext.
- In Harts hart masks are sets of hart ids, and results are left out; both are in SbiCalls.
- Timer: one hart, whose time stops at the end of the modelled range; before S-mode sets it, `stimecmp` holds anything.
- Kmalloc: the block of the heap lies no lower than its own length and ends at least a header below the top of the address space
  (`KmallocAssumption`), as RAM does; `kfree` is given multiples of the word size (a header is found at section addresses only); a stack is freed by `kfree_stack`.
- Load: the loader before the firmware put its files into RAM, behind the firmware and apart from each other; the archive lies below RAM, with
  its files apart from each other, RAM ends before the addresses do, and the boundaries divide 2^XLEN (`LoadAssumption`), as in the code: the archive is
  at 0x20000000 (`main.c:222`), the firmware and RAM begin at 0x80000000 (`linking.ld:14`), the initramfs goes to 0x86000000 (`main.c:319`).  That
  the files fit is no assumption: `Fits` says when they do, and the code does not check it.  The device tree's address is assumed to be
  read by the kernel at the address it is given, which the code rounds down.
- Printm (`PrintmAssumption`): a call has two directives, each with a text before it, and the arguments that they ask for.  A text has no `%`, as a text is what lies between directives; widths have
  up to two digits and no leading zero, because a 0 that is not inside a width is a flag.  The modifier z is known to nobody in `printm` and is skipped, so that what it modifies is read
  as an `int`.  The buffer holds the digits of every number, as 0x40 characters hold the 22 octal digits of 64 bits.  Conversions of the most negative
  `long long` (a signed overflow in C, `printm.c:184`) are not among the arguments.
- WalkPts: page tables are valid, as the comment above `walk_pts` asks for, superpages are aligned, and no two tables on the way share a page; tables and pages have addresses that a register
  can hold and, where entries have reserved bits, a page number whose top bit is zero (`PageNumbers`): with that bit set, which in Sv39 is an address of 2^55 or more,
  the signed right shifts of lines 471 to 521 of `context_switch.c` would give another address.  The boards have no such memory.  `satp` selects no translation or
  Sv32 or Sv39.
- Cpio: an archive has an entry, and names and sizes are such as a header holds (`CpioAssumption`): a name is below 2^16 bytes and has its 0,
  and name and file, padded, are below 2^32 bytes together.  The sums of `get_cpio_entry_header` are those of `uint32_t` (`cpio_parse.c:57-65`) and wrap around in Cpio as well; what would
  wrap is longer than any archive that lies at 0x20000000 and ends below RAM at 0x80000000.
- Dtb (`DtbAssumption`): names of nodes have no 0 inside, the name of a property is in the block of names, a length is below 2^32, and one property at most is
  linux,initrd-start: `dtb_parse` would shift the bytes of a second one into the value of the first (`dtb_parse.c:124-128`), and the property belongs to /chosen, where a
  name occurs once.  A tree ends with its token or its block; the walk over the reservation map and the count of the depth have no effect.
- Not modelled: the page allocator (`kalloc_pageinit`, `kalloc_page`, `kfree_page`: its initialisation is commented out and nobody calls it);
  `decode_instruction` (what the illegal instruction branch does with its result is compiled out, `&& 0`; then it prints and halts, or delegates); `drivers/uart.c` (one register polled and written); `linux,initrd-end` (no caller asks for it); the string functions without a caller of interest;
  headers; functions without a caller (`send_hart_command_lck`, `_blk`, `_ret`, HARTCMD_SWITCHCONTEXT).

## 6. Findings

| run | what it shows |
|---|---|
| HartsBootLock | `kmain` commands its own hart with interrupts enabled; the STARTHART interrupt is taken between the store to msip and `ksem_post` (`context_switch.c:629-630`) and never returns: the mailbox lock of hart 0 stays taken, and an IPI to hart 0 spins forever |
| HartsRestart | a hart that was stopped or suspended jumps to address 0, faults and halts with interrupts disabled; a later `sbi_hart_start` answers success and the hart never starts |
| BootStack | `hart_init_handler` is said to set up sp and tp, and sets only tp; `probe_csr` then stores through sp |

## 7. Plan

Nothing of the plan is left but what section 4 leaves to TLC and section 5 leaves out.
