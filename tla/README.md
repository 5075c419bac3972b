# system_6502 in TLA+

`system_6502` emulates a 6502 (or 65C02) machine: an *executor* runs opcodes fetched from a
*memory bus* on a *register set*, while other threads raise interrupts, stop it or ask it to
move memory in or out (DMA).  This directory holds TLA+ modules translated from the C sources,
TLC configurations that check them on small instances, and TLAPS proofs of the results that
matter most.

## Running it

    tlc -config MCExecutorStaged.cfg MCExecutorStaged       # and the other .cfg files
    tlapm ExecutorStagedProofs.tla                          # and the other *Proofs.tla

Every `.cfg` is named after the MC module it belongs to, followed by the question it asks.

## Inventory of the system

| Component | Source | State | Operations | What makes it correct |
|---|---|---|---|---|
| Executor state | `executor.c`, `executor.h` | `flags` (nmi, irq, dma, stop), `state_lock`, `dma_range`, `dma_provider`, `dma_consumer` | `executor_set_irq/_nmi/_exec_stop`, `executor_set_dma_copyin/_copyout`, `executor_hard_reset`, alloc, free | a signal is acted on once and never lost; a request's parameters stay together |
| Launch loops | `executor.c`: staged/static x verbose or not x locking or not | cycle count, stage, transfer in progress | fetch, decode, execute, transfer cycle, interrupt check | an instruction is executed whole; a transfer moves its range; a stop and an NMI are honoured; the lock is given back |
| Interrupts, stack, jumps | `isa_6502/IRQ.c`, `NMI.c`, `BRK.c`, `RTI.c`, `JSR.c`, ..., `isa_6502.c` | PC, SR, SP, page one | push, pull, take the vector | RTI returns where the interrupt came; the vector is taken |
| Instructions | `isa_6502/*.c`, `isa_65C02/*.c` | registers, locals kept in `static` variables | one per-cycle and one single-call function per opcode | each leaves what the processor would, in as many cycles; the two agree |
| Opcode tables | `isa_6502.c` | none | lookup, initialisation | each opcode has the right functions and mode |
| Address ranges | `libmembus/memory_addr_range.*` | none | end, inclusion, union, intersection | exact at `$FFFF` and for empty and full ranges |
| Memory bus | `libmembus/membus.*` | tiers of sorted module chains, reference counts, six vectors, access caches, a lock | register, read, write, range operations, load, save, dump; nothing is ever unregistered | a lookup means the module of the lowest tier that answers; a module lives as long as somebody refers to it |
| Bus modules | `membus_module_*.c` | 64K RAM, byte and word registers, pages, mirrors | read, write | what was written is read back |
| Watchpoints | `membus_module_watchpoints.c` | a list of generic watchpoints, a list of ranges, a binary tree of addresses with chains | register, merge, set_events, unregister, dispatch, free | every watchpoint registered for an access is called once, and no other |
| Front end | `system_6502.c` | the executor pointer, execution mode, dialect | command-line operations in order; a TUI thread reading keys | operations on the executor never block each other for ever |
| Disassembler, TUI windows, NES mock-up, tests | `disasm_6502.c`, `tui_window.*`, `nes_mockup.c`, `libmembus/membus_test.c` | | text, curses, demonstrations | outside the models |

How they interact: the front end's main thread calls `executor_launch_in_address_range`, which
enters one of eight loops; the loop calls the opcode's function, which reads and writes the bus,
which calls modules and watchpoints.  The TUI thread calls `executor_set_*` on the same executor
all the while.  `state_lock` orders the two: the loop holds it except for two moments, between
cycles and before interrupts are looked at.

What is hard: the interleaving of the setters with the loop, at every cycle; a transfer that
interrupts an instruction between its cycles, alternates reads and writes by the parity of a
counter and may be refused at any byte; flags cleared in five places; locks kept across
callbacks and returns; and, in the loops launched with `nolocks`, data races.  Behind them
stand the sequential hazards of the bus (chains, tiers, trees, 16-bit ends of ranges) and of
two implementations of every instruction.

## Modules

| Module | Models |
|---|---|
| `ExecutorBase` | `executor_t`, `state_lock`, the public calls, one cycle of a transfer: what all loops share |
| `SignalService` | abstract: what the calls that signal promise, whatever the loop |
| `TransferService` | abstract: what the calls that request a transfer promise |
| `ExecutorStaged` | `__executor_launch_staged` and `_verbose`, composed with the client threads; implements both services; properties and the inductive invariant `IInv` |
| `ExecutorStatic` | `__executor_launch_static` and `_verbose`, composed with the client threads; implements `SignalService` |
| `ExecutorNolock` | `__executor_launch_staged_nolock` and `_verbose_nolock`, with every racing assignment a step of its own |
| `ExecutorBaseProofs` | lemmas on the clients' calls and a transfer's cycle, for all loops |
| `ExecutorStagedProofs`, `ExecutorStaticProofs`, `ExecutorNolockProofs` | theorems about the three loops |
| `Cpu6502` | registers, page one, address arithmetic, and the static functions of the instructions that move PC or SP, for both dialects, as functions on states |
| `BalancedProgram` | which instruction a program may run next, and what it then has on the stack |
| `InstrStatic` | static execution: one step per instruction |
| `InstrStaged` | staged execution: one step per call of a staged function; implements `InstrStatic` |
| `InstrStagedProofs` | theorems about `InstrStaged`, the refinement among them |
| `DataCpu` | registers, memory and the ALU of the instructions that load, store, compute and compare, in full width |
| `Steps` | the statements those functions are made of, and what follows the switch of each |
| `Staged6502`, `Staged65C02` | the staged functions: for each mode, the steps of each call |
| `Static6502`, `Static65C02` | the static functions: for each mode, the steps and the cycles they add |
| `DispatchTable` | `isa_6502.c`: which instruction and mode each opcode of either dialect selects |
| `PhysicalCpu` | the reference: what the processor's documentation says of the same instructions, and of their timing |
| `DataInstr` | one instruction from its opcode to its end, staged or static, against the reference |
| `AddrRange` | `memory_addr_range.*` |
| `MembusModules` | the bus modules: ranges, callbacks, modes, reference counts |
| `Membus` | the bus: tiers, walks, vectors, caches, range operations, loads, saves and dumps |
| `MembusProofs`, `MembusReadsProofs` | theorems about `Membus`, and about the ranges of `AddrRange` |
| `Watchpoints` | the watchpoints of one module: lists, tree and chains as nodes with pointers |
| `WatchpointsProofs` | theorems about `Watchpoints` |
| `MCExecutor*`, `MCInstrStaged`, `MCDataInstr`, `MCMembus`, `MCWatchpoints` | small instances for TLC |

### State

The variables carry the names of the C fields and locals.  Abstractions, all in `ExecutorBase`:

* `flags` is the set of bits set; the bundle bit never changes and is left out.
* `lock` is the thread holding `state_lock`, or `Free`.
* `dma_consumer` stands for "`dma_consumer` is not NULL"; the setters keep `dma_provider` its
  complement.  Which callback it is and its context are not distinguished.
* `total_cycles` is kept modulo 2 (`parity`), the only thing the code tests of it.
* A byte is named by its origin: the address it was read from, the index the provider supplied
  it for, or `Unset` for a local not yet assigned.
* Of SR only bit I is kept.  PC is not: whether it is still below `PC_end` is answered either
  way, so the models cover every program and every address range.
* The instruction executed is any whose number of calls is in `InstrCycles`.  One of these may be
  `Endless`: the staged function of some opcodes never returns *end* (`Unhandled`, below), so the
  do loop is not left again; the calls after its first are alike to the loop and not counted.
  Opcodes without a function, where the process crashes, are in `DataInstr` only.
* Locals C leaves uninitialised take any value: `next_stage` any of `StaleStages`, the first
  `dma_range` and `dma_consumer` anything.

History variables (`moved`, `dma_asked`, `dma_refused`, `owed`, and `disturbed` in the static
loop) are written and never read by the actions.

In the instruction modules the state is `cpu`, a record of the registers and page one:

* A byte has `Radix` numbers, 256 in the code; addresses are pairs of bytes, so the 16-bit
  arithmetic of the code, carries and wrap included, is `Plus`.  Bit 7 of a byte is `Negative`.
* SR is the set of its bits that are set.  A byte of the stack remembers whether it was pushed
  as a number or as a status.
* These instructions write nothing but page one; every other read returns the constant `ROM`.
  Instructions are chosen, not decoded: any of `Ops` may come next, at any address.
* `isa` is the dialect whose table the executor was given, part of the state and never changed
  by an instruction: the 65C02's handlers clear D, its indirect jump has no page-end bug (the
  6502's has it, the default of `DISABLE_JMP_PAGE_BOUNDARY_BUG`), and it has instructions of
  its own.
* `BalancedProgram` restricts programs: what is taken off the stack is what was put there
  last, by the matching instruction; the stack never holds more than the page; TXS is for an
  empty one; code, operands and pointers lie outside page one.  Programs that return through an
  address pushed by hand are legal 6502 code and not covered.
* The functions' `static` locals are `ADDR16` and `BYTE`, shared, and forgotten when an
  instruction begins: every function assigns them before it reads them.

History variables there: `kept`, what the program has on the stack, computed from the state in
which each instruction began and never read by the instructions themselves; `before`, that
state, which is also the refinement mapping: `Static == INSTANCE InstrStatic WITH cpu <- before`.

In `DataInstr` bytes and addresses have their real width, memory is RAM with a constant image
below what the instruction stores, and a state is one of `Start`.  Two things the C functions
read without having set them are inputs: `LeftOver`, what the `static` locals of a staged
function still hold from an earlier instruction, and `Junk`, what the uninitialised locals of a
static function hold (`flag_bits` among them).  A function is data, not an action of its own: the
sequence of steps of each call and mode, in the order of the source, which `Steps` executes.  That
keeps the twenty-odd instructions times two dialects times two functions readable beside the C.
The translation was compared with the compiled functions on 53,976 inputs; they agree except
where the C code reads an uninitialised local.

In `Membus`:

* A byte belongs to a *cell*, a module and an offset; `Target` and `Offset` say which cell an
  access through a module, or through its mirror, means.
* RAM starts as `Uninitialised`.  Modules are allocated before the bus is used; a mirror
  retains its original then.
* The cache indexes start at any of `FirstIdx`, since `membus_alloc` leaves them as `malloc` does.
* The `observer` is a module of the program's own that answers `observed`; none of the
  repository's modules does.  In the pre-op tier only observers are registered, as the read
  callbacks there get a null pointer, which the repository's modules write through.
* History: `registered` (what was registered, in order), `last` (the byte a program last wrote to
  each cell), `dropped`, `holds`, `pushed_r` and `pushed_w` (what the caches should give back).
  `last` is `Unknown` where the code itself does not keep a byte: the other half of a word, the
  last address of a fill that passes the end, the byte after the range of a load.  A write that
  reaches a word through two of its names zeroes both halves, and leaves neither known.

In `Watchpoints`, nodes are numbered in the order of their allocation, are never reused, and 0 is
NULL; the pointers `parent`, `left`, `right` and `child` are fields.  The two lists are sequences.
The callbacks of the lists are never compared and are left out; those of the tree identify a
watchpoint on its address.  History: `watched`, the addresses and events each live watchpoint was
asked for, and `damaged`: after the removal of a node with two branches, or of one whose parent
was freed, the model stops, because from there on searches may not end or read freed memory.

### Actions

Each action is the code between two points at which another thread can do something.  In
`ExecutorStaged`: `Launch` (lock, drop flags), `Fetch`/`FetchIllegal`/`LeaveLoop` (the while
condition, fetch and decode), `OpenWindow`/`CloseWindow` (unlock, lock), `StartDma`, `DmaStep`
(one cycle of the transfer and the do loop's condition), `ExecCycle` (one call of the opcode's
function), `OpenIntrWindow`/`CloseIntrWindow`, `ServiceIrq`, `ServiceNmi`, `ClearInterrupts`,
and the return.  `ExecutorStatic` differs where its loop differs: one transfer cycle per
iteration, with the lock let go in between, after an opcode has been fetched.  Verbose loops
are the same statements with calls of a reporting callback in between; the callback the
repository installs changes nothing.

The two services have neither lock nor loop.  `SignalService` is the signals as their callers see
them: a call acts at once (`Raise`, `AskStop`, `Reset`), an instruction begins only when no
interrupt is pending and no stop asked for (`Begin`), interrupts are taken between instructions,
the IRQ first, each leaving I set (`Take`), and the run returns between instructions with none
pending.  In `TransferService` a request (`Ask`) is refused while there is one, starts in the
middle of an instruction (`Start`), is carried out one byte a step (`Move`) to the end of its range
or a refusal, and the instruction's next cycle waits for it; the bytes of each range are counted
(`Span`) and placed (`MoveOf`) by arithmetic on the range, not by stepping through it.  The refinement mappings
read the loop's state: `pending` is `owed`, a request is the range as it was when the transfer
began, or else what the `dma` flag and its parameters say; windows, the lock, fetches of stages,
stalls, reads that have not been written yet and flags that are about to be cleared are hidden, and
the steps that change only those are stutters.

Client threads lock (`ClientLock`), change the executor and unlock (`ClientCall`); they are the
TUI thread of `system_6502.c`, or several.  In `ExecutorNolock` the loop does not lock, so
`flags |= x` and `flags &= ~x` are a `Load` and a `Store` and the setters' assignments are one
step each: the flag, the range, the provider and the consumer, of which one is NULL.
`Masked == INSTANCE ExecutorBase WITH flags <- keep` reuses the transfer there: its clearing of
the dma flag goes into the mask that the following load and store apply.

In `InstrStaged`, `Begin(op)` is the executor's fetch, or its finding an interrupt due (an IRQ
only while I is clear), and every other action one call of a staged function, its disjuncts
the cases of the function's switch in order: `Call(n, ...)` returns next_cycle, `End(n, ...)`
returns end.  In `InstrStatic` an action is one call of a static function.  NMI and IRQ have
static functions as well, but the static loop calls the staged ones (`executor.c:936`, `948`):
`NMI` and `IRQ` of `InstrStatic` say what the staged handlers should amount to.

In `DataInstr`, `Decode` is the executor's look at the dispatch record, `StagedCycle` one call
of a staged function, `StaticInstr` the call of a static one.  In `Membus` every public call is
one step: all but `membus_register_module`, `membus_free` and the reference counts hold `rw_lock`
from first to last; those take no lock, and programs of the repository make them before other
threads run.  In `Watchpoints` registration on an address is three actions (`RegisterRoot`,
`RegisterNode`, `RegisterAgain`) and removal four (`UnregisterListed`, `UnregisterBranch`,
`UnregisterChained`, `UnregisterStale`), one for each way through the C function; dispatch changes
nothing and is the walk `Visited` with the places where it calls, `Called`.

The instruction modules and the executor modules meet in two places: an instruction's number of
calls is `cycles_needed` there, and bit I is `intr_disable`.

## Runs

| Run | Configuration | Shows |
|---|---|---|
| `staged` | `MCExecutorStaged.cfg` | `SignalsHeld`, `AllOrNothing`, `DmaFaithful`, `DmaWhole`, `CacheRestored` in every interleaving with a client's three calls; `DmaDrains` with the launching thread fair, and `StopEndsRun`, `NmiTaken` unless the program hangs in an endless opcode; `ServesSignals` and `ServesTransfers`: the loop implements the abstract services |
| `staged_lock_leak` | `MCExecutorStaged_LaunchReleasesLock.cfg` | violation: a launch returns with the lock held |
| `static` | `MCExecutorStatic.cfg` | `SignalsHeld`, and `StoresInRange`: only a reset can redirect a running transfer; `StopEndsRun`, `NmiTaken`, `CacheRestored` while transfers are in progress; `ServesSignals`: it implements the service the staged loop does |
| `nolock_safety` | `MCExecutorNolock.cfg` | `AllOrNothing` and `CacheRestored` survive the races |
| `instr_stack` | `MCInstrStaged.cfg` | `ReturnsExact`, `StackMirrors`, `NoMarksInSR`, `InstructionsEnd`: six instructions deep, to a full stack and round the end of the page |
| `instr_same` | `MCInstrStaged_same.cfg` | `StaticAgrees`: the staged functions implement the static ones, branches and IRQ aside, in both dialects and from every address |
| `instr_irq` | `MCInstrStaged_irq.cfg` | violation: an IRQ does not reach its handler |
| `data` | `MCDataInstr.cfg` | every opcode of both dialects that loads, stores, computes or compares: `BehavesAsCpu`, `SameBothWays` and `CyclesAsCpu`, but for the combinations listed below |
| `data_physical` | `MCDataInstr_EveryCombination.cfg` | violation: some combination does not behave as the processor |
| `membus` | `MCMembus.cfg` | `ReadsBack`, `CopiesKept`, `PopsLatest`, `RefsKept` for overlapping modules registered in any order between the accesses |
| `membus_tiers` | `MCMembus_TiersKept.cfg` | violation: a new lowest tier takes the others off the bus |
| `watchpoints` | `MCWatchpoints.cfg` | `DispatchExact`, `ParentsLeadBack`, `AllFreed` after any registrations, merges and removals that leave the tree in order |

**Bounds.**  `CallBound` caps the calls of all clients together.  Two calls are the least that
can disturb one another (a request and a signal, a signal and a reset); three add a call that
meets the consequences.  One client makes them: where a call falls in the run is what matters,
and as a call holds the lock from its first statement to its last, two clients can only take
turns at what one does in sequence; without the loop's locking they still exclude each other.
The proofs are for any set of clients.  `AddrTop = 3` is the smallest space that
holds a two-byte range away from both ends, a range that reaches the last address (where `get_end` clips) and one that
starts there and wraps; the static instance adds an empty one.  `InstrCycles = {2, 3, Endless}`
gives an instruction that can be interrupted before its first call only, one that can be
interrupted between calls, and one that never ends; without the loop's locking the first is left
out.  `Recorded` bounds
the history `moved` by the number of addresses; without it a static-mode transfer whose range
never advances would make the state space infinite.  One launch is modelled to its end: since
the lock is never given back, a second one blocks, which is also why the runs do not check
deadlock (`CHECK_DEADLOCK FALSE`): after a return every thread waits for ever.

For the instructions, `Radix = 6` is the smallest byte that lets the three vectors fit the last
page and two interrupts fill the stack; six instructions (`MaxInstr`) are an interrupt, a call
and a push and their three returns, the deepest nesting that page holds.  `SP` starts where the
third push wraps.  BCC and BEQ stand for the branches there: both ways, and a target on another
page.  `MCROM` gives every address its own operand, targets and pointers at page
ends among them; `instr_same`, which asks about single instructions, starts at each of the 36
addresses in each dialect and runs two of them, so that returns and pulls have something to
take.  The runs stop at the bound, or when a program runs into page one, so deadlock is not
checked.

`MCDataInstr` takes all 256 opcodes of both dialects, both ways.  Without an address operand the
register, the operand and C and D run over the edges of sign, carry and decimal digits; with one,
the indexes stay in the page, leave it, and go round the zero page and the end of memory, and
operands and pointers lie across the end of a page; one pointer's bytes lie so that an index
crosses the page from one of them and not from the two OR'ed.  The two values of `LeftOver` and four of
`Junk` differ in every field, so that a result that depends on one shows.

`MCMembus` has twelve addresses in pages of two, six of them vectors: RAM under a page, a mirror
of the page that overlaps it, a write-only byte inside both, a word at the start of the mirror, a
read-only page over a vector, watchpoints, an observer, a shadow copy in the post-op tier, and
there too a second name of the word, one address below it.
`StepBound = 4`: three registrations and an access, two and two, or one and three; three
registrations are the least that put a module between two others, in one chain or in the tiers.
The caches have two slots and indexes of two bits that start at the last one, so that pushes and
pops go round both within a single range operation.

`MCWatchpoints` watches three addresses, the least that give a node two branches, with three
callbacks (interchangeable, hence the symmetry), the least that give a chain a node in its middle;
four nodes and five calls are such a tree with a chain of two, or a chain of three with a
neighbour, and a removal or two.  Both runs stop at their bounds, so deadlock is not checked.

**Fairness.**  `WF(CpuStep)`: the operating system keeps running the launching thread, and a
mutex that stays free can be had.  `WF(ClientCall(c))`: a thread inside a setter has only
straight-line code before it unlocks.  Nothing makes a client start a call, nor the program
end.  Because calls are bounded, weak fairness suffices for retaking the lock; a client that
called for ever could starve the loop, which neither POSIX nor the code excludes.  In
`InstrStaged`, `WF(Step)`: the executor's do loop calls the function until it returns end.

## What is proved

| Module | Theorem | States |
|---|---|---|
| `ExecutorStagedProofs` | `TypeCorrect` | `Spec => []TypeOK` |
| | `SignalsAreHeld` | `Spec => []SignalsHeld` |
| | `InstructionsAllOrNothing` | `Spec => []AllOrNothing` |
| | `TransfersFaithful` | `Spec => []DmaFaithful` |
| | `TransfersWhole` | `Spec => DmaWhole` |
| | `CachesRestored` | `Spec => CacheRestored` |
| | `SignalsServed` | `Spec => ServesSignals`: the loop implements `SignalService` |
| | `TransfersServed` | `Spec => ServesTransfers`: the loop implements `TransferService`, for every range |
| `ExecutorStaticProofs` | `TypeCorrect` | `Spec => []TypeOK` |
| | `SignalsAreHeld` | `Spec => []SignalsHeld` |
| | `StoresStayInRange` | `Spec => []StoresInRange` |
| | `CachesRestored` | `Spec => CacheRestored` |
| | `SignalsServed` | `Spec => ServesSignals`: the loop implements `SignalService` |
| `ExecutorNolockProofs` | `TypeCorrect` | `Spec => []TypeOK` |
| | `InstructionsAllOrNothing` | `Spec => []AllOrNothing` |
| | `CachesRestored` | `Spec => CacheRestored` |
| `InstrStagedProofs` | `TypeCorrect` | `Spec => []TypeOK` |
| | `StackIsMirrored` | `Spec => []StackMirrors` |
| | `MarksStayOut` | `Spec => []NoMarksInSR` |
| | `ReturnsAreExact` | `Spec => ReturnsExact` |
| | `StagedIsStatic` | `Spec => StaticAgrees`, for programs without branches and IRQ |
| `MembusProofs` | `TypeCorrect` | `Spec => []TypeOK` |
| | `CachesPopLatest` | `Spec => []PopsLatest` |
| | `RefsAreKept` | `Spec => []RefsKept` |
| | `CellFacts` | an access that a module takes reaches a byte that the module has, through a mirror too |
| | `ReleasedKeeps` | a release keeps the accounts of references, and frees with the last one |
| | `DoIntersectExact` | `memory_addr_range_do_intersect` is true exactly of ranges that share an address |
| | `IntersectionExact` | the intersection includes exactly the addresses both include |
| | `UnionExact` | the union of two ranges that meet includes exactly the addresses either includes, unless that is all of memory, whose length, a 16-bit number, is 0 |
| `MembusReadsProofs` | `ReadsBackAlways` | `Spec => []ReadsBack` |
| | `CopiesAreKept` | `Spec => []CopiesKept` |
| | `OrderHolds` | the bus is in the order of its registrations, and holds what a program may rely on |
| `WatchpointsProofs` | `TypeCorrect` | `Spec => []TypeOK` |
| | `DispatchIsExact` | `Spec => []DispatchExact` |
| | `ParentsLead` | `Spec => []ParentsLeadBack` |
| | `AllAreFreed` | `Spec => []AllFreed` |

Each of these modules but `MembusReadsProofs` also proves `Invariance`, `Spec => []IInv`: its theorems rest on one
inductive invariant, which is defined beside the properties in the module it is about and was
checked by TLC on the instances of the runs before it was proved.

### The loops

The theorems hold for every set of clients, every address space, every set of requested ranges,
every instruction timing and every `CallBound`.  The assumptions are those named in the modules:
the launching thread is not a client and `Free` is no thread (`ThreadsAssumption`); there are at
least two addresses (`AddrTopAssumption`); ranges are pairs of 16-bit values
(`DmaRangesAssumption`); an instruction has two calls or more, or never ends
(`InstrCyclesAssumption`); the
uninitialised `next_stage` is one of two stages (`StaleStagesAssumption`); calls are counted
(`CallBoundAssumption`).

The staged loop:

* `LockInv`: the launching thread holds the lock exactly outside the windows.  None of the
  properties is inductive without it: it is what keeps clients out between the interrupt check
  and the clearing of the flags, and out of `dma_range` during a transfer.
* `SignalInv`: an interrupt is owed exactly while its flag is set, except at the interrupt check,
  where it is owed no more once it has been served or masked; nothing is owed when the flags are
  cleared and when the loop comes round.  For `SignalsHeld` it would do that what is owed has its flag; for the
  refinement it must be an equality, because a flag that nobody owed would be served and set I
  without an interrupt having been raised.
* `StageInv`: which stage may be saved when.  An uninitialised or restored `end` stage can only
  occur before the first call, so an instruction ends after all its calls or none.  Within the do
  loop the count lies between its ends, or the opcode is endless (`InMiddle`, `OneMoreCall`).
* `TransferInv`: after n bytes the index and the address stand n beyond their start, modulo the
  size of memory, and on odd cycles one of them has already moved on and the byte in hand is the
  n-th.  It holds for every range, the improper ones included.

`SpanFacts` says what `Span` has to do with the code's loop, which ends when the address it has
advanced to equals `get_end`: of the first `Span` addresses of a range only the last leads there.
It is where the empty range, the clipped one and the one that starts at the top are told apart, and
the only place.  `TransferCycle` has a case for the stall, the read and the write; a write moves
one byte (`WriteRecords`) and either ends the transfer or leaves it one further (`WriteAdvances`).
`DmaFaithful` and `DmaWhole`, which speak of `Proper` ranges, follow by `ProperSpan`.

`SignalsServed` and `TransfersServed` have one lemma for what clients do (`SignalsCall`,
`TransfersCall`) and one with a case for each action of the loop (`SignalsLoop`, `TransfersLoop`):
each maps to one named step of the service or to a stutter.  The cases that need the invariant are
those where the loop decides by a flag: that `Fetch` is a `Begin` and `LeaveLoop` a `Return` takes
`SignalInv` at the while condition, that an interrupt served was pending takes it at the check, and
that the write that ends a transfer is the last `Move` takes `TransferInv` with `SpanFacts`.

The static loop lets go of the lock between the cycles of a transfer, so the lock does not protect
its range.  What does is the flag: a request made while the `dma` flag is set is refused, and the
flag stays set until the transfer ends unless a reset clears it, which `disturbed` records
(`TransferInv`).  `PlaceInv`, where in the loop a transfer can be in progress, is needed to know
that no window opens between the taking of a request and the copying of its range.

Its signals are served as in the staged loop, by the same `SignalInv` for its labels and the same
kind of proof (`SignalsServed`).  Transfers are not: `TransferService` would be false of it, since
a reset withdraws a request that is under way and the parity it shares with fetches keeps it from
moving bytes at all (see below).

The loop without locks has no `LockInv` at all: its invariants speak of variables no other thread
writes.  `MaskInv` says that a mask is in use only between the load and the store that apply it, and
where the loop then goes on; `Place` counts that load and store as the place they lead to, so that
`StageInv` is the staged loop's, place for place.  `CallInv` says what a client has in hand between
two assignments of a torn call.

### The instructions that move PC or SP

The theorems hold for every `Radix` from 6 (`RadixAssumption`: the vectors need six bytes of the
last page; the code's 256 is one of them), any contents of memory (`ROMAssumption`), any starting
states without marks in SR (`StartAssumption`) and programs of any length (`MaxInstrAssumption`)
over any of the instructions (`OpsAssumption`).

Between instructions, `Sound`: the entries the program has on its stack lie below SP in their
order, around the end of the page, each byte where it was put (`Mirrors`); a status lies on a
saved PC, low byte on high byte, and each entry's byte is of its kind (`Nested`); SR has no marks.
None of these is inductive without the others: a push keeps `Mirrors` because a balanced program
never has more than a page on the stack, and RTI restores three bytes because a status is never on
the stack without the PC below it.

Within an instruction, `Progress`: for each function and each cycle, the processor is a stated
function of the state the instruction began in, and so are the `static` locals that a later call
reads.  One lemma per function shows that each call leads from one of these states to the next
(`NMIStep` to `BranchStep`); the last call leads to what the static function gives.
`ReturnsAreExact` and `StagedIsStatic` follow from what `Progress` says of the last call; the
refinement mapping is `cpu <- before`, so every call but the last is a stutter.

`StagedIsStatic` leaves out two kinds of instruction because the two versions really differ there:
static branches compute a target and do not go there, and the staged IRQ stops after its pushes.
The invariants and `ReturnsAreExact` include them.

### Address ranges

For every size of memory (`RangeTopAssumption`: at least two addresses) and all ranges that do not
pass its end (`Fits`).  The arguments go from lengths to last addresses and back (`FinalInRange`,
`LoHiExact`), which is where 16-bit wrap must be excluded.

### The memory bus

The theorems hold for every finite set of modules of every kind and mode, any registrations of
them in any order, every size of memory and of pages, and any sequence of accesses.  The
assumptions, named in the modules:

* `DeclAssumption`, `PageAssumption`: a mirror is not a mirror's; a page has at least one byte,
  and pages fill memory.
* `ModuleAssumption`: there are finitely many modules.
* `NamesAssumption`: the two special tiers differ, as `INT_MIN` and `INT_MAX` do, and the vectors
  are no module.
* `VectorsAssumption`: memory has room for the vectors.
* `CacheAssumption`: the number of slots of a cache divides that of its indexes, as 8 does 256.
* `RegistrationsAssumption`, `AccessAssumption`, `HeldAssumption`, `StepBoundAssumption`: what is
  registered or held was allocated, what is read and written are addresses and bytes, and
  only observers go into the pre-op tier, where read callbacks are given a null pointer.

Three arguments make up `IInv`:

* `CachesInv`: a cache holds what was pushed last in the slots below its index, the latest first.
  A push keeps it because indexes less than a cache apart have different slots, and because the
  slots go on where the index wraps (`SlotFacts`, `PushStacks`, `PopStacks`).  `PopsLatest`, which
  speaks of the next pop only, is not inductive: what a pop uncovers was pushed before.
* `RefsKept`, the accounts of references, is inductive with `ChainsInv`.  A registration adds one
  place to the chains and one to the count (`WithTierFacts`); what it does to tiers that are lost
  moves places from the bus to `dropped`, never both or neither.  A release gives up one of either, and
  frees at zero, which takes one from the module it mirrors in the same call (`ReleasedKeeps`).
  `membus_free` does so for each place on the bus (`ReleaseAllKeeps`).
* `TypeOK` rests on what the callbacks and the walks do: `CellFacts`, and that each step of a walk
  of a chain, a fill or a load leaves the type as it was.

`ReadsBack` and `CopiesKept` hold by two more invariants, in `MembusReadsProofs`:

* `OrderInv`: the ordinary tiers ascend, and each chain is that of the registrations of its tier in
  the order `Before`, which decides which of two modules an address means.  A registration keeps
  it wherever it finds its place: before the first module that does not begin lower (`OrderInsert`),
  in a tier of its own (`OrderAlone`), or in the special tiers (`RegisterOrder`).  So the walk stops
  at the module that `Meant`, which knows only the registrations, picks (`WalkFinds`, `ReadMeans`).
* `LastInv`: every byte that a program may rely on is held by its cell.  One write changes
  the cell it means and the copies of the post-op tier, and nothing else (`ByteWritten`,
  `PostOpsWrite`), which is what the history says (`KeptFacts`, `WriteAgrees`).  Fills, copies and
  loads are folds of writes, and the history a fold of the same writes; they agree step by step
  (`FoldsAgree`).

Both hold until a tier is lost, and are not part of `IInv`, which holds afterwards too.  The lemmas
on folds are stated once for each operation, as no lemma can have an operator as its parameter.

The proof corrected the history: it used to keep the other half of a word that a write reaches
both through the word and through a mirror of it one address off.  The code zeroes each half in
turn (`membus_module_word.c:43`), so neither is known; the instance has such a mirror now, and
TLC reports `ReadsBack` for the former definition.

A walk is a fold over a chain, and counting places goes over sequences of chains, so the lemmas
need induction over lengths.  The library's induction theorems cannot be used, as none of the
provers instantiates their operator; `NatInduct` states induction for a set of numbers instead,
and `NatLeast` derives it from a least element.  `IterExists` and `IterStays` then say that a fold has a value
for every beginning of its sequence, each from the one before, and of the type each step keeps.

### The watchpoints

The theorems hold for any watched addresses and ranges of a memory of any size
(`WatchedAssumption`: they are addresses and ranges), any callbacks, event masks of reads, writes
and merges (`RequestsAssumption`), allocation modes of the three there are
(`AllocModesAssumption`), and any number of watchpoints and calls.  Until `damaged`, `IInv` says:

* `PointersInv`: each node of the tree and its chains is the root or hangs in exactly one place, and
  its parent is the node it hangs under, or a freed one if it hangs in a chain.
* `ChainsInv`: a chain leads from older nodes to younger ones of the same address, and only its
  head has branches.  So chains end, and a walk along one meets each node once (`ChainFacts`).
* `SearchInv`: nodes have a rank that grows downwards, so searches end (`LandingEnds`), and a
  region, the addresses whose search passes them, within which the branches divide at the node's
  address.  An ordered tree alone is not inductive: what a search finds depends on every node above.
  With it a search passes every head whose region has the address (`SearchPasses`), and the chain it
  finds is that of all the nodes of the address (`ChainOfAddr`).
* `ListsInv`, `WatchedInv`: the lists hold the live nodes of their kind, each once, and the history
  is what the nodes have.

A registration hangs the node in a free place; the regions along the search grow by the address
(`AttachedSearch`).  A removal puts one node in the place of another: `HeldAfter` says who then
holds each node, for a successor from the chain and for an only branch alike, and `MovedPointers`,
`MovedChains` and `MovedSearch` follow from it; the successor takes over the rank and the region.
Searches, chains and spines are recursive functions; `WalkExists` gives each a value for every
number of steps.  TLC checked `IInv` on the instance of the run with explicit ranks (the depth of a
node) and regions (the addresses whose way down passes it).

### Only model-checked

* Liveness, which TLAPS does not reach: `StopEndsRun`, `NmiTaken`, `DmaDrains`, `InstructionsEnd`.
* `DataInstr`: its properties quantify over the table of instructions, a finite question that TLC
  answers whole for every opcode.

## What the checks found

Each violation run names a line of the repository that says otherwise.

1. `staged_lock_leak`: every locking loop returns without unlocking (`executor.c:566`).
2. `instr_irq`: the staged IRQ function gives up after pushing three bytes (`IRQ.c:9`), because it
   tests I again after it has set it; the program goes on with them on its stack.
3. `data_physical`: SBC complements its operand in 16 bits, so its carry comes out inverted
   (`SBC.c:121`).  The run stops there; the other combinations are listed below.
4. `membus_tiers`: a tier that becomes the first is stored as the root without a link to the tiers
   there were (`membus.c:256`), which are never reached nor freed again.

### In the executor and the instructions that move PC or SP

Stated as definitions of the modules, which the code does not keep; a configuration with one of
them as its only INVARIANT or PROPERTY gives the trace:

* The stage saved at `executor.c:476` is uninitialised before the first cycle, and an instruction
  can vanish (`ExecutorStaged!EveryCycleRuns`).
* An opcode whose staged function never returns *end* (LDX zp,Y and abs,Y, which the table has at
  `isa_6502.c:422` and `424`; STA (zp,X) and (zp),Y; ADC and SBC (zp) of the 65C02) keeps the loop
  at `executor.c:464` for good: no stop and no NMI is looked at again, although
  `executor_set_exec_stop` is to "signal the executor that it should halt execution"
  (`executor.h:210`, `ExecutorStaged!StopAlwaysEndsRun`, a PROPERTY).  `StopEndsRun` and `NmiTaken`
  say that nothing else keeps a stop or an NMI from being honoured.
* In static mode fetches and transfer cycles share a parity (`executor.c:880`): a transfer only
  ever reads or only ever writes, unless an NMI's five cycles come in between
  (`ExecutorStatic!BytesSupplied`).
* Without locking a stop, NMI or IRQ can be wiped out (`executor.c:1325`,
  `ExecutorNolock!SignalsHeld`), and a transfer can start from a half-written request and call NULL
  (`executor.c:1865` and `1892`, `ExecutorNolock!NeverCallsNull`).
* In static mode no branch is ever taken (`BCC.c:35` and its seven siblings, and BRA); `instr_same`
  leaves branches out.
* Table entries nobody fills in (block C = 3 of the opcodes, and others) have a null function and
  the mode 0, which is *accumulator*; the loops test for the mode *undefined* only
  (`executor.c:456`) and call NULL (`DataInstr!IllegalStops`; `isa_6502.h:294` says the mode is
  undefined).

Against the 6502's own behaviour rather than a statement of the repository: BRK jumps through the
NMI vector, and JSR pushes the address after its operand, which RTS expects.

Also in the models: a range that reaches `$FFFF` is moved without its last byte, an empty range
moves one byte, and one that starts at `$FFFF` wraps round the whole memory (`DmaFaithful` and
`DmaWhole` speak of `Proper` ranges; `TransferService!Span` says how many bytes each range moves); a second request is dropped silently; each cycle of a
static-mode transfer eats an opcode of the program (`executor.c:858`); a static run that stops
during a transfer leaves the bus's caches off; the static loop counts the fetch twice
(`executor.c:834` and `875`).

### In the other instructions

The exceptions of `BehavesAsCpu` (`Unhandled`, `WrongOperand`, `WrongResult`, `WrongFlags`,
`WrongDecimal`) and of `CyclesAsCpu` (`WrongTime`); a prime marks the 65C02's version:

| Instruction | Way | What differs |
|---|---|---|
| SBC | both | C is inverted; decimal mode is wrong |
| ADC, SBC | static | `flag_bits` is not initialised |
| CMP, CPX, CPY | both | N |
| BIT' immediate | both | sets N and V |
| LDA (zp,X), (zp),Y, LDA' (zp) | staged | reads from another address; (zp),Y decides by the two bytes of its pointer OR'ed whether it leaves the page, so it may take a cycle too many or too few |
| CMP in the zero-page modes | staged | ends at the first call, with the operand of an earlier CMP |
| CMP absolute | staged | reads at `ADDR8` |
| LDX zp,Y and abs,Y | both | no case for the mode: staged never ends, static loads junk |
| ADC' and SBC' (zp), STA (zp,X) and (zp),Y | staged | never end |
| STZ' zp | staged | stores at a stale address |
| DEC' A | both | increments |
| ASL' A, ROR' A | staged | rotate left |
| ASL, LSR, ROL, ROR on memory | staged | shift twice and store nothing |
| ADC, AND, EOR, ORA, SBC abs,X and abs,Y | static | read at an uninitialised `ADDR8` |
| LDX, LDY zp,X, abs, abs,X; BIT' abs,X | static | one cycle too many |
| TRB', TSB' absolute | staged | one cycle too few |

### In the bus and its modules

Besides the lost tiers: the creator's reference is not counted (headers start at 0), so a program
that releases a module after `membus_free`, as `nes_mockup.c:262` does, releases freed memory;
the models only release what they retained.  A refusal (`not_accepted`) ends the whole walk, so a
write-only byte hides the RAM under it from reads.  The default RAM and a watchpoint module
without a range have length `$FFFF` and miss the last address.  A byte written to a word module
zeroes its other byte (`membus_module_word.c:43`).  Fills and copies that pass the end of memory
leave out the last address, while a dump goes on at address 0; loads ask for one byte more than
their range holds and write it (`membus.c:605`, `639`).  Watchpoints in an ordinary tier accept
the accesses they should look on at.  A peek at an empty cache would read index -1; nothing peeks.

### In the watchpoints

The removal of a node with two branches and no second watchpoint on its address puts the end of a
branch in its place without taking it from where it was: the branches form a cycle, and what hung
below that end is lost.  A removal inside a chain does not correct the parent of the next node,
whose own removal then reads freed memory (`ParentsLeadBack` says that it is the only such case,
and that no node with branches is hit).  A registration that finds its callback on the address
keeps the old context; the first node keeps the merge bit in its mask.  The header declares
`membus_module_watchpoints_unregister`, the source defines `membus_watchpoint_unregister`.  The
allocation leaves the three roots uninitialised; `Init` takes them to be null.

## Not modelled

* `disasm_6502.c`, `tui_window.*`, `nes_mockup.c`, `membus_test.c` and the printing and parsing of
  `system_6502.c`: text, curses and demonstrations.  What they do to the bus and the executor is
  among the actions (`membus_rcache_pop` is the disassembler's way back).
* The front end's option `-n`, which frees the executor and allocates another while the TUI thread
  holds the old pointer (`system_6502.c:606`): a question of who uses freed memory, for which the
  models would need allocation; they have one executor, allocated before any thread starts.
* The static loop launched with `nolocks`: it combines the parity of `ExecutorStatic` with the
  races of `ExecutorNolock`.
* Two threads on one bus: `rw_lock` makes its calls steps.  Registration takes no lock; that it
  happens before the threads start is assumed.
* Callbacks that register or remove watchpoints while they are called.
* `memory_addr_range_get_end_with_wrap` and the cache peeks, which nothing calls.

## What could come next

* The loops launched with `nolocks` against the services: the staged one loses signals
  (`ExecutorNolock!SignalsHeld` does not hold), so it needs a weaker service that says which
  signals may be lost; the static one needs a module first.
* One processor: `InstrStaged` and `DataInstr` composed with `ExecutorStaged` over `Membus`.  The
  parts meet in the two places named under *Actions*, and each is checked against the choice of
  the other's behaviours that its bounds leave.
