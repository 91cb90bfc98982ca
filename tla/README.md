# A TLA+ model of the GHDL run-time kernel, its wave files and its GCC back end

GHDL compiles VHDL to machine code and links it with a run-time library, GRT
(`src/src/grt`). This directory models three parts of it:

* the **kernel** of GRT, which runs the processes, keeps the projected waveforms of
  their drivers, finds the next time at which something happens and calls the user's
  callbacks. A mistake there needs several processes and several cycles to show;
* the **wave files** in the two binary formats, FST and GHW: what the simulator writes,
  and what the readers beside it (`fstapi.c`, `ghwlib.c`, `ghwdump.c`) find in a file
  that is complete, or that was left by a program that was killed;
* the **GCC back end** (`src/src/ortho/gcc`), which builds GCC's trees from calls that come
  in any nesting, with lists and levels that are saved, restored and recycled.

TLC checks the modules on small designs, traces and clients. For the four components of
the kernel TLAPS proves what TLC checks, for all designs: the scheduler and the chains of
active signals keep their invariants, the drivers implement the rules of the language
reference manual, and the linked cells of the callbacks implement the lists of
`grt-callbacks.ads`.

## The system

### Components, their state and their operations

| component (`src/src/...`) | state | operations | modules |
|---|---|---|---|
| scheduler, `grt/grt-processes.adb` | state, timeout and resumed flag of each process; timeout chain and `Process_First_Timeout`; two resume tables; the clock | wait statements, `Resume_Process`, `Run_Processes`, `Initialization_Phase`, `Simulation_Cycle`, limits | `Processes` |
| drivers, `grt/grt-signals.adb` | a list of transactions per driver | `Ghdl_Signal_Start_Assign`, `Ghdl_Signal_Next_Assign`, use of the transactions | `Waveforms`, `Driver`, `ProjectedWaveform`, `Subsequences` |
| signal activity, `grt/grt-signals.adb` | active, next active and future chains; direct drivers and `Is_Direct_Active` | assignments of every kind, `Find_Next_Time`, `Flush_Active_Chain`, `Update_Active_Chain`, `Update_Signals` | `Signals` |
| callback lists, `grt/grt-callbacks.adb` | linked cells, recycled cells, `First_Timeout` | register, delete, `Call_Callbacks`, `Call_Time_Callbacks` | `Callbacks`, `CallbackQueue`, `Subsequences` |
| FST files, `grt/fst/*.c`, `grt/grt-fst.adb` | value changes in memory, time table, blackouts, `.hier` and the file; the cache of a query | declarations, value and time changes, flush, close, repack; open, iterate, query | `FstCodec`, `Lz4`, `FastLz`, `FstPackers`, `FstHier`, `FstWriter`, `FstReader`, `Fst` |
| GHW files, `grt/grt-waves.adb`, `ghwlib.c`, `ghwdump.c` | string, type and section tables, numbers of the signals; what is read | `Wave_Start`, snapshot, cycles, `Wave_End`; header, values, directory, display | `GhwCodec`, `GhwTypes`, `GhwHier`, `GhwDump`, `Ghw` |
| GCC back end, `ortho/gcc/ortho-lang-7.c` | binding levels, statement lists, current function, chains of declarations | the calls of the ortho interface | `OrthoTree`, `OrthoExprs`, `Ortho`, `OrthoRuns` |
| nets and implicit signals, `grt/grt-signals.adb` | propagation table, implicit active chain, forced values | `Run_Propagation`, `'stable`, `'quiet`, `'delayed`, force and release | - |
| VPI, VHPI, secondary stack, hooks, files, VCD, SDF, options, RTIs, PSL reports (`grt/`) | handles, tables filled once, open files | navigation, output, start-up | - |
| front end (`vhdl`), translation, interpreter, synthesis, PSL compiler, other code generators, containers, libraries, driver program | the tree, tables | passes over them | - |

`PROJECT.json` has the complete list, with what is left out of each part and why, and
maps every definition to the lines it translates.

### How they interact

One thread runs everything. `Simulation_Main_Loop` calls `Simulation_Cycle`:

1. the clock takes `Next_Time`, computed at the end of the previous cycle;
2. the next-time-step callbacks and the timeouts of `Cb_After_Delay` are called
   (*Callbacks*), then `Update_Signals` uses the transactions of the signals of
   the active chain (*Signals*) and resumes the processes sensitive to an event
   (*Processes*);
3. the timeout chain is scanned if `Process_First_Timeout` is now;
4. the resumed non-postponed processes run. They assign to drivers
   (*Driver*, *Signals*) and suspend in a wait statement (*Processes*);
5. `Compute_Next_Time` takes the minimum of the timeouts and asks
   `Find_Next_Time`, which also prepares the chain of the signals active then;
6. if time is about to advance: last-known-delta callbacks, postponed
   processes, end-of-time-step callbacks, each followed by a new computation.

The wave writers are hooks of this loop: they put the design at the start, a snapshot
before the first processes run, and the changed signals at the end of each time step
(*Ghw*) or of each cycle (*Fst*). Another program, later, reads the file; the file is
the only thing the two share. The GCC back end is called by the translator, in another
program still: it has nothing to do with the kernel but the code it emits.

The interfaces between the kernel modules are values: *Processes* lets
`Update_Signals` put events on any set of signals and lets the signals be active
at any time from now on; *Signals* lets the earliest timeout be any time and lets any
process assign to any driver; *Callbacks* lets time advance to any time up to
its first timeout; the wave modules let any signal change in any cycle. Each of these
environments does more than the neighbour module does, so a safety property that
holds of a module holds with the neighbour in place. One thing is missing from
*Processes* and *Callbacks*: after a late element (see *Signals*) the time may go back.

### What is hard

* Caches of a minimum (`Process_First_Timeout`, `First_Timeout`) and membership
  flags encoded in a link field (`Sig.Link`, `Sig.Flink`) that several
  operations must keep right.
* A process woken by a timeout stays in the timeout chain until it runs, and a
  postponed one runs many delta cycles later.
* `Next_Signal_Active_Chain` is computed before callbacks and postponed
  processes run, and must be thrown away each time they may change the future.
* Pulse rejection edits the list of transactions it is scanning, and may undo
  what put the signal on the active chain.
* Overflow checks are off (`pragma Suppress` in grt-processes.ads:35 and
  grt-signals.ads:34, `grt.adc`:49): a sum of times wraps.
* Callbacks change the list that is being walked, and cells are recycled.
* A file is finished by rewriting what was already written (counts, tags of sections,
  the copy that replaces it), and the program may be killed between any two of these
  steps.
* The FST reader keeps tables from one section to the next and a cache from one query
  to the next; the writer shares chains between signals with the same changes.
* The type of a GHW signal depends on the instance it is in; sections are found by
  positions that every function that writes has to count.
* Nested subprograms, branches and regions are built in the middle of each other, in
  lists that the back end saves and restores; levels are recycled with their contents.

The list of hazards with their lines, and the properties that watch over each
one, is in `PROJECT.json`.

## The modules

### Processes: the scheduler

State is that of `grt-processes.adb` under the names of the source. The chain
and the tables are sets, because their order decides only the order in which
processes run, and VHDL leaves it open: `Dispatch` takes any process of the
table. `pc` is the place in `Simulation_Cycle`; each numbered step of the code is
an action. A running process picks any of the wait statements the compiler can
emit (`Execute`; the call sequences come from `trans-chap8.adb`, 3428 to 3552).
`deadline` is a history variable: when the pending timeout clause should end, in
unbounded integers, and `first` another: no cycle has begun. `Std_Time` is `-(TimeHigh + 1) .. TimeHigh`, so that a wrapped
sum is negative as in the code. `FarTimeouts` says whether a design may reach
past `TIME'HIGH` in `wait on s for t`.

### Waveforms, Driver, ProjectedWaveform: one driver

`Waveforms` is the algorithm on the list of transactions, `Driver` adds the
clock, the wrapped sums and the errors. `ProjectedWaveform` is the reference: the
rules of LRM93 8.4.1 with the *marking* formulation the comments quote, and
unbounded time. A rule there says "a transaction is marked if ...": `Obey` says that a set
of marks obeys the rules, and `Marked` is the least such set. `Driver` refines it. Both have the history variable `request`, the
last waveform element asked for, so the refinement compares effects of the same
assignment. Every element may have any delay, from a negative one to one that reaches past
`TIME'HIGH`: there the reference says what a list of times that fit should do.
`Ghdl_Signal_Next_Assign` does not look at the sign of its delay, it compares with the last
transaction. That is enough after a first element that is in the list. One past `TIME'HIGH`
is not, and if nothing is pending then the code takes a second element for now or for the past. The history
variable `late` remembers this. The reference says it is an error, so `late` is mapped to
its `failed`: the departure is stated there (`Continue_Error`), and what the kernel makes
of such an element is for *Signals*.

### Signals: who is active, and when

All drivers of a design whose nets need no propagation (`Net_One_Driver`,
`Net_One_Direct`, `Net_One_Resolved`). The three chains are sets; `Sig.Link /= null`
is membership in either active chain. The steps of `pc` are the places in the cycle
where the chains change: `run` (processes), `last` (Tn computed, time will
advance), `postponed`, `end`, `update`. A null pointer that would be followed ends
in the outcome `crash`, `Internal_Error` in `internal_error`.

A first element past `TIME'HIGH` is freed and the procedure returns, with the signal on the
future list (`Start_Assign_Beyond`). The waveform goes on, and an element without a positive
delay is then put in the list of the driver but on no chain. The history variable `late` says
that this has happened. `Find_Next_Time` finds such an element by the future list: it
ends in `Internal_Error ("find_next_time(2)")` if it is due now, and takes the time back if
it is in the past. Properties that the code breaks in this way say so: `OnTime` and the last part of
`ActiveExact` are about the time before a late element, `NoFailure` lets that internal
error happen after one (a null pointer never), `FutureCovers`, `SharedSettled`,
and the flags of `ActiveExact` ask for no such thing. The delays in error are in *Driver* only.

### Callbacks, CallbackQueue: the callback lists

`Callbacks` has the cells, their links, the recycled list, and the local variables
of the two walks, so that a callback can register and delete while a walk is in
progress. `Chain` is the sequence of the cells that the links make from a given one.
`CallbackQueue` says what `grt-callbacks.ads` promises with sequences and
no cells. A handle is forgotten by the client when its cell is freed: using it
later is an error of the client, not of this package.

### FstCodec, Lz4, FastLz, FstPackers, FstHier, FstWriter, FstReader, Fst: FST files

`FstCodec` has the encodings of the format on bytes (variable length integers, the
chain of changes of one signal, the table of positions), `Lz4` and `FastLz` the two
packers that are part of the repository, each with its unpacker; zlib is external and
taken to invert itself. `FstPackers` chooses one of the three by the letter of the packing; the
writer and the reader have the packing as two constants (`PackBlock`, `UnpackBlock`), to which
the configurations give these definitions, so that what is proved holds for any packer. The hash tables of the packers are abstracted: a collision only
hides an older position. `FstHier` has the bytes of the hierarchy and both functions
that read them.

`FstWriter` is the writer as GHDL drives it, without threads
(`FST_WRITER_PARALLEL` is not defined). Changes are kept in memory; a flush writes them
as a section, whose tag says "skip" until all of it is on the disk; closing writes the
geometry, the interruptions and the hierarchy, and may pack the whole file in a copy
that replaces it. An action ends where the code flushes its buffers, so that the program
may end between any two actions. A position in memory is the rank of a change, a
position in the file a number of blocks.

`FstReader` is the reader as functions of what is on the disk: opening a file (or the
packed copy of one), iterating over the sections, with the tables that survive from one
section to the next, and asking for one value, with the cache that survives from one
question to the next. At the last time of a section that another one follows, the code reads
the next header one byte after the beginning of the section it is in (fstapi.c:5763): a
block type and a length made of bytes of other fields. What it finds then is not determined,
and the cache is `lost` in the model. `Fst` is `grt-fst.adb` as the client of the writer, with two
histories (`emitted`, and how much of it was `flushed`); the properties ask the reader
what it finds in every state.

### GhwCodec, GhwTypes, GhwHier, GhwDump, Ghw: GHW files

`GhwCodec` has the numbers, the two orders of bytes and the compressed table of strings.
A read is a function from a position (and whether all went well so far) to the next one,
chained with `Then` and `Mapped`: the error paths of the reader are those of `Then`.
`GhwTypes` collects the types of the design per instance (`Find_Type`: the bounds of a
subtype may come from a generic), puts them and reads them back; `GhwHier` walks the
design twice, as the writer does, numbers the signals and builds the reader's tree;
`GhwDump` reads the whole file as `ghwdump` does, selection of signals included. `Ghw`
is the writer over time: header, snapshot, one cycle section for a run of time steps,
directory and tailer, with the history of the values that should be found.

### OrthoTree, OrthoExprs, Ortho, OrthoRuns: the GCC back end

`OrthoTree` has what each call does to the nodes: one record `o` with the static variables
of the file and the nodes allocated so far, by number. `OrthoExprs` has the operators,
literals, conversions to integers and aggregates; what GCC computes for a tree code is
external. `Ortho` is the client: it makes any sequence of calls the interface allows and
keeps the text of what it asked for, and, with each open construct, the statement list that was
the current one after it began (`list`, for the properties). `OrthoRuns` compares the two: both are run on the same
stream of conditions, the tree by following its jumps, the text by its structure. The runs are
recursive operators; the modules before it have none, so that the calls can be reasoned about
(`Met` follows a link by a recursive function). The assertions of the source are guards of the
client. The files for GCC 4.9, 5 and 6 differ from the
one for GCC 7 by what they call of GCC.

Each module contains some `Mut_X` operators: a plausible slip in `X`. Replacing `X`
by `Mut_X` must make a property fail, which shows that the property is sensitive to
the code.

## What TLC checks

| run | module, cfg | question | result |
|---|---|---|---|
| scheduler | MCProcesses, Processes.cfg | tables, chain and clock consistent; nobody late; `--stop-time` kept; timeouts are taken, simulations end | holds |
| driver | MCDriver, Driver.cfg | the driver implements LRM93 8.4.1, its list stays in order | holds |
| signals | MCSignalsPair, Signals.cfg | chains exact, nothing out of sight, transactions on time, dropped assignments harmless, no failure | holds |
| callbacks | MCCallbacks, Callbacks.cfg | the cells implement the queue | holds |
| fst | MCFst, Fst.cfg | what was flushed is read, wherever the program ends; queries, windows, hierarchy, encodings | holds |
| ghw | MCGhw, Ghw.cfg | types, hierarchy and values read back, cut files included; directory, selection | holds |
| ortho | MCOrtho, Ortho.cfg | the trees do what was asked; stack, levels, blocks, symbols, operators, aggregates | holds |
| scheduler_postponed_timeout | Processes_postponed_timeout.cfg | "process in timeout" unreachable | **violated** |
| signals_null_transaction | MCSignals, Signals_null_transaction.cfg | no null pointer followed | **violated** |
| signals_lost_direct | Signals_lost_direct.cfg | direct assignments are not lost | **violated** |
| signals_late_callback | Signals_late_callback.cfg | transactions on time | **violated** |
| fst_stale_length | MCFst, Fst_stale_length.cfg | a reader finds what was flushed | **violated** |

What the properties of the new files say:

* *Fst*: `Recoverable` is the crash property: in every state after the first flush that is
  not between two flushes, the reader opens what is on the disk and reports, for each
  signal, exactly the changes of the completed sections. `TimeGoesOn` and `TraversalFits`
  are about the merge of the chains of a section (order, memory). `QueryRight` asks every
  pair of questions in turn, so that an answer that uses what the cache keeps of
  the first question is seen; only the last time of a section that another one follows may lose
  the search, and only when the section is not the one in the cache. `WindowAgrees` reads from the start of each section: the
  values a section begins with are those the sections before it end with.
  `HierarchyExact` compares the two records of the lengths as well. `CodecsInvert` is over
  bounded inputs: blocks that are packed with matches that overlap, all the boundaries of
  the integers.
* *Ghw*: `PrefixReadable` cuts the file at each of its last bytes: what is displayed is a
  prefix of what was recorded. `TypesExact` compares the type of each object with the
  bounds of its own instance.
* *Ortho*: `CodeExact` and `StackExact` compare the runs (effects, stack pointer at each of
  them). `LevelsPartitioned` is about what is given back: levels are in use or recycled, the
  current function is that of the innermost body, and the current statement list is the very
  list that the innermost construct took when it (or its `else`) began, which is none of those
  around it, unless the construct is a loop, which has none of its own. A
  level that is popped, or an `if` that ends, with any other list breaks it. `BlocksExact` is
  about what a debugger is told.
* *Processes*: `StoppedInTime` says what `--stop-time` does and does not. No cycle is later than
  it, but the first one and one at `TIME'HIGH`: the test (grt-processes.adb:1109) lets `Last_Time`
  through, which also stands for "nothing left to do", so that a timeout or a transaction due at that
  very time is run, where the help of the option (grt-options.adb:161) says that the simulation
  stops. And it does not stop early: when the limit ends a simulation, no process waits for a
  timeout that ends by the limit.

### Bounds

* *Processes*: three processes, one ordinary, one postponed, one sensitized; two
  processes already make every race of two wake-ups, the third one adds the delta
  cycles between them. `TimeHigh = 4` and `Stop_Time = 2` give two timeouts that overlap,
  one that starts when the other ends, the limit, the times after it and the end
  of time. `Stop_Delta = 2` bounds the delta cycles.
* *Driver*: `TimeHigh = 4`, two values, delays from -1 to 3 for all elements: up to four pending
  transactions, enough to have marked and unmarked ones before, inside and after a
  rejection window, and delays past the end of the times from the third time on.
* *Signals*: `TimeHigh = 4`, two values, delays from -1 to 2, so that a waveform may begin past the
  end of the times and go on now or before, a wired-or, two designs in one run
  (`MCSignalsPair`; one of them runs, the other stays at its beginning): an ordinary and a
  direct driver on two signals, with pulse rejection; and both on one resolved signal,
  with end-of-time-step callbacks and no rejection (`SharedSettled`). What the designs leave
  out of each other is what the violated runs show to go wrong.
* *Callbacks*: three registrations and three cells: one callback that runs, one it
  deletes and one it registers in the cell just recycled. The run does not check
  deadlock: with every callback registered and called the client has nothing left
  to do.
* *Fst*: eight designs of two or three signals and two or three cycles (`MCFst`): bits with an
  alias and a packed copy, strings, vectors, wide vectors in each of the three packers, a
  file with a size limit, interruptions. A section is broken after one to three changes, so
  that a signal changes in all, in some and in none of the sections. More cycles add
  sections of the same kinds. `MaxChanges = 8` bounds the loops of the reader over the changes
  of a section, which never has more: with too small a bound changes would be missing and
  `Recoverable` would fail.
* *Ghw*: a design with every kind of type, two instances with different bounds and a
  for-generate; one with long names in the other order of bytes; one with several steps and
  gaps on both sides of a byte of the delta. `CutLength = 24` covers the last sections.
* *Ortho*: eight kinds of clients of four to seven calls, each with the constructs that
  interact; runs of three conditions (`StreamLength`) and nine effects (`RunLength`). `Word = 4`,
  `Mantissa = 3` and `MaxExponent = 5` scale integers and reals down together, with all their
  boundaries.

### Fairness

Only `Processes` states liveness properties; the other modules have none and no fairness. Its fairness is weak fairness of
"the kernel or the running process takes a step". The kernel is one loop that waits
for nothing outside the program; that a process reaches a wait statement is the
language's requirement on the design (a process that loops for ever hangs GHDL
too). Nothing is assumed about which process runs or which signals have events:
`TimeoutTaken` holds although events may go on for ever, because `--stop-delta`
bounds the deltas of a time, and it excuses the simulations an error or
`--stop-delta` ends.

## What is proved

The proofs are in `Processes_proofs`, `Driver_proofs`, `Signals_proofs`, `Callbacks_proofs`,
`Fst_proofs` and `Ortho_proofs`, with the lemmas on lists of transactions in
`WaveformLemmas` and on subsequences (`At`, `Only` and `Each` of `Subsequences`) in
`SubsequenceLemmas`. They assume the named assumptions of the modules (`ProcessAssumption`,
`TimeAssumption`, `DriverAssumption`, `SignalAssumption`, `ResolutionAssumption`,
`CallbackAssumption`, `ConfigsAssumption`, `MaxChangesAssumption`, `ClientAssumption`), which the instances of the runs satisfy, and nothing
else. That the set of cells is finite stands for the memory they are allocated in; no
proof uses how many there are.

**The scheduler**, for every set of processes, every sensitivity, every set of delays and
every limit:

* `TypeCorrect`: `TypeOK`. The wrapped sum of two times is a `Std_Time`.
* `TablesAgree`: `ResumedIffQueued`. Inductive with one more fact, `QueueInv`: the
  running process is out of the tables, and the tables are empty when they should
  be.
* Under `~FarTimeouts`: `StopTimeHonoured` (`StoppedInTime`: no cycle later than `--stop-time`
  but the first one and one at `TIME'HIGH`, and no early stop), `FirstTimeoutCorrect`, `TimeoutsNotMissed`, `TimeoutsOnTime`,
  `TimeMonotonic`, `NobodyIsLeftBehind`, and, with `Postponed = {}` as well,
  `InternalErrorsUnreachable`.

The last group rests on `TimeoutInv`. `FirstTimeoutExact` alone is not inductive: a
wake-up empties the `Timeout` field and leaves the process in the chain, and the
guard `Timeout > 0` of the code skips a zero. `WaitInv` therefore relates the state
of each process to its timeout and its deadline (a process that waits has
`Timeout = deadline >= Current_Time`, strictly later once the chain has been
scanned; a process in `State_Timeout` is queued or running and its deadline is now),
`FirstInv` says that the cached minimum is a lower bound and is attained, and
`ClockInv` which of the times are equal at each step of the cycle. `MinTime` and
`EarliestTimeout` give the minimum of a finite set of times from its definition, and
one lemma per kind of step (`EnterChain`, `CloseTimeout`, `WakeUpTimeout`,
`CloseCycle`) shows that the invariant is kept. `~FarTimeouts` is necessary: a timeout past
`TIME'HIGH` in `wait on s for t` wraps to a negative time (grt-processes.adb:401), which
becomes the first one, and the clock goes back. `NoInternalError` with postponed processes is
what `scheduler_postponed_timeout` refutes: the hypothesis `Postponed = {}` is exactly what the
counterexample uses.

**The driver**: `AlwaysAscending`, for every set of values, delays, rejection limits and
range of times, wrapped sums and errors included: every transaction is strictly after the one
before it, and until a second element without a positive delay is accepted (`late`) all that are pending
are in the present or in the future. The invariant says when that can happen: the waveform
that is open began past `TIME'HIGH` and nothing is pending. The lemmas `DeleteFrom` and
`RejectPulses` say what the two edits of the list keep (a prefix; all but one run of
elements inside), `AssignedList` what both together give: a list in the same order that ends
with the new transaction, begins with the old current value and, without a rejection limit,
keeps all that is earlier. It is the only thing the proofs about signals know about
assignments.

`DriverImplementsLRM`: `ImplementsLRM`, under the same assumptions. A step of a driver is the
step LRM93 8.4.1 asks for, errors included, with the departure `ProjectedWaveform` states for a first element past
`TIME'HIGH`. The difficult part is the pulse rejection: the code goes through the
window once, forwards, and drops what it has passed each time a value differs from the new one,
where the manual marks transactions backwards from the new one and deletes the others.
`KeptBefore` shows that the deletion keeps what the first rule keeps; `KeptMarked` that what the
rejection keeps is a set of marks that obeys the rules, and that every set that obeys them
contains it. A list that was cut in two is a subsequence by `JoinedParts`. `AssignedIsProjected` puts them together, and one
lemma per action (`StartIsAssign`, `StartErrorIsError`, `NextIsContinue`) adds the wrapped sums: a
sum that wraps is negative, and an element past `TIME'HIGH` is one for both.

**The signals**, for every set of signals, drivers, direct drivers and resolution functions,
whatever the processes, timeouts and callbacks do:

* `TypeCorrect`: `TypeOK`; `FutureAlwaysCovered`: `FutureCovers`; `ActiveAlwaysExact`:
  `ActiveExact`, whose last part is about the time before a late element. None of them needs a
  hypothesis on the design.
* `AlwaysOnTime`: `OnTime`, which is about the time before a late element, when no end-of-time-step callback asks for an earlier time.
  Necessary: `signals_late_callback`.
* `NeverFails`: `NoFailure` (no null pointer at all, no internal error before a late element), when nothing is ever removed from the next delta cycle
  (`NoRemoval`: no pulse rejection, or one driver per signal). Necessary:
  `signals_null_transaction`. Late callbacks are harmless here: what they leave on the chain is
  early but never empty (`ChainsLoaded`).
* `AlwaysSettled`: `DirectDriversSettled`, when no signal mixes direct and other drivers or
  nothing is rejected (`Unmixed`). Necessary: `signals_lost_direct`. The argument is
  `ElisionSettles`: a dropped assignment gives its driver the value the signal already has,
  and a resolution function that absorbs its own result (`ResolutionAssumption`, which the
  compiler's comment at trans-chap8.adb:4038 relies on) gives the same value again.

The inductive invariant `Inv` has one named part per data structure. `Sorted`: the lists are
in order. `DirectBare`: a direct driver has no list. `OpenFollows`: the waveform a process is
assigning has an element to follow, or, when its first one was beyond the end of the times, its
signal is in the future list. `FlagsLinked`: a direct flag belongs
to a signal on the active chain that is not a `Net_One_Driver`. `FutureKnown`: the future list
knows every transaction of the real future. `OnSchedule`, which `Inv` asks for as long as
there is no late element, says that no pending transaction is in the past (`NotPast`) and what
each step of the cycle finds in the chains: while processes run the active chain is exactly the next delta cycle
(`DeltaKnown`); between the computation of the next time and its use, nothing is due before
`Next_Time` and what is due then is on the chain (`Covered`); and, without late callbacks, a
signal with one driver is on it only if it is due (`Precise`), because `Update_Signals` uses its
next transaction without looking at the time. `ActiveExact` alone is not inductive: that
the chain is right while processes run is what `Find_Next_Time` made of the future list some
steps before. One lemma per kind of step shows that `Inv` is kept (`StartAssign`, `NextAssign`,
`DirectChange`, `ComputeStep`, `EndOfStep`, `UpdateStep`, `MoveStep`).

**The callbacks**, for every finite set of cells, every set of registrations and all times,
whatever the callbacks register and delete while a walk is in progress:

* `CallbacksTyped`: `TypeOK`; `CellsAlwaysPartitioned`: `CellsPartitioned`;
  `FirstTimeoutAlwaysExact`: `FirstTimeoutExact`.
* `CellsImplementQueue`: `ImplementsQueue`. The cells implement `CallbackQueue`.

The inductive invariant `IInv` is the type and the existence of three sequences of cells, the
list, the timeouts and the recycled cells, with a `Shape`. `Places`: each sequence is what the
links make of `First`, `Time_First` and `Recycled_Handles` (`IsPath`), they have no cell in
common and hold every allocated cell, and `Last` is the end of the list. `Modes`: a cell of the
list is not timed, one of the timeouts is; so a deletion, which only looks at the mode, leaves
the cell where it can be found. `Ordered`: the timeouts ascend and are not past, without
which `First_Timeout` would not be the minimum. `Walking`: the three variables of
`Call_Callbacks` are three places of the list, the cell, the one before it and the last one of the
round, in this order; without it the removal of a cell could unlink another one. `Handles`: a
handle is the cell of its own callback, and a callback that may be called has its handle, so that
freeing the cell clears it. `Cached`: the first timeout. `CellsPartitioned` and
`FirstTimeoutExact` alone are not inductive: they say nothing of the walk, and the minimum of
a list in any order is not the time of its first cell.

That `Chain` finds the sequence a path is (`ChainIsPath`) is an induction over the links. It is
done with the least place at which a recursive function differs from what it should be
(`LeastElement`), which needs no induction theorem. `InsertPath` and `DropPath` say what the
updates of the links do to a path.

The refinement maps the list to the entries of its cells that are neither deleted nor about to be
removed (`AbstractQueue`), and what remains of a round to the callbacks of the cells between the
two places of the walk (`AbstractTodo`). Each action of the cells is one of the
queue, except that a cell whose callback was deleted is passed over or removed without any
step of the queue. `OnlyConcat`, `AtEach`, `EachConcat` and `OnlyOnly` are the algebra of
subsequences this rests on; `OnlyDropped`, `OnlyInserted` and `OnlyAppended` what an update of the
list does to the entries; `TodoMapped` and `RestIsPart` what the walk still has to do.

**FST files**, for every set of configurations (any declarations, values, step, limits and
packing), with any packer and unpacker, wherever the program ends:

* `BlocksAlwaysInOrder`: `BlocksInv`, the inductive invariant.
* `TimeAlwaysGoesOn`: `TimeGoesOn`. The times the reader reports never go back.
* `InterruptionsAlwaysExact`: `InterruptionsExact`. A complete trace gives back the
  interruptions.
* `SectionsAlwaysKept`: a step of the writer never moves or changes a complete section, also
  where the code overwrites a tag or a length, or cuts the file at `section_header_truncpos`.
* `MemoryAlwaysExact`: while the trace goes on, the section in memory is exactly what the client emitted
  since the last complete one.
* `ChainsReadBack`: the chain made of it for a signal gives these changes when it is read, all and only
  them, each with its value and the number of its time.
* `ChangesReadBack` and `IntegersReadBack`: a change, and a variable length integer, wherever it is
  in a string of bytes and whatever is around it, is read as it was written. This is for every
  integer (those of the code have at most 64 bits), length and value, where the runs have
  boundaries.

`TimeGoesOn` speaks of what a scan computes from the file, so that its invariant has to say
what the file is. `InOrder`: each complete section begins and ends where its list of times
does, and ends no later than the next one begins. That is not inductive: when a section is
written its beginning comes from the header that was put there at the flush before
(grt/fst/fstapi.c:1171), its times from the context. `Phase` therefore
relates both in each phase of the writer. `Recording`: the last block is a header that is not
finished, its `beg` is the first time of the list and the list adds up to the current time.
`Headed`: between a flush and the time that caused it the list is empty, and that header
begins at the current time, which is what `fstWriterEmitTimeChange` makes the list start with.
`Sectioned` and `Tagged`: a section is complete before its tag is. `Stopped`:
after the limit no header follows. `Closing`: the blocks of the end all have a length, except
while the hierarchy is written, or the very first section was never finished. `Timed` bounds the times
by those of the cycles, without which a time given to the writer could be earlier than
the last one. `Interrupting`: the only block of interruptions is written by the end of the file, as
differences.

On the side of the reader, `TakenTop`, `Drained` and `Traversed` show that the merge of the
chains by stacks reports the times of a section in order whatever the bytes of the chains are: what
is taken from the stack of a time is reported with it. `SectionRead` and
`BlockIterated` do the same with the frame, `ScanOrdered` from a section to the next.
`DifferencesInvert` shows that the partial sums of the differences are the times, and
`ScannedInterruptions` that opening the file comes to this block and keeps what it finds.
The loops are written with `Repeat` or with recursive functions; that these functions exist and have the
value their body says is shown each time by the least argument at which they would not
(`SumsExist`, `ScanExists`, `DrainExists`, `TraverseExists`, `IterExists`, `MockupExists`,
`ChainExists`).

For the changes, `MemoryInv` is the inductive invariant, on top of `BlocksInv`. `InMemory` says that
the change at place k of the memory is the one emitted k places after the last section
(`Stands`), that its link goes to the one before of its signal and its distance is the difference of
their places in the list of times, and that a signal starts at its last change (`Ends`). The places are
not in the state: they are the function `at`, which exists. `MemoryInv` adds why a section begins
empty: a flush unlinks every signal, and what a first time finds was never mapped. `ChangeInMemory` and
`TimeInMemory` are the two ways it grows. On the bytes, `VarintHeld` and `VarintSum` follow an
integer seven bits at a time, `PackedByte` a byte of binary digits through the fold that makes it,
and `ScalarRead`, `StringRead` and `VectorRead` a record of each kind. `ChainSteps` says that the chain of a
change is that of the one before and a record, and `ChainsReadBack` that the chain of a signal begins
with each of these: the last one for which this would be false has a successor in the list, for which it
is true. Its hypothesis on the values is what the writer asks of the client: bytes, as many as
the length of the signal, any number when the length is 0.

Whether what is reported is what was emitted (`Recoverable`) rests, beyond the chains, on the
packers, which are constants here, on the table of their places (`ReadIndex`), which is right only
under the conditions the stale length finding shows, and on the order of the merge between signals.

Both properties ask nothing of a file that cannot be opened. That `flushed` sections make it one
that can is part of `Recoverable`; a trace that is closed without any change is left with a section
that has no length (`Unfinished`), and is not opened.

**The back end**, for every set of clients, with any number of calls, parameters and choices,
in any order and nesting the interface allows:

* `LevelsAlwaysPartitioned`: `LevelsPartitioned`; `SymbolsAlwaysExact`: `SymbolsExact`.

The inductive invariant `Inv` is `StateOK` of the four parts of the state. `UnitOK`: the types of
the levels and declarations. `FramesOK`: the outermost construct is a body. `ListsOK`: the
current list is that of the innermost construct, each construct has a list that was new when it
was taken (`OwnList`; a loop, that of the construct around it), and the block an `if` or a `case`
keeps holds the list around it, which `finish_if_stmt` and `finish_case_stmt` give back.
`RegionsOpen`: two sequences of levels, in use and recycled, are what the
links make of `cur_level` and `old_levels` (`Chained`), they split the levels (`Partition`), one is
in use for each region that is open, in the order of the regions, and returns to the list around
its region (`PlacesOK`). `LevelsPartitioned` alone is not inductive: it does not say what the blocks
and the levels hold, to which the list of a construct that is closed is owed. `IsHome` and `HomesOK`: the current function is that of the innermost body that
is open, and each open body was declared where the body around it is, so that leaving one by its
context is right at any depth. `KnownOK`: a declaration is what was asked for (`DeclExact`), its
context included, which says more than which symbol it is. `DoneOK`: the finalized functions.

Each call of the interface has a lemma on any back end that is `UnitOK`: most are `Quiet` (levels
and symbols stay), some open a list (`OpensList`: a new one), `BindingPushed` and `BindingPopped` move one level between the lists,
`DeclPushed`, `Compiled` and `ValueGiven` touch one declaration, `BranchBuilt` and
`InterfaceBuilt` are inductions over the choices of a branch and the parameters of a
subprogram. `LevelMore`, `LevelLess`, `GoesOn`, `FrameOpened`, `FrameClosed`, `DeclarationAdded`, `BodyOpened` and `BodyClosed` are the
same for the invariant, and one lemma per action (`StartBodyKeeps` and so on) puts them
together. `LinkedPath` shows what `Linked` returns, by the least place at which it could be wrong.

Only model-checked: the liveness properties (fairness and `ENABLED` are outside the prover);
of the FST files what is decoded from bytes (`Recoverable`, `TraversalFits`, `HierarchyExact`,
`QueryRight`, `WindowAgrees`, `CodecsInvert`): integers, changes and chains are proved to be read
back, but not the packers, the table of the chains, the hierarchy and the escaped names, and
`Recoverable`, `QueryRight` and `WindowAgrees` are not true of every configuration, as the stale
length shows; the GHW files, whose readers are recursive operators, which the prover cannot
expand; and the other properties of the back end: the runs of the code (`CodeExact`,
`StackExact`) are recursive operators, `BlocksExact` follows the blocks by one, and
`ExpressionsExact` and `AggregatesExact` are about values computed for bounded inputs.

## What the violated runs show

1. *Postponed timeout* (grt-processes.adb:968). A postponed process in
   `wait on s for t` becomes `State_Timeout` and stays in the chain until it runs at
   the end of the time step. When another process makes a delta cycle with
   `wait for 0 ns`, the chain is scanned and the kernel stops with
   "process in timeout".
2. *Null transaction* (grt-signals.adb:591). `s <= '1'; s <= '0' after 1 ns;` on a
   resolved signal with another idle driver reads the fields of a null pointer.
3. *Lost direct assignment* (grt-signals.adb:663). An assignment through an
   aggregate to a direct driver links the signal without setting
   `Is_Direct_Active`; an inertial assignment of another driver then unlinks it.
4. *Late callback* (grt-processes.adb:1046). After the end-of-time-step callbacks
   the next time is computed again over a chain that was not flushed.
5. *Stale length* (fst/fstapi.c:5098). The handle whose length is to be set when the next
   chain is met survives from one section to the next. A negative length may be left on a
   signal that does not change in the section, and reads as "alias": the signal is given the
   changes of another one.

Met while reading and not turned into runs:

* Kernel: a far timeout wraps (grt-processes.adb:401, above); the first cycle is run even if it
  is later than `--stop-time` (grt-processes.adb:1104, which `StoppedInTime` allows); an
  inertial assignment past `TIME'HIGH` returns before it rejects the pulses in its window
  (grt-signals.adb:656, which `ProjectedWaveform` states); `Ghdl_Signal_Next_Assign` reports
  "not in ascending order" for a wrapped sum; a far `Start_Assign` followed by a `Next_Assign`
  with no positive delay is accepted, and ends in `find_next_time(2)` or takes the time back
  (in the modules *Driver* and *Signals*, above); what is due at `TIME'HIGH` runs past `--stop-time`
  (grt-processes.adb:1109, which `StoppedInTime` allows); `Current_Time + T` wraps in `vpi_register_cb`
  (grt-vpi.adb:1307); postponed processes resumed at `TIME'HIGH` never run.
* FST: a query at the last time of a section that is not the last one reads a length one byte
  off (fstapi.c:5760: the search is lost, and `QueryRight` says it is lost nowhere else); a flush with no change since the last one puts
  an absolute time among differences (2928); a variable created after the first value change
  is not in the geometry the section was begun with (2899); an offset of 2^31 or more reads as
  an alias (5150); an empty section under construction has length 0 and stops a scan (1185);
  packed and plain chains share the table that finds equal ones (1450); a scalar `Integer` is
  declared with length 1 and written with 32 characters (grt-fst.adb:552);
  `block_format.txt` describes the prefix of a chain otherwise than the code writes it;
  the two readers of the hierarchy disagree on the length of a VCD port (3918, 4018).
* GHW: a null range has a negative length for the reader (ghwlib.c:483); the child of a
  process node is not initialized (1083, 1281; the model has it clear); `ghw_get_i64` extends the
  sign of each byte (152); `val->b2 <= nbr` allows one literal too many (1562); the values of
  64-bit integers, their type ("unhandled type kind") and physical bounds of 32 bits end in an error
  or an abort of the tool (they are in the modules; no design of the run has one); more
  than 256 literals or an unbounded record port end the simulation with an internal error; the
  last time step is lost if the simulation stops inside it (grt-waves.adb:1729).
* Back end: the cases of `new_interface_decl` fall through (ortho-lang-7.c:1719) where the comment
  (1715) says that the type is converted; `new_var_decl` ignores the storage of a variable in
  a subprogram (1642).

## Not modelled

* **Propagation**: nets that need `Run_Propagation`, ports, conversions, the implicit
  signals, forced values. The propagation table is made at elaboration from the shape of
  the nets; a model would have to carry a design's nets and conversions to say what its
  order must respect. The chains these signals use are those of *Signals*.
* **VPI and VHPI**: navigation over the objects of a design. What registers and removes
  callbacks goes straight to the lists of *Callbacks*.
* **Kernel**: protected objects, the stop asked by VPI, the stacks of the processes; null and
  error transactions (disconnection).
* **FST**: zlib itself, the conversion of a file to VCD text and the helpers at the end of
  `fstapi.c`, writing with a thread (not compiled in), reading with a mask of signals.
* **GHW**: null ranges, more than 256 literals, unbounded record ports (the writer or
  the reader fails on them, above), files piped through a decompressor.
* **Back end**: options and language hooks, lvalues and addresses, access and union types,
  sizes of types: each is one call of GCC.
* **Front end, code generators, synthesis, interpreter, PSL, libraries, containers, driver
  program, text files, SDF, VCD, run-time information**: sequential passes over large data,
  start-up, or input and output, without the interleavings, failures or long histories that a
  bounded model adds to reading.
