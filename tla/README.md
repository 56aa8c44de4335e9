# Verification of the energy profiler

TLA+ models of `epeec/energy-profiler`, checked with TLC on small instances and
proved, where it matters most, with TLAPS for every instance.  File names below
are relative to the repository's root, so `src/tracer.cpp` is the profiler's
tracer and `nrg/src/...` the sensor library.

## 1. The system

The profiler starts a target under `ptrace`, puts trap instructions at the
boundaries of the sections named in a configuration file, follows every thread
of the target with a thread of its own, and reads energy counters while a
thread is inside a section.  The readings are written as JSON.

| component | files | state | operations | interacts with |
|---|---|---|---|---|
| tracers | `src/tracer.cpp`, `src/ptrace_restarter.cpp`, `src/ptrace_misc.cpp`, `src/util.cpp` | one `tracer` per target thread: its tree of children, `_results`, a future; the static `TRAP_BARRIER` | `trace()`, `stop_tracees()`, `stop_self()`, `handle_breakpoint()`, `add_child()`, `cont()` | the kernel and target by `ptrace` and signals; each other by the barrier, by `SIGSTOP` and by the traps in shared code; the ptrace worker; samplers |
| ptrace worker | `src/ptrace_wrapper.*` | one request slot `_data`, a mutex, two semaphores, one thread | `ptrace()`, `fork()`, destructor | every tracer calls it: Linux lets only the thread that attached issue ptrace requests |
| signaler | `src/signaler.*` | a flag, a mutex, a condition variable | `post()`, `wait()`, `wait_for()`, `wait_until()` | owner and thread of a sampler |
| samplers | `src/sampler.*`, `src/timed_sample.*` | samples, `_finished`, a future, a signaler | `run()`, `results()`, destructor, `async_work()` | created and collected by a tracer for each section; call the readers |
| profiler | `src/profiler.*` | target, traps, readers, output | `await_executable()`, `run()`, `insert_traps_*()`, idle samples, collection of results | all the others, in order |
| trap tables | `src/trap.*`, `src/trap_types.*`, `src/trap_context.*` | start and end traps by address, each with the word it replaced | `insert()`, `find()` | filled by the profiler, read by the tracers |
| registers | `src/registers.*` | user registers of a stopped tracee | get, set, rewind, return address | tracers |
| child toggler | `src/ptrace_child_toggler.*` | ptrace options of a tracee | off on construction, on on destruction | tracers, around a section |
| RAPL reader | `nrg/src/x86_64/` | open counter files, previous values, accumulated maxima | construct, `read()`, `value()` | samplers, which share one reader |
| OCC reader | `nrg/src/ppc64/` | file offsets of the sensor blocks | construct, `read()` | samplers |
| GPU readers | `nrg/src/nvidia/`, `nrg/src/amd/`, `nrg/src/common/gpu/` | device handles, event maps | construct, `read()`, `value()` | samplers |
| reader container | `src/reader_container.*`, `nrg/src/hybrid_reader.cpp` | readers by kind and set of targets | `emplace()`, `find()` | profiler |
| configuration, command line | `src/config.*`, `src/cmdargs.*` | none | parse, validate | profiler |
| output | `src/output.*`, `src/output/` | outputs by section and trap address | insert, write | profiler |
| debug information | `src/dbg/` | parsed ELF and DWARF | look-ups | profiler |
| target launch, main | `src/target.*`, `src/main.cpp`, `src/log.*` | none | start, log | |
| result scripts | `scripts/` | none | offline filters of the output | |

### What is hard

*Concurrency.*  Tracers run in parallel and meet in three places: the ptrace
worker's slot, `TRAP_BARRIER` and the target's code, in which a trap that one
tracer takes out is gone for every thread.  Samplers add a thread for each
measured section.  *The kernel.*  A pending `SIGSTOP` is one bit, so the one a
tracer sends may merge with the one of an attachment; the stop of a new thread
can be delivered before or after the clone event of its parent; a tracee that
was stopped may be resumed by a tracer that takes a stop for another.
*Failure.*  A `ptrace` request or a counter read that fails unwinds through the
barrier's lock, a sampler with a running thread, and a detaching destructor.
*Numbers.*  Traps are written as whole words; counters wrap around.

`hazards` in `PROJECT.json` lists each such place with its line and the
properties that cover it.

### What makes each component correct

- *ptrace worker*: a caller gets the result and the errno of its own request;
  two threads never touch the slot at once; nobody waits for ever.
- *signaler*: an auto-reset event; no post is lost.
- *samplers*: the samples span the section; results are final when collected;
  collecting and destroying terminate.
- *tracers*: one section is measured at a time; an exclusive one with the other
  threads stopped; the code is whole again after it; every pass is measured;
  the profiler ends.
- *traps*: what is written back is what was there, with no other trap lost.
- *profiler*: the measured program, not a wrapper that starts it, gets the traps;
  each section its own; nobody waits for who waits for him; each result is
  reported under the section it was measured for.
- *readers*: one event for each thing the masks and the machine call for; the
  consumption is the difference of two samples whatever a counter does between;
  a sample has all targets of its section or is an error.
- *configuration, output*: each accepted section has exactly one reader and one
  place in the output; every reading that was made is there.
- *debug information*: a name or a line means one address, or is refused.

## 2. Modules

```
AutoResetEvent  <--implements--  Signaler                  SignalerProofs
      ^
      | INSTANCE (the event of run() and results())
   Sampler   <--implements--+                              (in SamplingProofs)
                            |
   RaplReader --INSTANCE--> Sampling  <--INSTANCE-- OccReader
   RaplReaderProofs         SamplingProofs          OccReaderProofs

SyncCall        <--implements--  PtraceWrapper             PtraceWrapperProofs

Tracer (kernel + target + tracers)                         TracerProofs

TrapWords (insertion and passing of traps)                 TrapWordsProofs

Profiler (main() and the child)                            ProfilerProofs
  |- CmdArgs         the command line
  |- Config          the configuration
  |- TrapInsertion -> Lookups       traps, from names and lines to addresses
  |- Output -> Readers -> RaplEvents, OccEvents, GpuEvents
  '- Checks, Loops   the sequences of checks and the loops they are made of
```

`Sampler` uses the abstract event, not the mutex and condition variable, which
is justified by the refinement of `Signaler`.  In the same way `Tracer` treats a
ptrace request as one step, which `PtraceWrapper` implementing `SyncCall`
justifies.  `Tracer` treats a trap as there or not there at a place;
`TrapWords` shows when that is what the writes of whole words amount to.
`Sampler` reads the counters in one step, which `Sampling` implementing it
justifies.  `Profiler` takes what the tracers do between the insertion of the
traps and the collection of the results for one step, of which `Tracer` is the
detail.

### SyncCall and PtraceWrapper

`SyncCall` says what a call promises: it is invoked, executed once, and returns
the result and errno of its own execution.

`PtraceWrapper` is `src/ptrace_wrapper.cpp`.  `data` is `_data`, `errno` the
worker's, `mx` is `_global_mx`, `sem` and `resultSem` are the two semaphores,
`cpc`, `wpc` and `dpc` the program counters of callers, worker and destructor.
Each line of `ptrace()` that shares state is an action: `Enter`, `Lock`, `Write`,
`Post`, `Wait`, `Read`, `Unlock`; likewise `WorkerWait`, `WorkerSwitch`,
`WorkerCall`, `WorkerStore`, `WorkerPost` and `DtorLock` to `DtorJoin`.
`fork()` has the shape of `ptrace()` and is another request.  A `ptrace` request
may fail with an errno, or succeed with any of its results, -1 included; a
success leaves errno alone, as the system does.  A caller may only be inside
`ptrace()` while the object exists.

### AutoResetEvent and Signaler

`AutoResetEvent` is an event that `Post` opens and that the waiter who `Leave`s
closes; a timed waiter may leave without closing it.

`Signaler` is `src/signaler.cpp` at the level of its mutex and condition
variable: `PostLock`, `PostSet` (which unlocks), `PostNotify` (which wakes any
one sleeper, if there is one); `WaitLock`, `WaitLeave`, `WaitSleep`,
`SpuriousWakeup`, `Timeout`.  `wait_until()`, which no code calls, differs from
`wait_for()` in its deadline alone.

### Sampler

`short_sampler`, `bounded_ps` and `unbounded_ps` of `src/sampler.cpp` with their
owner (a tracer: create, `run()`, the section, `results()`, destruction) and
their thread.  `first`, `last` and `count` stand for the samples: what matters of
a sample is when it was read, before, during or after the section (`Phase`).
The owner may drop the sampler before `results()`, as `trace()` does when it
returns an error, and the derived class is then destroyed before the thread is
joined.  `ub` records that the thread used a destroyed member; what the program
does from there is undefined and the model ends.  `Many` is where the number of
samples saturates.

### Tracer

| variable | code |
|---|---|
| `kst`, `ev`, `pend`, `msg` | the kernel: state of a tracee, what `waitpid()` has to report, a pending `SIGSTOP`, `PTRACE_GETEVENTMSG` |
| `pos`, `armed` | where a tracee is in the target's code; the places that hold a trap |
| `barrier` | `TRAP_BARRIER` |
| `pc`, `sect` | where each tracer is in `trace()`, and the section of its locals |
| `toStop` | the tracers the walk of `stop_tracees()` has not reached |
| `results` | `_results` |
| `visited`, `spared`, `sigs` | history and bounds |

The kernel's and the target's actions are `DeliverStop`, `ReceiveSignal`, `Clone`,
`Exit`, `EnterSection`, `LeaveSection`, `StepDone`.  The tracer's are the body of
the loop of `trace()`: `Cont`, `ContEsrch`, `ContWait` are `cont()`; `Wait` is
`wait_for_tracee()` and the dispatch on the kind of stop; `LockChild`, `LockPass`,
`LockTrap`, `LockNoTrap` take the barrier in each branch; `StopSelf` and `StopDone`
are `stop_tracees()`; `StartStep`, `StepAgain`, `StepFail`, `BeginSection` are
`handle_breakpoint()` of the start trap and the start of the sampler; `EndFunction`,
`EndRange` and `EndReset` the two kinds of end; `SectionFail` and `Fail` every other
way out.  A section is two places, its start and its end; the end of a function
is where the measured call returns to, and holds a trap for that call only.

The barrier is a plain mutex in the code and in the model.  A tracer that holds
it over one critical section without side effects (`LockPass`, `LockChild`) takes
and releases it in one step.

### TrapWords

`src/profiler.cpp` inserts the traps of all sections, in order, before the target
runs; the tracers pass them and put them back.  All of it is done by reading and
writing words, of which a trap is a part, so what matters is which trap
instructions a saved word holds.  An address counts trap instructions (a byte on
x86_64) and `code` is the set of addresses that hold one; a word is the set of
offsets at which it holds one (`Peek`, `Poke`, `set_trap`).  `plan` is the
sequence of traps the configured sections come to, `starts` and `ends` are
`_start_traps` and `_end_traps`.  `Insert` is `insert_trap()` and `insert()` of
each kind of section; `HitStart`, `BeginRange`, `BeginCall`, `EndCall`,
`EndRange`, `EndStep` are the writes of `handle_breakpoint()`, `insert_trap()` for
the return address and `reset_trap()` in `trace()`, by one thread, as
`TRAP_BARRIER` keeps the rest out.  `Astray` is a single-step that executes a trap
instead of the target's instruction.  `FirstPushes` says how many words the first
instruction of a measured function may push, which `get_return_address()` of
x86_64 depends on, and `end.pushed` remembers how many the one being measured has.

### RaplReader and OccReader

`RaplReader` is `reader_rapl_impl::read()` with the `event_data` of each event:
`prev` is the value last read, `ranges` the accumulated `curr_max` counted in
ranges.  A call is `Begin`, then for each event `Load` (the file is read),
`Compare` (with `prev`), `Accumulate` and `Store`, then `End`, and those of
several callers interleave, as there is no lock.  A file that cannot be read ends
the call with what it has done to `prev` and `ranges` so far.  `Consume` is the
machine; `turns` counts what a counter really wrapped.  `raced` and `late`
remember that calls overlapped, and which counters were not read for a range:
what the code cannot be right about.

`OccReader` is that of ppc64.  One `std::ifstream` has one position, `pos`; a call
is, for each controller, `Seek`, the copy of both buffers, and `Store` of the one
chosen by the tests of `reader_occ_impl::read()`, of which each later one
overwrites an earlier one (`Chosen`).  The copy is one long `is.read()` for which the
firmware does not wait: it is made of four steps, ping before pong and of each the
flag (`CopyFlag`) before the record (`CopyRecord`), and it may fail before any of them
(`CopyFails`).  The firmware invalidates and publishes the sides in turn
(`Invalidate`, `Publish`); a record copied from an invalid side is `Torn`, and `cut`
remembers that the side became invalid after its flag and before its record was copied,
which the program cannot see.  `newest` is the newest record when the copy began.
`ec == get_sensor_buffers(...)` loses the error of a failed access, and so does the
model: `bad` is the file's failbit, and a side that was not copied has any flag, as the
buffers are locals without a value (`Garbage`).

### Sampling

A sampler composed with the readers: each of `Sampler`'s reads is a call of the
reader of the section's targets, CPU, GPU or `hybrid_reader`, which calls both and
stops at the first that fails (`ReadBegin`, `ReadCpu`, `ReadCpuEnd`, `ReadGpu`,
`ReadEnd`).  The section, its owner, the counters and the sampler of another
section (`OtherStep`), which calls the same CPU reader, move on meanwhile.  With
`began` a sample has not only the phase in which it was stored, but that in which
its reading began.

### Profiler and its parts

`Profiler` is `main()` and `profiler::run()` with every exit, from the arguments
to the output.  The child is what the kernel shows of it: it runs through a script
of system calls and signals, stops at those it is traced at, and may be killed.
`await_executable()` and the first wait of `run()` are step by step, as they and
the child wait for each other.  The insertion of the traps is a loop over groups,
sections and the inlined instances of a function, of which each turn is a step
(`InsertSection`, `InsertFunction`, `InsertInlined`, `FunctionInserted`, with the
cursor `todo`): the child may be killed between any two, and an error ends the
loop with the traps inserted so far.  The collection of the results is one step
for each (`Collect`).  What only computes is one step, made of operators of the
modules below, each translated from the functions it names:

| module | code | content |
|---|---|---|
| `Checks` | | results with an error, and the first error of a sequence of checks |
| `Loops` | | loops over a sequence, with the definitions of `SequencesExt`, for the modules of which there are instances |
| `CmdArgs` | `src/cmdargs.cpp` | options to arguments, masks, the files that are opened |
| `Config` | `src/config.cpp` | nodes of the document to sections, each check in the code's order |
| `RaplEvents` | `nrg/src/x86_64/reader_cpu.cpp`, constructor | packages and zones of the powercap tree to events and the map by socket and domain |
| `OccEvents` | `nrg/src/ppc64/reader_cpu.cpp`, constructor | headers, names and buffers checked; sensors to events |
| `GpuEvents` | `nrg/src/nvidia`, `nrg/src/amd` | support of devices to the common reading and the events |
| `Readers` | `src/reader_container.cpp` | masks, which readers are created, `find()`, `read()` of the hybrid, `value()` with its widths |
| `Lookups` | `src/dbg/` | units, lines, symbols and functions by name or address |
| `TrapInsertion` | `src/profiler.cpp`, `insert_traps_*()` | each kind of bounds to traps in the child and their place in the output |
| `Output` | `src/output.cpp` | which readings are written of an execution, the format |

Where several are found by a scan, as in `find_function_symbol()`, the operators
speak of the set of their indices and its minimum, and the sorted lines of
`load_lines()` are given by the rank of each: both say what the loops compute in a
form that can be reasoned about for tables of any length.  `Having`, what a loop of
`output.cpp` takes of the samples, is by rank too.  `MCProfiler` compares it with
`SelectSeq`, and `Loops` with `SequencesExt`, over short sequences (`HavingSelects`,
`LoopsAgree`).  `Loops` is there for the proofs alone: a proof carries the definitions of
every instance, and the copies of `SequencesExt` doubled the time each step takes.

A name is a sequence of tokens and a demangled one a longer sequence, which is
what the prefix matching of `find_function_symbol()` sees of it; an address is a
number and an object a table of units, functions, lines and symbols.

## 3. What is checked

| run | instance | distinct states | shows |
|---|---|---|---|
| `ptrace_wrapper` | 3 callers, 2 requests | 202 003 | no data race on the slot; it implements `SyncCall`; calls and destructor return |
| `signaler` | 2 posters, 2 waiters | 2 656 | no lost wake-up; it implements `AutoResetEvent`; timed waits return and posts wake, unless others keep the mutex |
| `sampler` | `Sampling`: five cases of kind, architecture and targets, reads may fail | 875 070 | results are complete, read after the section, final when collected; counters unwrapped; records fresh, and torn only when cut; collection and destruction end |
| `tracer` | 3 threads, a range and a function, exclusive, 1 pass each | 924 025 | all safety properties, among them `EveryPassMeasured` |
| `tracer_mixed` | 2 threads, 2 passes, one section concurrent, slow stops, a signal | 112 576 | `Termination`, when tracers may fail |
| `trap_words` | every plan of one or two sections in 6 addresses, words of 3 | 160 361 | the writes restore the code, single-steps execute the target's code, sections end |
| `profiler` | 108 scenarios and every outcome of the tracers | 5 102 | the named program gets the right traps, the readers the events of the machine, the output all readings where they belong; no mutual wait |
| `sampler_total` | `bounded_ps` | | finding 1 |
| `tracer_merge` | 3 threads, a range, exclusive | | finding 2 |
| `tracer_concurrent` | 2 threads, a range, concurrent | | finding 3 |
| `trap_words_adjacent` | two ranges, the second starts where the first ends | | finding 4 |
| `profiler_detached` | that of `profiler` | | finding 5 |

Five more configurations are kept beside the runs of `PROJECT.json` and are used in the
same way, `tlc -config <file>.cfg <module>`.  `MCOccReader.cfg` is the OCC reader
alone, with one caller, two controllers and up to four records: it passes (15 585
states).  `OccReaderValid.cfg`, `OccReaderFailed.cfg` (`MCOccReader`),
`TrapWordsLeaf.cfg` (`MCTrapWords`) and `ProfilerLines.cfg` (`MCProfiler`) each check one
property that a comment, an assertion or a document of the repository promises and the
code does not have: TLC finds them violated (findings 6 to 9).

*Bounds.*  Three threads are the least for which one measures, one is stopped and
one is being created; two sections are one of each kind.  One pass each is enough
for every pair of passes to overlap in three threads; two passes, in the
two-thread run, show that a trap put back is hit again.  `MaxSignals` counts
signals from outside: one suffices to make any one place fail.  The signaler's
two waiters are one more than the profiler has, so that `notify_one` has a choice.
Samples are counted up to two, after which no code distinguishes them.  The
ptrace worker's three callers let one hold the mutex, one wait for it and one be
between calls while the destructor comes; the results contain -1, the value a
good `PTRACE_PEEKDATA` shares with a failed one.

A word of three trap instructions has a first, a last and one between, and six
addresses hold two words side by side with every overlap.  `FirstPushes` is `{0, 1}`: a
first instruction that pushes the frame pointer, or one that does not push.

In `Sampling` one counter of the range `0..1` that turns twice (`Events`, `Max`,
`MaxTurns`) wraps between any two reads and is accumulated twice; three time
stamps of one controller (`Occs`, `MaxTicks`) let a record be one or two behind, and
both buffers be rewritten during a copy; `MCOccReader.cfg` has a second controller, so
that a call goes from one block to the other.  What one event does to the next
is in the proof, which has any number.  `Cases` has each kind of sampler and each
reader, a periodic sampler only with that of the GPU, which takes the fewest
steps; the safety of the other combinations is in the proofs.

In `Profiler` each scenario of `MCProfiler` changes one thing of a plain one: the
command line, the bounds of a section, the document, the machine or the command.
The child, the tracer's outcome and whether a number is clamped stay open.
`EnergyBits` is the width of the energy of a GPU (32 in the code) and is small
enough for the readings of the scenarios to overflow it; `MaxExecutions`, two, lets
a section be executed twice or two sections once.

*Fairness.*  Threads of the profiler are operating-system threads and run: weak
fairness of each thread's steps, and nothing stronger.  `std::mutex` promises no
order, so a thread may lose the mutex to others as often as they come; where a property
needs an order, as for a caller waiting for the mutex, the property is stated of the one
who has it (`HolderReturns`).  `TimedWaitReturns` and `PostWakes` likewise: a waiter, or
a post, gets through unless other threads are busy with the same mutex again and
again for ever (`BusyWith`).  The profiler's samplers cannot be in that case, as each
signaler has one waiter and is posted a few times in all.  In
`Tracer`, weak fairness of the kernel's and target's steps of a thread says that
it does not sleep for ever in a section, which the model's threads, not waiting
for one another, have no reason to do.  `Sampling` assumes that the owner inside
`results()` or the destructor runs, and that the thread and a begun call of
`read()` do: nothing is assumed of the other sampler or the machine.  `Profiler`
states no fairness: its steps are those of one thread and its child, and what could
hang is the two waiting for each other, which is `NoMutualWait` and the absence of
deadlock.

*Deadlock* is checked in every run: the end of the program is an explicit action
(`Finished`, `Gone`).

### Findings

1. **`bounded_ps` may return a sample it never read** (`sampler_total`).
   `_last` is read inside `while (!finished())` only.  If the section ends before
   the sampling thread tests the flag once, the result's second sample is the
   default one, although the README says of `total` that it "only saves the first
   and last samples".
2. **A thread can run through an exclusive section** (`tracer_merge`).
   The `SIGSTOP` for a thread whose attachment stop is still pending merges with
   it; `cont()`, in its ESRCH branch, waits for that one stop and resumes without
   the barrier.
3. **A concurrent section fails when a second thread runs through it**
   (`tracer_concurrent`).  The start trap is out while the first measures; the
   second meets the end trap alone, and its tracer gives up with `NO_TRAP`.
4. **Two sections that meet at an address lose one of them**
   (`trap_words_adjacent`).  The end trap of one and the start trap of the other
   go into different tables, and the word saved for the later one holds the
   earlier one's trap.  `handle_breakpoint()` then single-steps over a trap.
5. **A target is detached with its traps when a tracer fails** (`profiler_detached`).
   "Kill the tracee when the profiler errors", says `src/util.cpp:143` of
   `PTRACE_O_EXITKILL`.  When `trace()` returns an error, `~ptrace_restarter()` detaches
   the tracee, which drops the option: the profiler ends with an error, and the target
   runs on, into the traps.

By configurations that are not among the runs:

6. **The return trap of a function that does not start with a push is misplaced**
   (`ReturnTrapped`, `TrapWordsLeaf.cfg`), because `get_return_address()` reads the
   stack at a fixed place after one instruction (`src/registers.cpp:197`), although the
   README (line 86) has any function measured.
7. **A copy of the sensor buffers may have no valid side** (`SomeSideValid`,
   `OccReaderValid.cfg`).  If ping's flag is copied while ping is rewritten, and ping is
   published and pong invalidated before pong's flag is copied, the assertion at
   `nrg/src/ppc64/reader_cpu.cpp:516` fails, though one side was valid at any time.
8. **A failed read of the sensor file is reported as success** (`ReadErrorReported`,
   `OccReaderFailed.cfg`): `ec ==` in place of `ec =` at
   `nrg/src/ppc64/reader_cpu.cpp:1037`, where the example in `nrg/README.md:108-109`
   takes a false result for the error.
9. **A line does not start at its lowest address** (`LinesFromLowest`,
   `ProfilerLines.cfg`).  "Find line with the lowest address in range", says
   `src/dbg/utility_funcs.hpp:136`; lines are sorted by column before address, and the
   first is taken.

The properties that hold say what is left, and the conditions they have are these.

- `OthersStopped` is finding 2's property for every thread but those whose stop merged
  (`spared`); `EveryPassMeasured` is stated for exclusive sections, because of finding 3.
- Those of `TrapWords` are for plans in which no trap is inserted into the word of an
  earlier one (`Apart`, finding 4).  The condition is about the order: a trap may lie in
  reach of a later one, and on x86_64 a section must be at least eight bytes long, as
  its end is inserted after its start.  `EndInPlace` is about the calls whose first
  instruction pushed one word (finding 6); other calls, measured before or after, may
  have pushed none.
- `LinesAsAsked` says which line and column a section starts at, and not that its
  address is the lowest (finding 9).
- `WrapsAccumulated` and `RecordFresh` exclude calls that overlap (`raced`, `overlapped`)
  and counters not read for a whole range (`late`); `RecordFresh` also failed accesses
  (`bad`, finding 8) and calls that failed, as for finding 7.  It lets a record be torn
  if the firmware cut it: the code has no means to tell.
- `InstrumentsNamedImage` is for a command whose `execve()` of the program succeeds
  (`CommandBehaves`).
- Of the index map, `EventsComplete` speaks where a package is one zone and a domain one
  of its parts.  `OutputComplete` compares readings other than 0, calls a location of
  ppc64 read when all its entries in the event are in Watts and, of the format, speaks of
  machines of which no GPU is masked out.

Without its condition TLC finds each of these violated.  Where no finding is named, no
document, comment or test of the repository was found to promise more, and they are
limits.

### Peculiarities of the code met while modelling

No property covers these; the models either do as the code does or leave the place
out.

- `nrg/src/ppc64/reader_cpu.cpp:1073`: `read(sample, idx, ec)` returns the negation
  of what the read reports; nothing calls it.
- `nrg/src/x86_64/reader_cpu.cpp:55`: `read_uint64()` tests an errno it has not
  cleared.
- `nrg/src/amd/reader_gpu.cpp:106`: a failed device count throws the error of
  another, valid, result.
- `nrg/src/nvidia/reader_gpu.cpp:220`: energy is kept in 32 bits of millijoules and
  wraps after about 4.3 MJ; `Readers` truncates it (`EnergyBits`) and
  `OutputComplete` is about the truncated value.
- `src/dbg/utility_funcs.cpp:610`: within a unit the last symbol without a suffix
  wins where the search of all units calls the name ambiguous; `:738`: the search of
  an inlined function ends at the first unit with another error than "not found";
  `:760`: a result without value is dereferenced.
- `src/dbg/dwarf.cpp:314`: a second concrete function equal to an inlined one gets
  instances that were moved from.
- `src/config.cpp:446` and `src/profiler.cpp:838`: the error of a valid result is
  used for another's; `src/config.cpp:266`: the interval of a frequency is
  clamped from 1 to itself, which above 1000 Hz is an empty range and undefined;
  `clamped` is either outcome, 0 or 1.
- `src/profiler.cpp:356`: a matched `execve()` counts even if it then fails.
- `src/tracer.cpp:472`: signals are not passed on to the target; `:124`: forked
  processes are attached as threads; `:81`, `:355`: destruction and waits of tracers
  after errors.
- A configuration without groups is accepted, and an error only if idle readings
  are asked for; an empty mask on the command line (`--cpu-sensors 0`) is taken as
  none given (`src/reader_container.cpp:27`).

## 4. What is proved

For every set of callers, threads, sections, counters and every bound.  The assumptions are the `ASSUME`s of the
modules: the constants are sets of the right kind and the special values (`None`,
`Root`, `NoOne`, `Finish`) are or are not members of them.  In the modules that
others instantiate (`Sampler`, `RaplReader`, `OccReader`) the assumption is a
definition, `ConstantsOK`, and a hypothesis of each theorem; `Sampling` assumes it
of its own constants.  `ProfilerAssumption` says what a scenario is: documents, tables
of symbols and lines, and calls of the child are sequences, of any length, and a
machine has a zone (or none in its place) or a block for each of its packages.

- **`PtraceWrapperProofs`**: type correctness, `NoDataRace`, and that
  `PtraceWrapper` implements `SyncCall`.  The inductive invariant ties the mutex
  to the one caller between `Lock` and `Unlock`, and the two semaphores to the
  places of that caller and of the worker: exactly one of a posted request, a
  worker at work, a posted answer, exists at a time.  From it each step of the
  detailed specification is one of `SyncCall` or a stutter.
- **`SignalerProofs`**: type correctness, `NoLostWakeup`, and that `Signaler`
  implements `AutoResetEvent`.  `NoLostWakeup` is inductive with the types once the
  mutex's owner is tied to the threads' places: a sleeper is added only by a
  thread that saw the event closed under the mutex.
- **`TracerProofs`**: type correctness, `OneSection`, `TrapsRestored`,
  `OthersStopped`, `ManualWaitIsAttach` and `EveryPassMeasured`.
  None of these is inductive.  That an exclusive section runs alone needs `HaltedInv`: each tracee
  the walk has passed has a `SIGSTOP` pending, or stopped for it with its tracer
  at, or on its way to, the barrier.  That needs `KernelInv` (which kernel states
  fit which place of the tracer) and `AttachInv` (a tracee waited for by hand has
  not executed anything, so the stop it takes is the attachment's), which needs
  `ChildrenInv` (no two clone events announce one thread).  `TrapsInv` gives the
  contents of the code for each place of the measuring tracer, and `OneSection`
  that there is only one.  `EveryPassMeasured` has an invariant of its own on top of
  these, `PassInv`: for each thread the results are its passes, but for the last
  one while it is at, in or at the end of a section, and then it is that section the tracer
  waits, steps, measures or ends (`Passing`); with it, what stops a tracer may meet
  at each place (`SignalsOf`), so that none of the ways out is taken.  Each conjunct has a lemma with one step per action, and
  `IInv` was checked by TLC in the instances of `tracer` and `tracer_mixed`.

- **`TrapWordsProofs`**: type correctness, `CodeWhole`, `NotAstray` and
  `EndInPlace`, for words of any size, any code, any plan and any number of
  passes, and for functions that start in any way: what `EndInPlace` says of a call it
  says of those whose return address was found, whatever other calls there are.
  `TablesInv` gives each saved word a meaning that does not depend on when it was
  read: it holds exactly the other registered traps in its reach.  Lemma `Rewrite`
  then says what any write of a word does, and `CodeInv` what the code is at each
  point between two writes.

- **`RaplReaderProofs`**: type correctness and `WrapsAccumulated`.  `Accumulated` is a
  statement of each event that is not late, while no calls have overlapped: where no
  call is between `Load` and `Store` of it (`Settled`), `ranges` is the number of
  turns at the last read and the counter has moved on from `prev` by `age`
  (`Moved`); in between (`PendingOK`), `ranges` is one less until `Accumulate` if the
  value read is smaller than `prev`.  That a counter moved by at most its range
  since it was read makes "smaller than before" mean "wrapped once".
- **`OccReaderProofs`**: type correctness and `RecordFresh`.  `NewestKept` says of
  the two sides that one is the newest record and that a valid one is at most one
  behind.  A copy is not of one moment, so the invariant follows it through its steps,
  as long as calls do not overlap and no access failed: a side whose flag was copied as
  valid is still valid, unless it was cut; once its record is copied, that is at most
  one behind the newest of when the copy began, or torn and cut.
  Whichever side `Chosen` takes was valid as its flag was copied.
- **`SamplingProofs`**: type correctness, and that `Sampling` implements `Sampler`:
  every step is one of `Sampler` or a stutter, so all that was proved of `Sampler`
  holds with readers whose calls take many steps.  Likewise each step is one of
  `RaplReader` and `OccReader` or none.  Two things are of the composition alone:
  `PartsOK`, by which a call that returns has read all its targets
  (`ResultsHaveAllTargets`), and `BeganOK`, by which the call of `read()` for the
  last sample has begun after the section, with which `CoversSectionEnd` is stronger
  here than in `Sampler`.  The theorems of `Sampler` itself, in the same module, are
  type correctness, `CoversSectionEnd`, `CollectedIsSafe` and `FrozenWhenCollected`.
  `HandoverOK` says that a future that was given means an
  ended thread, and that `_finished` is only set after the section; `UnboundedOK`
  that the thread is at its final sample only if it saw `_finished`, so that what
  it stores there is from after the section; `ShortOK` counts the samples of a short
  sampler, which has no thread.
- **`ProfilerProofs`**: of `main()` and the child, for every scenario, the type
  correctness and each safety property of the run `profiler`.
  `IInv` has, besides the types, eleven parts.
  - `ChildInv` says what the kernel knows of the child at each stage: the profiler
    waits only for a child that runs or has a stop to report.  `NoMutualWait` is a
    conjunct; it is not inductive, as a wait ends with what an earlier request did.
  - `KillInv`: traps are only put in a child that has the option to die with its
    tracer, and it is stopped then, which `ImageInv` takes.
  - `AwaitInv` and `ImageInv` follow `await_executable()`: whether the entry or the
    return of a call is next and which call was matched.  A launcher may execute
    other programs, receive signals and make calls any number of times; that the
    stop after the match is that of the image (`OnTarget`), and that the child
    executes nothing between it and the first trap (`Untouched`, `Executing`), gives
    `InstrumentsNamedImage`.
  - `ArgsInv` and `ConfigInv` keep what the arguments and the configuration were
    accepted for: the labels of the groups, and of the sections of a group, differ, and no
    group is without a section.  That is proved from the checks of `Config`, which
    stop at the first error.
  - `TodoInv` and `TableInv` are the loops of the insertion: `Balanced` says that
    starts, ends, instructions and places of the output match, `SectionsDone` that
    each section before the cursor has its start; in the middle of the inlined
    instances, that of the current one if anything was inserted.  With the cursor
    at its end that is `TrapsComplete`.
  - `Placed` ties the place of each start trap to the group and section with the
    labels of its own, `ResultsInv` the results to start traps.  An entry of the
    output is found again by its label after others were added, so executions are
    under their own section: `ResultsUnderOwnSection`.
  - `LocatedInv`: every start trap of a named function is at the symbol
    that fits its name better than any other (`CallsUnambiguous`), and of a line at
    the first line and column, from the one asked for, of a unit of that path
    (`LinesAsAsked`).  It rests on lemmas about `Lookups`: `LinesSorted`, that the
    lines by rank are those of the file in the order of `LineBefore`; `LineFound`,
    `UnitFound` and `FunctionSymbol`, what each lookup returns.
  - `ReadersInv`: the readers are those that the constructors make of the machine, the
    masks and the configuration.  `EventsComplete` then is about these constructors,
    which are folds over the zones and their parts, or over the blocks, the
    locations and the entries.  Of each fold there is what a step keeps: on x86_64
    `ZoneReader` (the types), `Indexed` (the map leads from an event to one of the
    same socket and location) and, where no two zones or parts are of the same,
    `Distinct`; on ppc64 `BlockReader` (one event for each controller) and `Gains`
    (the controllers and sensors a step may add, and no others; each one added is in
    the index map, which is what finds it again).
  - `OutputInv`, a second invariant on top of these, is what `OutputComplete` takes.  A
    reading goes a long way before it is printed: the section's targets become the
    devices of its start trap and those of its entry in the output, the tracer
    samples the former, the result is moved to the entry found by the labels of the
    trap, and that one is printed by the devices it has.  `OutputInv` says at each
    place that the devices are the section's targets (`Devised`, `Entered`) and the
    samples those of these devices (`SamplesInv`), and that what is printed is made
    of the table; `Grows` says of every step of the insertion what it may add.
    `EntryRead` joins the two ends by `ResultsUnderOwnSection`.  That what is made of
    such samples is complete is of the operators alone: `CpuOutputComplete` and
    `GpuOutputComplete` go from the events (`EventsComplete`) through the reading of a
    sample, a fold on ppc64 (`ReadAllReturns`), to the lists of `Output`, of which
    `Ranked`, `PickedFacts` and what is proved with them say that leaving out what is 0
    leaves the others in their order.

Only model-checked:

- liveness (`HolderReturns`, `DtorReturns`, `TimedWaitReturns`, `PostWakes`,
  `ResultsReturn`, `DestructorReturns`, `Termination`), which needs ENABLED;
- what the folds of `CmdArgs` (the options) and `Lookups` (functions named with their
  unit) compute; the theorems use of the first only its result, whatever it is, and
  `CallsUnambiguous` is about functions named without their unit.

Induction over the naturals is not out of reach where it can be said with a set:
lemma `LeastOf`, that a set of naturals that is not empty has a least element, is
the library's theorem about well-founded relations and takes no operator.  With it
the first element of a sequence that satisfies a test, the first error of a list of
checks, the least column at which two lines differ and the rank of a line are
reasoned about in `ProfilerProofs`.  That counting the lines before each one
numbers them without gaps, so that `load_lines()` sorts, is a lemma on injections
of finite sets.  `SelectSeq` is defined by a recursive operator that the provers do
not expand; in its place `Having` says by rank which element is the k-th that passes a
test.

The folds of the library are recursive functions of sets of indices, whose definition
takes an operator.  A lemma about folds in general is therefore out of reach; the
lemmas here are about `IsFold`, in which the operator is `Step`, a case distinction
over the folds of the readers, those that add events and the one that reads them,
with their parameters in a record.  That such a
function exists is proved with `LeastOf` by extending one for shorter sequences
(`FoldLonger`, `FoldExists`); `FoldReturns` gives the states after each element, from
which a property of the last is concluded by `UpTo`, induction up to a bound, said
with a set.

## 5. Not modelled

In the components that are:

- a `ptrace` request of a tracer that fails for a reason other than a tracee that
  runs; what a tracee does after its tracer gave it up; the destruction of the
  tree of tracers after an error, while children still run;
- clones inside a section (not traced), forked processes (traced with the wrong
  thread group), `exit_group` and `execve` of the target;
- in `Tracer`, recursion of a measured function and sections that share or overlap
  places (`TrapWords` has both, for one thread);
- `sync_sampler` and the null samplers, which nothing creates;
- waits longer than the section in the sampler's period;
- of the readers, the values themselves: units, scaling factors, and which fields of
  a record of the OCC are copied.  The sensors of a controller are one record, and a copy
  of a side is a step for its flag and one for all of its record: a record that is in
  part from before and in part from after a change of the side is `Torn`, like one that
  is being written;
- the kernel's refusal to detach a tracee that is not stopped, after an error of its tracer;
- the libraries: libelf and libdw (their decoding is the tables of `Lookups`),
  pugixml, NVML, ROCm SMI, `getopt_long()`; the file system is which files open and
  what they hold;
- the spelling of the JSON, of log lines and of errors.

Components left out altogether:

- the child toggler (`src/ptrace_child_toggler.*`): it clears and sets the options
  that attach clones, around a section.  All it changes is that a thread cloned
  there has no tracer, and `Tracer` has no such threads: what they do is what the
  profiler does not observe.
- the scripts: offline, and without state.

## 6. What could come next

1. `TracerTree`: destruction after errors, untraced and forked threads and the child
   toggler, composed with `Tracer`'s kernel.
2. The idle readings and the results of `Profiler` as a composition with `Sampling`
   and `Tracer`, in place of their outcomes.
