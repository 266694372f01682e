# CpuUsageTracker in TLA+

CpuUsageTracker is a console program in C11 that samples `/proc/stat` twice a
second, computes the usage of every processor and prints it. It runs five
threads that share two bounded buffers, a log buffer and a table of time stamps.
The modules here specify those threads and the circular buffer under them, check
them with TLC on small instances, and prove what matters most with TLAPS for
every size.

Paths below are relative to the root of the repository (`src/` in
`PROJECT.json`).

## Inventory

| part | code | state | operations | what makes it correct |
|---|---|---|---|---|
| circular buffer | `libs/circbuf/circbuf.c` | slots, `readOffset`, `itemCount` | create, destroy, clear, (try)write, read, peek, and the `*Many` variants | it is a first-in first-out queue that replaces its oldest item when full; no access outside the allocation |
| reader | `src/threads/reader.c` | the sample just loaded | load a sample, wait for room, write it, notify, free it, sleep | a sample is published once and freed; a lock that was taken is released |
| analyzer | `src/threads/analyzer.c` | old and new sample, result | wait for a sample, read it, calculate, wait for room, write, notify, swap | consecutive records cover consecutive intervals |
| printer | `src/threads/printer.c` | the record to print | wait for a record, read it, print | what is printed was published, and never goes back in time |
| watchdog | `src/threads/watchdog.c` | time stamp per thread, next time to look | `Watchdog_reportActive` of each thread; the thread waits, looks for the oldest stamp, raises SIGTERM | a thread that stops reporting is noticed, and no other one is accused |
| logger | `src/threads/logger.c` | two buffers that change roles, the file | `Log` of each thread; the thread exchanges the buffers and writes one to the file | messages reach the file in order, each once; the last ones before the end |
| usage calculation | `src/utils/cpuusage.c` | none | a percentage from two samples | the share of the ticks that were work, with counters that wrap around |
| `/proc/stat` parser, file reading, processor count | `src/utils/procstat.c`, `helpers.c`, `cpucount.c` | the number of processors at the start | read the file, split it into lines, scan the first ones | the counters compared belong to one processor; no line is scanned that is not there |
| life cycle | `app/app.c` | everything above | create, start five threads, join, destroy | nothing is used before its creation or after its destruction; what was created is destroyed; the program ends |
| kill switch, signals, wrappers | `src/utils/threadctl.c`, `sighandlers.c`, `sync.c`, `helpers.c` | the flag | set it from a signal handler; lock and wait with a timeout | every thread sees it soon; the end of a wait is computed exactly |

How they interact:

- reader -> `procStatCbuf` (10 slots) -> analyzer -> `usageInfoCbuf` (1 slot) ->
  printer. Each buffer has one mutex and two condition variables. A producer
  waits on the not-full variable, a consumer on the not-empty one; every attempt
  to lock ends after 50 ms and every wait after 2000 ms, and then the thread goes
  on.
- Every thread calls `Watchdog_reportActive` at the top of its loop, and `Log`
  everywhere.
- The only way to stop is the kill switch, a flag set by the handlers of SIGINT
  and SIGTERM. It wakes nobody: threads see it when a timeout brings them back
  to a test. The watchdog stops the program by raising SIGTERM.

What is hard to test here: the order of unlock, notify, timeout and kill switch
between two threads; early exits that must release the one mutex they hold; the
buffer roles that are exchanged in several places (analyzer, logger); timeouts
that are treated like notifications; the boundary cases of offsets, time stamps
and counters. `PROJECT.json` lists each hazard with its line and the properties
that cover it.

## Modules

| module | models |
|---|---|
| `QueueOps` | the queue on sequences that the threads see: a write that may replace the oldest item |
| `BoundedQueue` | abstract: what a circular buffer promises |
| `CircularBuffer` | `circbuf.c`: slots and offsets, one action per function, one step per iteration of a `*Many` loop |
| `CircularBufferProofs` | types, refinement, and what every call returns and leaves |
| `PipelineState` | the variables `app.c` shares between the worker threads, and `Thread_activateKillSwitch` |
| `Reader`, `Analyzer`, `Printer` | the threads, one action per step between two operations another thread can see |
| `Pipeline` | their composition, its fairness and its properties |
| `UsageFeed` | abstract: what the three worker threads promise together, and when they may lose a usage record |
| `PipelineProofs` | types, mutexes, wakeups; the data: order of samples, joining of records, the screen; refinement of `UsageFeed` |
| `Watchdog` | `WatchdogThread` and `Watchdog_reportActive` over time stamps represented by their age |
| `Timespec`, `TimespecCalls` | the arithmetic on `struct timespec` of `watchdog.c`, and the calls it gets |
| `WatchdogProofs` | of `Watchdog`: types, mutex, the bound of the sleep, alarms only when due; of `Timespec`: exactness of the alarm, of the next time to look and of the end of a wait, and the search for the oldest stamp |
| `Responsiveness` | the loops of the workers and of the watchdog on one clock: sleeps, waits, prints, outages, and the time stamps |
| `ResponsivenessProofs` | types, and the four bounds: a hung worker is noticed, the kill switch is seen, the screen is fresh, no alarm is false |
| `MessageLog` | abstract: what a log with a buffer promises, and when it may lose a message |
| `Logger` | `Log` and `LoggerThread` |
| `LoggerProofs` | types, wakeup, mutual exclusion, order of the file, refinement of `MessageLog` |
| `CpuUsage` | `calculateCpuUsagePercentage`, over counters that tick between two samples |
| `CpuUsageProofs` | types, and the exactness of the usage for counters of every width |
| `ProcStat` | which lines of `/proc/stat` become which entry of a sample, and which entries are compared, while processors come and go |
| `ProcStatProofs` | when a sample is undefined, and what is compared with what |
| `AppLifecycle` | `main`: what it creates, starts, joins and destroys, and when |
| `AppLifecycleProofs` | threads use only what lives, and what is left at the end |

The `MC*` modules and their `.cfg` files are the instances for TLC. Definitions
whose comment begins with "Sensitivity variant" are not part of a specification:
each is a mapped definition with a plausible error, with which the property that
`PROJECT.json` pairs it with (under `mutants`) fails.

### How state and actions correspond to the code

*Threads.* A `...Pc` variable says where a thread is. Its values are named for
what the thread does next. A step begins and ends where another thread can see a
difference: locking, the test of the waiting loop together with the start of the
wait (the mutex is held from one to the other, and `cnd_timedwait` releases it and
blocks in one step; two steps in `Logger`, see below), the end of the
wait (a timeout, a spurious wakeup or a notification makes the variable quiet;
the mutex is then taken again), the test of the kill switch, the access to the
buffer, the unlock, the notification. The kill switch is an atomic flag that a
signal may set between any two steps.

*Mutexes* are `"free"` or the name of the holder. `Mutex_tryLockMs` succeeds
when the mutex is free and may time out when it is not. In `Logger` the constant
`LogIsPrompt` says that no thread inside `Log` keeps the mutex as long as 50 ms.
The runs and all theorems about the logger but that on types assume it. Without
it the logger may be in the block after its lock attempt while a client holds the
mutex. The test of the buffer and the start of the wait are two steps
(`LoggerCheck`, `LoggerWait`), so that a notification between them is lost there;
but each access to a buffer is one step also then, although overlapping accesses
have no defined result. Releasing a mutex that another thread holds (which only
the logger may do, and only then) frees it, which is what glibc does.

*Condition variables* have a single possible waiter each, so `"awaited"` and
`"quiet"` suffice. The branches taken when `mtx_unlock` or `cnd_timedwait`
return an error are left out: with valid handles they cannot.

*Data.* A `/proc/stat` sample is the number of the load that produced it, a
usage record the pair of samples it was computed from, a log message the number
of its write. That is enough to tell order, loss, repetition and pairing. The
percentage itself is the subject of `CpuUsage`. `0` and `<<0, 0>>` stand for
memory that was allocated and never written.

*Circular buffer.* In `Pipeline` and `Logger` a buffer is the sequence of its
items and a write is `QueueOps!Push`. `CircularBuffer` has the slots, and theorem
`QueueRefinement` closes the gap. Offsets are added modulo `UintMod`, the 2^32
of `uint32_t`; the assumption that twice the capacity fits is needed, and holds
for the capacities 1, 10 and 100 of the program.

*Watchdog time.* A stamp is its age, and ages beyond the allowance are one
value. `Tick` may happen between any two steps, so a thread may lose the
processor anywhere; only the time between reading the clock and initialising
the stamps at the start of the watchdog is bounded, by the lock timeout. The
pairs of seconds and nanoseconds behind the ages are in `Timespec`.
`findLowestTimespecIndex` may return any oldest stamp in `Watchdog`; which one
it returns is in `Timespec`. The watchdog's own stamp is set to the current time
before each look and is left out.

*Responsiveness.* `Pipeline` and `Watchdog` order steps without measuring them;
this module measures them without interleaving them. A tick is an eighth of a
second. What a thread does between two places where it blocks is one step that
takes no time, so mutexes are not modelled and buffers are counts. `left[t]` is
the time until `t` can run (below zero: how late it is), `age[t]` the age of its
stamp. The wait that `PrinterIterates` begins is the one that `PrinterHasWaited`
ends; a notification makes `left` zero. The reader's failed load goes round
without a sleep, so an outage of `/proc/stat` is one state in which the reader
reports all the time. At most one worker hangs for good, which also stands for
one that ended at its start. No lock attempt times out here, so no report is lost
(`watchdog.c:227`) and no record dropped (`analyzer.c:145`) for that reason.

*Life cycle.* `main` is a sequence of operations, one per function call, and
`Main` executes the next one. A thread is reduced to what it may touch (`Uses`)
and to how it may end. Results of creations are not looked at in the code, so
`CreateFails` goes on. Only buffers may fail (`Fallible`). Mutexes, condition
variables and thread-specific storage are assumed to be created
(`LifecycleAssumption`), and so are the threads: a thread may give up at its
start, but `thrd_create` succeeds (see below). `Watchdog_finalize` and the double destruction are as in the code.

*`/proc/stat`.* A line is whose counters it shows: the total, a processor, or
something else; every line has `LineLength` bytes, and `ReadFileContent` cuts the
file at `BufferLength`, which may leave the last line incomplete. `Undefined` is
the result of scanning a `NULL` line, after which nothing is claimed; the
processors are counted once (`cpuCount`) and may come and go (`Hotplug`).

*Environment.* `Tick`, `Hotplug`, the lines of `/proc/stat` in
`ProcStat` and its counters in `CpuUsage`, are the
world outside `src/`; they are marked external in the map.

## Runs

| run | instance | what it shows |
|---|---|---|
| `circbuf` | 3 slots, 2 values, batches of up to 4 | every function keeps its promise, and the struct implements `BoundedQueue` |
| `pipeline` | buffers of 2 and 1, 5 samples | types; `LockDiscipline` (no mutex leaked or used without holding it); `NoMissedWakeup` (for three of the four condition variables); `SamplesInOrder`; `UsageContiguous` (each record starts where the one before ended, whatever was dropped); `ScreenMovesForward`; `ImplementsFeed` (a record that is never shown has given way to a buffer of newer ones, and none is taken twice from the buffer); and the liveness property `KillStopsAll` |
| `watchdog` | 2 threads, allowance 3 ticks, lock wait 1 | types, mutex, `SleepsNoLonger`, `NoEarlyAlarm`; `StoppedIsNoticed` and `KillEndsWatchdog` (liveness) |
| `timespec` | seconds of 4 nanoseconds or 2 milliseconds, two seconds | the alarm, the next time to look and the end of every other wait are exact; the oldest stamp is found |
| `logger` | 2 threads that log, buffers of 2, 5 messages | types, `BuffersGuarded`, `FileInOrder`, `NoMissedWakeup`; `ImplementsLog` (what is not written has given way to a buffer of newer messages); `MessagesAreTaken` (each message gets into the file, or out of the buffers because a buffer of newer ones was logged) and `KillEndsLogger` (liveness) |
| `cpuusage` | counters modulo 6, up to 4 ticks | `UsageIsBusyShare` |
| `responsiveness` | the program's 500 ms, 2000 ms and 2000 ms; threads up to 125 ms late; printing and outages up to 125 ms; waits for room may end early | types; `AlarmHasCause` (no alarm while all threads are well); `NoticedInTime`; `StopsInTime` (a bound in time for what `KillStopsAll` says eventually); `ScreenIsFresh` |
| `lifecycle` | the five threads and 17 objects of the program, each buffer may be missing, each thread may give up at its start | `UsedWhileAlive`, `ReleasedAtEnd`; `EndsInTheEnd` (liveness) |
| `procstat` | 1 to 5 processors, a buffer of four lines and a half, a queue of 5 lines | `UsageIsOfOneProcessor` (for every line that ends in the buffer, as long as no processor comes or goes), `UndefinedOnlyIfCut` |

The runs of the pipeline, the watchdog, the logger and the life cycle use
`FairSpec`; fairness does not restrict the safety properties that the same run
checks.

Three more runs, each with one property, show where the code does something else
than a comment or header says. `PROJECT.json` quotes the comment of each under
`findings`:

- `pipeline_printer_stale`: the printer prints its buffer after a failed read,
  at first memory that was never written.
- `logger_lost_messages`: a consequence of the inverted test at `logger.c:214`.
  The test also lets the logger examine its buffer and wait without the mutex
  when `Log` holds it for long, which no run examines. It has a harmless side: as long as `Log` is
  prompt, the logger only ever touches the buffers while holding the mutex,
  because the lock attempt that fails is the one that fails against itself
  (`BuffersGuarded`).
- `responsiveness_slow_print`: the printer never notifies the analyzer of room,
  against `printer.h:30`. That is the exception `NoMissedWakeup` makes.
  An analyzer that found the record buffer full sleeps until its own timeout of
  2000 ms, and its last report was made before the wait. When a print takes up
  to 750 ms instead of 125 ms, TLC finds a run in which a waiting analyzer
  becomes overdue and the watchdog ends a program in which nothing hangs. With a
  printer that does notify, TLC finds no such run in the same instance.

Smaller disagreements that the models contain and no run is spent on:

- After a timeout the reader writes into a full buffer and so replaces the
  oldest sample, beside the comment "Buffer isn't full, write data"
  (`reader.c:99`); and the header says that writes "will be only performed if
  mutex is successfully acquired and output buffer can hold the data"
  (`reader.h:48-49`).
- The results of `thrd_create` are not looked at (`app.c:57-102`), and `main` joins
  all five handles (`app.c:110-114`): one that was never initialised if a creation
  failed. What then happens is not defined, and not modelled.
- The watchdog initialises the stamps with a time read before it locked the
  mutex, so a report made in between is set back by up to the lock wait
  (`watchdog.c:250-262`). `NoEarlyAlarm` allows for it.
- `timespecAdd` does not carry a sum of exactly one second (`watchdog.c:62`),
  `timespecCompare` of equal times is -1 (`watchdog.c:89`), and therefore
  `findLowestTimespecIndex` returns the last of equal times, not the first
  (`watchdog.c:106`). None of them makes the alarm inexact, which is what
  `timespec` and its theorems show.
- The usage is -100 when no tick was counted (`cpuusage.c:47`), beside the
  comment that it is in the range 0 to 100 (`cpuusage.c:11`). `UsageIsBusyShare`
  says that this happens only then.
- All items that `CircularBuffer_peekMany` returns are copies of the oldest one
  (`circbuf.c:219`). `CircularBuffer` has it so; `HandsOutOldest` is
  about the single `peek`.
- Two exits of the reader's loop do not free the sample (`reader.c:63` and 96).
  `allocated` in `PipelineState` counts the samples that exist.
- One condition variable is destroyed twice and another one never
  (`app.c:116-119`), and `Watchdog_finalize` forgets its own (`watchdog.c:172`);
  `ReleasedAtEnd` lists the two that remain.
- `ThreadInfo_init` would call `Log` before `Logger_init` if `tss_create` failed
  (`threadctl.c:98`); that failure is excluded by `LifecycleAssumption`.
- A `/proc/stat` longer than the buffer is cut, and `NULL` is scanned if the cut
  is among the lines of the processors (`procstat.c:58`); `UndefinedOnlyIfCut`
  says that this is the only way as long as processors do not come and go.

### Bounds, and why they are enough

- *Capacities.* Full, empty and wrapped buffers need two slots for the analyzer's
  input; three slots in `circbuf` make every offset distinct from both ends. All
  safety properties of the buffers are proved for every capacity.
- *MaxSamples.* The reader loads at most 5 samples; then every load fails, which
  the code allows, so the system goes on and the kill switch still ends it. Five
  samples fill the buffer of 2, overwrite in it, and leave one in each of the
  analyzer's two buffers.
- *MaxMessages.* 5 messages fill both log buffers and overwrite.
- *MaxBatch.* 4 is more than the 3 slots; the theorems hold for batches of every
  length.
- *Allowed, LockWait.* With an allowance of 3 ticks and a lock wait of 1 a stamp
  can be new, in between, at the allowance and beyond it, and the two thresholds
  of `NoEarlyAlarm` differ.
- *NsecInSec, UnsignedMod.* Borrow, carry and equality need few nanoseconds; the
  theorems hold for the real values.
- *Waits.* 0 to 5 milliseconds of 2 nanoseconds each: less than a second, whole
  seconds, and both with and without a carry.
- *Late, MaxPrint, MaxOutage, Spurious.* A tick of 125 ms gives the three times
  of the program (4, 16, 16 ticks) a common unit. One tick for each of the
  disturbances is generous for a machine that is not overloaded, and few enough
  ticks to say where the alarm begins: `AlarmHasCause` fails when prints take
  six. Only waits for room end spuriously: an early end of the others merely
  starts an iteration. Its buffer of 2 samples stands for 10, so it
  is full, and the reader waits, far more often than in the program. The
  bounds are proved for all values, two of them under the hypotheses named
  below.
- *MaxScreenAge, MaxKillAge.* The histories stop one tick beyond what the
  properties compare them with.
- *Fallible.* All four buffers, the objects whose absence the functions that get
  them accept.
- *Processor, OtherLines, LineLength, BufferLength, MaxLines.* Files of three to
  seven lines against a buffer of four and a half: complete files, files cut in
  the middle of a line (of a processor that is compared, too), and files without a
  line that is scanned. Lines of equal
  length make the cut a matter of arithmetic; `ProcStatAssumption` relates the
  sizes as the real ones (16384 bytes, 2048 lines) are for lines of 8 bytes or
  more. The theorems hold for all sizes related in that way.
- *W, MaxTicks, Starts.* Every counter starts at 0 or one tick before it wraps,
  and fewer ticks than W pass, which for 64-bit counters is a matter of course.
  Guest counters start at 0 and are not read. The result is proved for every W.

### Fairness, and why the code justifies it

- Weak fairness of each thread: the operating system runs a thread that can run,
  and every blocking call has a timeout. A wait therefore ends, notified or not
  (`...Timeout` actions belong to the thread).
- Strong fairness of taking a mutex again after a wait (`WatchdogWake`,
  `LoggerWake`) and of the logger's locks: the mutexes are held for a few
  instructions and are free most of the time, so a thread that asks for one
  again and again gets it. Threads that call `Log` or report are otherwise free
  to do it at any rate.
- Weak fairness of the steps of a started `Log` or report, not of starting one.
- Weak fairness of `Tick` in `Watchdog`: time passes.
- In `AppLifecycle`, weak fairness of `main`, of the start and the end of every
  thread, and of the watchdog's alarm: each stands for a loop that `KillStopsAll`,
  `KillEndsLogger`, `KillEndsWatchdog` and `StoppedIsNoticed` show to be left, or
  to notice, by the same fairness.
- `Responsiveness` needs none: its properties bound times, and a thread that can
  run is at most `Late` behind because `Tick` waits for it.
- `Thread_activateKillSwitch` and `WorkerStops` are never forced.

## Proofs

All theorems hold for every value of the constants under the named assumptions
of the modules (`CapacityAssumption`, `ValuesAssumption`, `PipelineAssumption`,
`WatchdogAssumption`, `TimespecAssumption`, `TimesAssumption`,
`LoggerAssumption`, `ResponsivenessAssumption`, `CpuUsageAssumption`,
`ProcStatAssumption`, `LifecycleAssumption`) and, where a theorem has any, its own hypotheses.

- `CircularBufferProofs!TypeCorrect`: `TypeOK` is not inductive by itself, since
  a read must hand out an item and not garbage, and a loop that writes must not
  run past its input. `IndInv` adds `HeldAreWritten` (the `itemCount` slots from
  `readOffset` on hold items) and `LoopInBounds`. Lemma `WriteEffect` says where
  a write lands in terms of distances from the read offset; `SlotFacts` that
  different distances are different slots.
- `CircularBufferProofs!QueueRefinement`: under `IndInv`, each step of a call is
  a step of `BoundedQueue` on `Content`, or leaves it unchanged. `WriteRefines`
  and `ReadRefines` carry the argument: two sequences are equal when their items
  are.
- `CircularBufferProofs!ReadsOldest`, `WritesNewest`, `TryWritesFitting`: what a
  whole call did is known only at its end, but an iteration of a loop is a step
  of the model, so that no induction over data is needed: `CallInv` says what
  `done` iterations of the call in progress have returned and left, relative to
  the items at its start (`atCall`), and at the end that is the property.
- `PipelineProofs!TypeCorrect`: inductive by itself; one case per action.
- `PipelineProofs!LocksCorrect` and `NoWakeupMissed`: `SyncInv` is
  `LockDiscipline`, `AwaitedAtWait` (a condition variable is awaited only by a
  thread that is in its wait) and `NoMissedWakeup`. The second part is needed
  because a thread that leaves its wait must not leave the variable awaited.
  `NoMissedWakeup` needs `LockDiscipline`: the buffer is changed only with the
  mutex held, hence not between another thread's test and its wait.
  The theorem is about the analyzer beside a sample, the reader beside room and the
  printer beside a record. It would be false of the analyzer beside room, which
  the printer never notifies (`responsiveness_slow_print`).
- `PipelineProofs!SamplesStayInOrder`: `SampleInv` follows every sample on
  its way. What the reader holds is newer than all it has written
  (`WrittenInOrder`); the analyzer's two samples are in order and older than all
  they have yet to meet (`TakenInOrder`). `SamplesInOrder` alone says nothing of
  a sample between two threads, and an exchange of the analyzer's buffers
  preserves the order only because nothing on its way is older. `PushItems` and
  `TailItems` give the effect of a write and of a read on the items.
- `PipelineProofs!UsageJoins` and `ScreenAdvances`: `RecordInv` adds that the
  record published last ends where the analyzer's old sample starts
  (`PublishedLast`), except between the publication and the exchange, and that
  the records from the screen over the printer's copy to the buffer follow each
  other (`RecordsInOrder`). Overwriting a record leaves a gap and no overlap.
- `PipelineProofs!FeedRefinement`: the three threads implement `UsageFeed`. Its
  pending records are the one the printer has taken and not printed (`Taken`)
  followed by the buffer; the sample its next record starts from is the
  analyzer's old sample, or already the new one between the write and the
  exchange (`Basis`). A publication is the write and not the exchange, so
  dropping a record because of a lock that is not to be had is a stutter, and so
  are a read of the printer and the print of a record it has printed before: the
  refinement says that none is taken twice from the buffer, not that none is
  printed twice, which `printer.c:112-124` does after every empty read.
  `FeedInv` adds to the invariants above that a sample in use has a number
  (`Numbered`), and that the printer never takes a record before it has printed
  the last (`TakenIsPrinted`), without which one would be lost that no newer
  record replaced. That a read really is a stutter needs `RecordsInOrder`: the
  record taken is not the one on the screen. An overwrite removes the record
  behind `Taken`, which a buffer full of newer ones follows (`ConcatRemove`).
  `UsageContiguous` and `ScreenMovesForward` say nothing of what is lost, the
  refinement does.
- `WatchdogProofs`: `TypeCorrect` is inductive. `LocksCorrect` is inductive on
  top of it. `NeverOversleeps` is proved from an invariant that also covers the
  moment before the wait, where the time to sleep is already set and the mutex
  is still held: reports only make stamps younger, and the sleep was bounded by
  the oldest. `AlarmsAreDue`: a stamp lags behind its thread's last report by at
  most the wait for the mutex (`StampsFollowReports`), so the alarm is due up to
  that wait; and the watchdog is on its way out only with the kill switch on
  (`LeavesOnKill`).
- `WatchdogProofs!AlarmExact`, `TimeoutPointExact` and `LowestFound` justify the
  ages of `Watchdog`: they compare the code's pairs with the numbers of
  nanoseconds they stand for, and with nothing else of the code. The alarm
  condition is `age > Allowed`, the next time to look is `TimeLeft`, and the index
  found is one that `IsOldest` admits.
- `WatchdogProofs!AlarmExact`: a case split on the borrow; the time that is not
  normalised (equal nanoseconds) still compares correctly because the allowance
  has less than a second of nanoseconds. `TimeoutPointExact`: no carry when one
  operand is a whole number of seconds; for the end of every other wait,
  lemma `Conversion` splits the milliseconds into seconds and nanoseconds, and
  lemma `TimePointExact` follows the carry.
- `WatchdogProofs!LowestFound`: `timespecCompare` never says that two times are
  equal, so it is no order; but what `findLowestTimespecIndex` keeps is never
  later than what it drops (`CompareEffect`), and "not later" is transitive.
- `ResponsivenessProofs!TypeCorrect`, `Notices`, `Stops`: neither bound is
  inductive. `LooksInTime` says that while the kill switch is off the watchdog
  will look before the oldest stamp is more than `Allowed + Late` old: the time it
  still sleeps and the age of any stamp never add up to more than `Allowed`.
  `ReturnsInTime` says the same of the kill switch and of every thread's next
  return. Reports only make stamps younger, so the sum only shrinks except in the
  step that begins a sleep, where it is exact. Lemma `BecomeEffect` gives the
  effect of a step on the times of all threads, a woken one included.
- `ResponsivenessProofs!Fresh` and `NoFalseAlarm`: these two depend on the times,
  and the theorems say on what. `KeepsUp` (a period of the reader is longer than
  a print and twice the lateness of a thread) is enough for a fresh screen;
  `StaysAllowed` (the watchdog allows for the time to a refresh, a print and a
  late thread) is needed too for the alarm. The program's periods of 500 ms and
  2000 ms satisfy both for the disturbances of the run `responsiveness` (3 < 4
  and 15 <= 16 ticks); the print of 750 ms in `responsiveness_slow_print`
  satisfies neither. The invariant `Pace` describes the pipeline that keeps up:
  one item at most is under way and nobody waits for room (`InTurn`), and it is
  taken before the reader has the next one (`TakenInTime`); from that follow how
  old the screen can be at each point of an item's way (`Refreshes`) and how long
  each worker can have been silent (`ReaderReports`, `AnalyzerReports`,
  `PrinterReports`). It holds as long as no worker hangs and the kill switch is
  off, and ends with either; `CauseKept` says that an alarm raised later has its
  cause. TLC checked `Pace` on the instance before it was proved.
- `LoggerProofs!TypeCorrect`: as in the pipeline.
- `LoggerProofs!BuffersAreGuarded` assumes `LogIsPrompt`: then an attempt of the
  logger to lock times out only against the logger itself, and the property is
  inductive. Without the assumption it is false: another thread may hold the
  mutex for longer than the attempt lasts.
- `LoggerProofs!NoWakeupMissed` assumes it, too: `WakeInv` says that what the
  logger saw of the buffer is still true when it begins to wait, which needs
  `BuffersGuarded`.
- `LoggerProofs!FileIsInOrder` adds `OrderInv`: file, secondary buffer and input
  buffer are increasing and each is before the next; the secondary buffer is
  empty except between an exchange and its draining. An exchange would reverse
  the order of two buffers that both hold messages, which is why the second
  part is needed; and a client could write during the last draining of the input
  buffer, which is why mutual exclusion is.
- `LoggerProofs!LogRefinement`: under `LogIsPrompt`, `logger.c` implements
  `MessageLog`, whose pending messages are the secondary buffer followed by the
  input buffer. An exchange of the buffers is a stutter, but only because the
  secondary buffer is empty then (`OrderInv`); draining either buffer is a write
  of the first messages; an overwrite in the input buffer removes a message that
  `BufferItemCount` newer ones follow, the new one included (`PushLogs`).
  `FileInOrder` says nothing of what is lost, the refinement does.
- `CpuUsageProofs!UsageIsRight`: by congruence modulo W. The
  two sums have grown by exactly the ticks counted, but for a multiple of W
  (`UsageInv`); sums and differences keep congruences; and a difference that is
  congruent to fewer than W ticks is those ticks.
- `ProcStatProofs!DefinedUnlessCut` and `ComparesLikeWithLike`: `ParseEffect` says
  which line an entry of a sample comes from, for every set of processors, size
  of the file and size of the buffer. The older sample is the earlier newer one,
  so `StatInv` describes what either holds as long as no processor came or went
  since (`NewStatOK`, `OldStatOK`), and that the older one is never undefined:
  nothing is claimed of the program after `NULL` was scanned, so no sample
  follows an undefined one. The proofs need nothing of the order in which the
  kernel lists the processors (`numbered`), only that it is the same order as
  long as the same ones are online. `LoadShows` carries the argument through a cut:
  a line that ends in the buffer is read as it is, so that only the line at the
  end of the buffer is compared with a part of its counters.

- `AppLifecycleProofs!ThreadsUseLiveObjects` and `OnlyTwoRemain`: `main` is data
  in `AppLifecycle`, a sequence of operations. Lemma `Program` lays it out as 42
  operations, and from there on the proofs speak of four phases only: what is
  created before the first thread starts, the starts, the joins, and what is
  destroyed after the last join (`Phases`), where `Complete` says that each phase
  has everything it should. `LifeInv` ties the state to the position in the
  sequence: a thread that was started was created late enough (`StartedLate`,
  `CreatedBefore`), one that was joined has ended (`JoinedEnded`), and what is
  destroyed is destroyed late, and stays so (`DestroyedLate`, `DestroyedBefore`).
  A thread that runs is therefore not joined, and `main` is not yet at the
  destructions. TLC checked `LifeInv` on the instance before it was proved. The
  theorems hold for every `Fallible` set of buffers.

What stays with TLC is liveness: `KillStopsAll`, `StoppedIsNoticed`,
`KillEndsWatchdog`, `MessagesAreTaken`, `KillEndsLogger` and `EndsInTheEnd`. The
prover has no rule for `ENABLED`, on which fairness rests. Every invariant,
action property and refinement that a passing run checks is a theorem.

## Not modelled, and why

- `tests/` and the build files: they are not part of the program.
- Text: the format of log messages, of the screen and of the counters in a line
  of `/proc/stat`.
- Rounding of doubles in the percentage.
- The level filter of `Log`: `main` sets the level once, before any thread
  starts, so it only chooses which calls have an effect.
- `ProcStat_parse`: nothing calls it.
- A SIGINT that arrives while `system("clear")` runs is ignored by the parent
  (`printer.c:123`). Whether a signal arrives is the choice of the environment
  in every model, so losing one is not a new behaviour.
- The failure of `thrd_create`, whose result `main` ignores, and of the creation of
  mutexes, condition variables and thread-specific storage.
- The second destruction of a condition variable: an object that is gone stays
  gone in `AppLifecycle`.
- The failure of `mtx_unlock`, `cnd_timedwait` and `timespec_get` with valid
  arguments.

## Plan

In the order of their importance.

1. Done: `CircularBuffer` with its refinement; `Pipeline` with the three threads;
   `Watchdog`, `Timespec`; `Logger`; `CpuUsage`.
2. Done: `Responsiveness` with its proofs; `AppLifecycle`; `ProcStat`; the waits
   of `helpers.c` in `Timespec`.
3. Done: the proofs about the data of the pipeline, `NoEarlyAlarm` and
   `UsageIsBusyShare`; the calls of the circular buffer, `LowestIsOldest`,
   `ProcStat`, `ScreenIsFresh` and `AlarmHasCause`.
4. Done: `MessageLog`, and the proof that `Logger` implements it.
5. Done: `UsageFeed`, and the proof that the three threads implement it; the
   proofs of the life cycle.
6. Left: liveness, once a prover supports `ENABLED`.

Tools: `tlc -config X.cfg M.tla` for a run, `tlapm M.tla` for a module of proofs.
