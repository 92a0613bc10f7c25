# Verification of libmisc

libmisc is a small C library for Linux on MIPS routers: two timer lists, a crash
dumper, a stack unwinder, logging and a few helpers.  This directory holds TLA+
models of its stateful parts, the TLC runs that check them and TLAPS proofs of
the main results.

    tlc -workers 2 -config TimerSafety.cfg MCTimer.tla     # a run (see PROJECT.json)
    tlapm TimerProofs.tla                                  # the proofs of a module
    tlapm CrashProofs.tla

## The system

| component | state it keeps | operations | model |
|---|---|---|---|
| `misc_timer.c` one-shot timers | handle: sorted singly linked list, counter | `timer_init`, `timer_cleanup`, `timer_event_add`, `timer_event_delete`, `timer_execute_expire_events` | `Timer`, complete |
| `misc_timer2.c` periodic timers | handle: unsorted list, counter; per event interval, count, lastTime | `mTimer_init`, `mTimer_cleanup`, `mTimer_add`, `mTimer_delete`, `mTimer_executeExpireEvents` | `Timer2`, without passes nested in handlers |
| `misc_crash.c` crash dumps | `gbl_params`, `gbl_fd`, line and backtrace buffer; signal actions and descriptors of the process | `miscCrash_register`, `miscCrash_init`, `crash_handler` | `Crash`, complete |
| `misc_mipsbt.c` unwinder | list of memory maps | `mips_backtrace` | `Unwind`, complete |
| `misc_log.c` logging | level, destination, mask and name | `log_init`, `log_log` | `Log`, the path that is built |
| `misc_oil.c` OS layer | a System V segment | `oil_shmInit`, `oil_shmCleanup`, `oil_getCfgValue`, wrappers | `Shm`, `Log`; wrappers are I/O |
| `misc_util.c` helpers | a pid file | `misc_procEp`, `misc_pipeCmd`, `misc_pipeCmd_ex`, ... | `ProcEp`; the rest is I/O |
| `misc_net.c` | none | ioctl wrappers | no: pure I/O |
| `misc_mipsbt2.c` | none | an older unwinder | no: does not compile |
| `crash_test*.c`, `Makefile*` | | client and build files | no |

Interaction is by calls and callbacks.  The owner of a timer handle calls the
pass function from its main loop; a pass calls handlers of the client, and those call
the library back while the pass is in the middle of its list.  `crash_handler` is called
by the kernel between any two instructions, its own included; it calls the unwinder and
shares descriptors, `SIGCHLD` and `stdout` with the application.  The unwinder reads the code and
the stack of what was interrupted.  `misc_log` reads its attributes through
`misc_oil` from the nvram the CLI writes; processes meet in the segment of `oil_shmInit` and in the
pid file of `misc_procEp`.

What is hard in each, and what correctness means there:

* **one-shot timers**: callbacks that change the list a pass is using, nested passes, a
  wall clock that moves under stored deadlines, arithmetic on `struct timeval` without a
  carry.  Correct: the counter is the length of the list (the add trusts it), the list is sorted
  (the pass trusts it), no event is lost, fired twice or fired much too early, a pass ends
  and leaves nothing due.
* **periodic timers**: a pass keeps two pointers across a handler and removes events from
  the list it walks; the count is an `int` that is decremented even when it stands for
  "for ever".  Correct: no dangling pointer where one is read, once per pass, no drift, at most `count` times.
* **crash dumps**: nested signal handlers that share globals and static buffers, descriptors remembered
  by number, SIGCHLD saved and restored, calls that fail.  Correct: a dump is whole and shows its own
  frames, nobody uses a closed stream, the process ends after a fault and its resources are
  given back otherwise.
* **unwinder**: it guesses frames from code, reads addresses it found on a stack, with a list of
  mappings that may be old.  Correct: it finds the callers and only them, never faults, stays in the
  buffer and ends.
* **logging**: a configuration that changes under it, and a buffer filled piece by piece.  Correct:
  a message goes where the configuration says, whole.
* **shared memory and pid file**: several processes, check-then-act, processes that die anywhere.
  Correct: the segment is freed by the last one and not before; one instance is left.

`PROJECT.json` lists the hazards line by line with the properties that answer them.

## Modules

    Timeval            struct timeval and its arithmetic, both timer libraries
      Timer            misc_timer.c
        TimerContract  what a one-shot timer service promises (instantiated by Timer)
        MCTimer        symmetry for TLC
        TimerProofs    inductive invariants, theorems, the refinement
      Timer2           misc_timer2.c on an explicit heap
        MCTimer2       symmetry for TLC
        Timer2Proofs   inductive invariant and theorems
    TimerLemmas        sequences, sums of timevals, least numbers: facts for both timers
    Crash              misc_crash.c, signal handlers that interrupt one another
      CrashProofs      inductive invariants and theorems
    Unwind             misc_mipsbt.c over a program, a stack and mappings
      MCUnwind         the program
      UnwindProofs     inductive invariant and theorems
    Log                misc_log.c with the nvram reads of misc_oil.c
      LogProofs        inductive invariant and theorems
    Shm                oil_shmInit and oil_shmCleanup of misc_oil.c by several processes
      MCShm            symmetry for TLC
      ShmProofs        inductive invariant and theorems
    ProcEp             misc_procEp of misc_util.c by several processes
      ProcEpProofs     inductive invariant and theorems

Definitions have the names of the functions they model.  A definition whose name ends in
`_wrong` is not part of a model: it is the definition after it with a plausible slip, and
each property of a passing run is violated when the one is put in the place of the other
(the pairs are in `PROJECT.json`, `mutants`).

### Timer

`events` is the list from `th->events`, `tail` the pointer its last cell holds: NULL, or
`WILD` for the field that no assignment sets when an event is added with `number = 0`.
`passes` is the stack of running calls of `timer_execute_expire_events`: a frame holds the
clock reading of line 228 and the handler that runs, or NULL while the loop is at its test.
One action is one call of the library, except the pass, which is cut where it calls
out: `ExecuteBegin` (228-229), `ExecuteFire` (233-240), `CallbackReturns` (242-244),
`ExecuteReturn`.  Between the last two any handler may call any function, so library
actions need `CanCall`: no pass at all, or a handler on top.  `Due(e)` is the exact
instant the client asked for; the code stores `expire`, which differs from it because
microseconds are not carried.

Rules for clients, which the code needs and the model grants: `ms >= 0`; no
`timer_cleanup` inside a pass.

### TimerContract

A set of armed events, a stack of passes and a clock, without list, counter or
timeval.  An event fires once, early by less than `Slack`, ahead of another one due before it
only by less than `Slack`; a pass ends only when nothing is due.  `Timer!ImplementsContract`
instantiates it with `Slack` = one second, which is what the missing carry costs.

### Timer2

`cell` is memory, `live` the allocated cells, `head` is `th->events`; `pass` holds the
locals `tv`, `curr`, `tmp`, `eventTv` of the running pass.  `Walk` follows `next` from the head.
A read through a free cell or `WILD` is undefined behaviour; the model makes the process
fault there.  `HandlerReturns` is lines 261-265, the decrement with int wrap, the delete by
key and the second decrement of `number`, and `UpdateLastTime` lines 267-271, where `lastTime` is written through
`curr`.  After the last firing `curr` is the event line 263 has just freed, as happens with every event that has a count: the
process may fault there (`ExecuteFault`), or the write has no effect, as the memory has no new owner yet, and the pass goes on.
`NoDanglingPointer` names this write as the only use of a freed cell.  `seen` remembers what the running pass
has fired, for the properties.  Clients do not start a pass or clean up inside a handler;
`DeleteFrom` says whether handlers may call `mTimer_delete`, which the header does not declare
but the linker exports.  `misused` records that a handler has deleted: what the properties about pointers
and progress promise ends there.  Where malloc leaves garbage in the `next` line 165 never assigns, the list ends in `WILD`
instead of NULL (`Ends`), and a pass that gets there faults; the properties hold up to that, the liveness ones
with `status = "crashed"` as their way out.

### Crash

`stack` holds the running handlers.  A handler goes through the stages of
`crash_handler` → `outputInit`, `outputBacktrace` (`outputCmd`, the unwinder),
`outputFini`, reset, return.  `outputPrintf` is `Format`, which fills the one static `line` all
handlers share, and a `WriteTo` for each destination there is: the descriptor is looked up when
the previous write has been made (`GoOn`) and passed by value, the content is that of `line` at the moment of
the write.  `Deliver` may put another handler on top between any two steps.  `trace` is the backtrace
buffer, as the number of the dump that stored it.  `fds` is
the kernel's table of descriptors, with the rule that `open` takes the lowest free
number; `stdio` says whether the FILE `stdout` is still open, `gbl` is `gbl_fd` with the
fields of `gbl_params` that change.  Registering leaves one descriptor open for good, that of
`/proc/<pid>/stat` (`misc_crash.c:403`), so that the device's is the next.  `out` is what every sink has received.  The lines one stage
prints are one line of the model.  `Failures` names what may go wrong: no path for the device, a
device, file or pipe that does not open, a failed or short write to any sink (in `blockingWrite` `bytes` shrinks and
`offset` does not, so that what follows is not the line; EINTR ends the loop), and a line of a command or
file beyond `MAX_LINE_LEN`, which is dropped.  Writing beyond the backtrace buffer may
or may not be noticed: both outcomes are there.  Descriptors that `popen` and `fopen` hold
for a moment are left out: no code stores their numbers.

### Unwind

`Execute` (external) runs a program of the few instructions the unwinder looks for; `callers` is
the true chain of return addresses.  `Begin` is lines 141-170 and may come between any two
instructions; the actions of `Scan` are one turn of the loop each, by the case of the switch it
takes.  `head` is the list of mappings: read by every call, kept from the first.  `maps` is what the process
has; a read outside it faults.  `CompilerAssumption` says what the unwinder counts on in the code, which is what gcc makes
without optimisation: `misc_mipsbt.c:13-16` warns of anything else, and `Makefile.crash:17` has no `-O`.  A function may
begin with the instructions that set up `gp` (the file is built with `-fPIC`), then makes its frame, whose size is
fixed, saves `ra` with the next instruction if it calls others, touches neither in between, and returns by loading `ra`, restoring what
else it saved, removing the frame and jumping.  The startup code, which runs before all functions, has a frame and saves no
`ra`; a function lies in one mapping.  It is an assumption on the constants `Text`, `Startup`, `Functions`
and the mappings, which TLC checks of the program of `MCUnwind`.

Limits of the method, outside of what the properties claim: between the instructions that make and
fill a frame (`FrameIsWhole`) the unwinder follows a frame that is not there.  Optimised code is outside of
`CompilerAssumption`: a leaf that makes no frame, and a call that never returns at the very end of a function, are
attributed to the function before it in memory, and a compiler that moves the save of `ra` away from the start hides the caller.

### Log

A call of `log_init` or `log_log` reads three attributes in three steps (`ReadAttr`), filters, builds the
line and sends it.  `Configure` (external) is the CLI: it sets or removes a key between any two steps, and
`changed` notes for the properties which attributes it touched during the call.  `Key` is the cut of
`get_appLogAttr`: with a name of 6 characters the level's key is no longer
`<name>_log_level`, from 7 none of the three is whole, and from 10 the three attributes share one.  `SetKey` is the key the CLI sets: the
whole one where it fits in 15 characters, so that a cut at another place would be seen, and otherwise the one it is cut
to, which nothing but the code defines.  A line is the sequence of its
pieces with place and length.  `FullLine` is the chain of calls that fills it, each of which (`Add`) starts where
the one before wanted to end; a time stamp has 6 to 8 characters.  `snprintf` (external) treats a negative size as the `size_t` it becomes.
`wanted` keeps what the pieces would have been with room for all of them.  `log_log` is called after `log_init`; before it the name
is empty and the keys read are `_log_level` and so on.  To `syslog` the line is passed as the format (`misc_log.c:201`): what
the log shows is what `syslog` makes of it, and `LineIsWhole` is about the line that was built.

### Shm

`status` and `attached` are the kernel's segments, `proc` the place and the variables of every process;
each system call is a step.  `Publish` (external) hands the id to the others, `Exit` (external) is a process that
dies at any point.  `met` remembers who joined or left since a process counted, for the properties.

### ProcEp

`owner` says what each pid is: free, an instance of the program, or a stranger; `file` is the pid file and
`call` where an instance is in `misc_procEp`.  Opening for writing empties the file, so that another
instance may read nothing; a short pid written over a longer one leaves digits of it.
`told` are the processes that have been sent SIGTERM.  They end (`Exit`) at any time after, or never, as the signal may be handled,
blocked or slow: `misc_procEp` does not wait, so that it may return, and further instances start, while several
run.  Every call may fail without notice: opening and reading the file, `kill` (EPERM), opening for writing, the write itself.
`odd` remembers overlapping starts, reused pids and calls that failed.  `OneInstance` is thus about who has been told to end,
which is all the code brings about; that the others have ended before the new one goes on, as
`misc_util.h:8` has it, is not true and is not claimed.

## Runs

Passing runs:

| run | question | bounds |
|---|---|---|
| `TimerSafety` | counter, duplicates, early firing, what a pass fires and leaves | 2 handlers, delays 0, 1, 3, nesting 2, clock 0..6 both ways, malloc leaves NULL or garbage |
| `TimerContract` | order of the list, refinement, liveness | 3 handlers, delays 0, 1, nesting 2, clock 0..4 forward |
| `Timer2` | which pointers lead to freed events, list, count, phase, once per pass, progress | 2 handlers, 2 cells, intervals of 1.5 s, counts 0..2, clock 0..8, handlers that delete, garbage from malloc |
| `Crash` | dumps whole and their own, streams closed, SIGCHLD restored, a fault is fatal | 3 signals, nesting 2, one failure of any kind |
| `Unwind` | finds the callers, uses the buffer but its last entry, no fault, in bounds, ends | 41 instructions, 13 words of stack, 2 dumps, sizes 1, 2, 3, 6 |
| `Log` | configuration followed, line whole | names of 5, 6, 9, 10, 20 characters, lines up to and beyond 512 |
| `Shm` | freed by the last one, never while in use | 3 processes, 2 segments |
| `ProcEp` | one instance not told to end, strangers are spared | 3 pids of one and two digits |

Why these are enough.  A second has `MSECS_IN_SEC` squared microseconds, so with 2 a clock
of 0..6 crosses a second, and delays 0, 1 and 3 are none, less than a second and more than a
second with a part that needs the carry; `Timer2` reads its clock at multiples of
`ClockStep`, half a second.  Three events are needed to insert
between two others, two to have one in the hands of a pass and one in the list; a nested
pass inside a nested pass does nothing a nested pass does not.  Three signals are one
that is fatal, one that ends the process once reset and one that it survives, so that dumps come in
sequence as well as nested; descriptors
0..7 are the standard three, the one that leaks, the device and one file for each of three handlers.  The program of
`MCUnwind` has recursion, a leaf, an early return, functions that set up `gp`, a library that calls back and that is
unmapped; the second of two dumps is the one with the old list.  Names of `Log` are the longest that has three whole keys and the first that loses the
level's, the longest with three keys and the first with one, and one longer than the name's buffer; locations of 511 and 512 are the last that leaves
room for the terminating 0 and the first that does not.  Three processes are two that leave together and one that
comes meanwhile; two segments are one that is shared and one created beside it.  Three pids are an instance,
its successor and another program or a third instance, and all of them are reused.
The bounds that are not in the code are `MaxTime`, `MaxDepth`, `MaxFires`, `MaxDrift`, `ClockStep`,
`MaxSignals`, `MaxNesting`, `MaxFailures`, `MaxDumps`, `MaxSegments`, `Cells` and `LastFd`, each in
the guard of the action it limits.

Deadlock is checked except where the process may end: after a fault through a wild or a freed pointer
(`TimerSafety`, `TimerWild`, the three runs of `Timer2`), in the runs of `Crash`, and in `Unwind`, whose program ends.

Runs that show a disagreement of the code with a comment or document (`findings`
in `PROJECT.json` quotes the line):

| run | what TLC shows |
|---|---|
| `TimerWild` | `next` of an event added with `number = 0` is never assigned |
| `Timer2Forever` | an event with count 0 is dropped by the add of another one, because the last firing of an event decrements the counter twice |
| `Timer2Early` | an event fires before its interval is over: `<=` on seconds; with an interval below a second it fires at every pass |
| `CrashClosed` | a handler inside `outputFini` of another one writes to a closed FILE |

More that the models reproduce, without a run of its own:

* `misc_timer.c:51`: without a carry an event may fire before the instant asked for, which
  `EarlyByLessThanASecond` bounds.
* `misc_timer2.c:264`: `number` falls behind the list (`CountNeverAboveList` is the half that holds).
* `misc_timer2.c:261`: the count of an event that loops for ever wraps and reaches 0.
* `misc_timer2.c:267`: after the last firing of an event `lastTime` is written to the cell line 263 has freed.
* `misc_timer2.c:165`: `next` of an event added with `number = 0` is not assigned here either.
* `misc_timer2.c:259`: when a handler deletes the event `tmp` points to and adds events, a pass can run into cells
  that are used again and meet an event twice that the list has lost; so `FiresAtMostCount` is about the events
  in the list where handlers have deleted.
* `misc_crash.c:127`: a handler interrupted by another one loses the descriptor of its file, so
  `StreamsAreClosed` counts files instead of asking for none; when it was interrupted inside a write it goes on with
  the descriptor it had and adds one stray line to its file.
* `misc_crash.c:203`: when `popen` fails SIGCHLD is not put back; `SigchldIsRestored` is checked where it
  succeeds.
* `misc_crash.c:424`: without a path `fd` is 0; the dump goes to descriptor 0 and `outputFini` closes it.
* `misc_crash.c:403`: the file with the name of the process is never closed.
* `misc_crash.c:361`: the backtrace buffer is allocated with depth 0, before the default is set.
* `misc_crash.c:152`: a dump for SIGURG, which the process survives, closes the device: a
  later crash does not reach it.
* `misc_mipsbt.c:74`: the list of mappings is that of the first dump: a library loaded since is unreadable to the
  next one (`FindsAllCallers` is stated where the list still covers the mappings), and one that was unmapped
  may make the handler fault when the frame is not whole.
* `misc_mipsbt.c:228`: the test comes after the second entry, and stops one entry before the buffer is full.  With size 1 the
  buffer is overrun by one entry (`EntriesFit` says never by more), and with more than two its last entry is never used
  (`FindsAllCallers` says no other is), while lines 8 to 10 promise the same functionality as `backtrace` of glibc,
  which uses all of it.
* `misc_mipsbt.c:103`: the first word after a mapping counts as readable.  A dump of a whole frame never gets there; others may, and fault.
* `misc_log.h:47` says "Default log destination is standard error", line 48 makes it `LOG_DEST_SYSLOG`.  `FollowsConfiguration`
  leaves open where a message goes while its key is absent.
* `misc_log.c:53`: for names of 6 characters and more `<name>_log_level` has no effect, from 7 none of the whole keys has, from 10 one
  key sets all three.
* `misc_log.c:192`: a line for telnet is lost when the terminal cannot be opened.
* `misc_oil.c:118`: after a failed `shmat` `oil_shmInit` returns 0 with the address -1, which no property forbids.
* `misc_oil.c:153`: two processes that leave together each count the other and the segment stays; one that attaches
  between the count and `IPC_RMID` is left in a segment marked for destruction.
* `misc_util.c:89`: the result of `kill` is ignored and nobody waits, so that `misc_util.h:8` "kill the process first if it's
  running, then start" does not hold: instances that were told to end may still run.
* `misc_util.c:88`: of two starts that overlap both survive; a pid that was reused gets a stranger killed.

## Fairness

* `Timer`: `WF(passes = <<>> /\ ExecuteBegin)`: the owner of the handle keeps calling the pass
  function, which is how the library is meant to be used; `WF` on the steps of
  the loop: the code runs; `SF(CallbackReturns)` for every depth: a handler returns, although it
  may start passes of its own first, during which it is not the one that runs.  No fairness for
  clients or the clock.
* `Timer2`: the same with weak fairness, since passes do not nest there.
* `Crash`: `WF(crash_handler)`: the process is scheduled.  Signals need not come.
* `Unwind`: `WF(Scan)`: the handler runs.  No fairness for the program.
* `Log`, `Shm`, `ProcEp`: none; their properties are safety.

The clock stops at `MaxTime`; liveness is about events that are overdue already.

## Proofs

The constants' assumptions are named and stand in the modules that declare them
(`MsecsAssumption`, `TimerAssumption`, `Timer2Assumption`, `CrashAssumption`, `UnwindAssumption`,
`CompilerAssumption`, `LogAssumption`, `ShmAssumption`, `ProcEpAssumption`); TLC
evaluates each in the runs of its module.  Nothing else is assumed, except where a theorem says so.
Every safety property that a passing run checks is a theorem.

| module | theorem | states |
|---|---|---|
| `TimerProofs` | `TypeCorrect`, `CountCorrect` | `[]TypeOK`, `[]CountMatchesList` |
| | `NoDuplicates`, `AlwaysSorted` | `[]NoDuplicateKeys`, `[]Sorted` |
| | `EqualExpiryInOrder` | `EqualExpiryIsFIFO` |
| | `NeverASecondEarly` | `EarlyByLessThanASecond` |
| | `OnlyOlderEventsFire` | `RearmedWaitsForNextPass` |
| | `PassFiresAllDue` | `PassLeavesNothingDue` |
| | `TimerImplementsContract` | `ImplementsContract`, where `MallocNext = {NULL}` |
| `Timer2Proofs` | `TypeCorrect`, `ListIsSound` | `[]TypeOK`, `[]ListSound` |
| | `PointersStayGood` | `[]NoDanglingPointer` |
| | `CounterFallsBehind` | `[]CountNeverAboveList` |
| | `CountIsKept`, `ScheduleIsKept` | `[]FiresAtMostCount`, `[]KeepsPhase` |
| | `OncePerPass`, `NothingIsMissed` | `FiresOncePerPass`, `PassMissesNothing` |
| `CrashProofs` | `TypeCorrect` | `[]TypeOK` |
| | `FramesCorrect` | `[]FramesAreOwn` |
| | `SigchldCorrect` | `[]SigchldIsRestored` |
| | `StreamsCorrect` | `[]StreamsAreClosed` |
| | `UndisturbedIsInFile` | `[]UndisturbedDumpIsInFile` |
| | `FirstIsEverywhere` | `[]FirstDumpIsEverywhere` |
| `UnwindProofs` | `TypeCorrect`, `BufferBound` | `[]TypeOK`, `[]EntriesFit` |
| | `CallersOnly`, `AllCallers` | `[]FindsCallersOnly`, `[]FindsAllCallers` |
| | `DumpsDoNotFault` | `[]NeverFaults` |
| `LogProofs` | `ConfigurationIsFollowed` | `[]FollowsConfiguration` |
| | `LinesAreWhole` | `[]LineIsWhole` |
| `ShmProofs` | `LastFrees` | `[]LastOneOutFrees` |
| | `UsersKeepIt` | `InUseIsNotFreed` |
| `ProcEpProofs` | `OneIsLeft` | `[]OneInstance` |
| | `StrangersAreSpared` | `SparesOthers` |

### Timer

For every set of handlers and delays, every clock bound, nesting bound, resolution
`MSECS_IN_SEC > 0`, with or without clock steps and for either content of `malloc`'s memory.

The argument goes up three inductive invariants.  `CountInv` is the types and
`number = Len(events)`: types alone are not inductive, since `number` stays natural
only because the list it counts is not empty when it is decremented.  `ListInv` adds
order and absence of duplicates; it needs the counter, because with `number = 0` the add
replaces the list.  `ClockInv` dates things: `expire` of an event is `AddMsec` of the split of the
instant it was added, and the clock of a frame is a split instant.  With it `DatedEvent` bounds the
distance between `expire` and the instant asked for by one second, in the order of the code as well as
in microseconds.  The action properties follow from `IInv` (all three) and the
fact that only the loop fires.  `PassLeavesNothingDue` needs sortedness and, for the
head that ends the loop, that an `expire` not before the clock belongs to an event that is not due.
`EqualExpiryIsFIFO` is about places: a step that takes events out keeps the places of the others
(`SublistKeepsPlaces`), and one that adds an event puts it behind all that expire when it does, because the search
of `timer_event_add` passes over them.
The refinement maps the list to the set of its events; its steps are that `InsertAt` adds one element
and `RemoveAt` removes one, because keys are unique.  The hypothesis on `MallocNext` is
what the finding `TimerWild` is about: with garbage in `next` the process may fault, which the contract does not allow.

### Timer2

For every finite memory, handlers, intervals, counts and width of `int`, with handlers that delete and with garbage from
`malloc`.  The invariant has two witnesses, found anew after each step: the path of cells from `th->events` to its end
(`ListOK`), and the path from where the pass goes on, `tmp` or the cell after `curr`, to its end (`RestOK`).  Either
the second is in the first, or the two have nothing in common (an add that found `number = 0` has dropped the list
under the pass).  `number <= Len(list)` has to be part of it, since with `number = 0` the add drops the list and with a
number too high nothing could be said of the delete.  `PassOK` says what the handler that runs may still rely on;
`CountOK` ties the firings of an event to the count that is left, with one more while its handler runs.
`NoDanglingPointer` is then that a cell on a path is allocated, and that `curr` is on one except between the delete and
the write of `lastTime`; `FiresOncePerPass`
that the rest of the pass has no event it has seen; `PassMissesNothing` that every event of the list that is due has been
seen or is still to come.  Where a path would lead into itself the proofs take the least place at which it does
(`LeastNumber`, from the well-founded order of the naturals).  TLC checked the invariant before it was proved,
with its witnesses computed, on two and three cells; three cells gave the case of `misc_timer2.c:259` above.

### Crash

For every set of signals, every nesting and any failures.  `FramesAreOwn` says that the
frames a dump prints are its own, wherever they are written.  `FramesInv` adds what the handler on top may rely
on (`TopInv`): when it prints its frames, either the backtrace buffer is its own or it has no
stream left, because whoever overwrote the buffer has run to its end and closed them.  `ChldInv`
follows the action of SIGCHLD down the stack: the first handler that saved one saved
the application's, each one above saved the default, and the action is the default while
anyone has saved one.  Restoring from the top down ends with the application's.

`StreamsAreClosed` has two parts.  `StreamInv`: a handler past the close of stdout, of the device, or past the
reset of the flags finds it done, whoever runs in between, because nothing opens them again.  `FileInv` counts: the
open files and the handlers that have yet to open theirs are never more than the handlers so far, and fewer as soon
as one of them has closed a file; until then `gbl_fd` is that of an open file or there was one less from the start.

`DumpInv` is about a handler that is alone from its start to its end.  While it runs, the last lines of every
sink it has are the parts of its dump that are finished, and no earlier line is its own (`LinesOK`); each destination
is the sink it is meant to be, or descriptor 0, where no dump is looked for (`SlotsOK`); the line in the buffer is
that of the write under way (`StepOK`).  Descriptors that other handlers have closed may be in the fields of
`gbl_params`, but the flags say that they are not used.  The first dump has all three sinks as far as
they could be opened (`Fresh`).

### Unwind

`TypeOK` and `EntriesFit` hold of every program, stack, mappings and sizes.  `EntriesInv` adds to `EntriesFit` that
a scan in progress has room for one more entry (`ScanHasRoom`): line 228 tests after storing, so the bound is
`size`, and two when `size` is less.

The others hold of every program that satisfies `CompilerAssumption`, that is of code as gcc makes it without
optimisation and of no other: any functions, any depth of calls and recursion,
a library that comes and goes, a dump between any two instructions.  `MachineOK(fr)` says that there is a chain of frames
`fr`, one for each call that runs: they lie on the stack one above the other, their functions are mapped, each caller waits inside
the function of the next frame, and every frame but the current one holds the return address where its function
saves it.  The current function is in one of five parts (`Runs`): entered, frame made, whole, `ra` loaded, frame removed.
Each instruction leads from one to another; a call puts a frame in front, a jump takes it away.
`DumpOK(fr)` ties a dump of a whole frame to these: with k entries in the buffer, which are the first k of the chain, the
loop is in the function of frame k, has its stack pointer, and knows the place of `ra` exactly when it has reached
the first instruction.  In the body it meets no other instruction that looks like the beginning of a function, so the next
entry is the caller; before the first function it finds nothing to read.  Reads stay on the stack and in functions that run,
which are mapped.  Both were checked by TLC on the program of `MCUnwind`, with `fr` computed by
following the frames, before they were proved.

### Log

For every length of names, locations and messages, every level, destination and mask, and a configuration
that changes anywhere.  A buffer is `Good` when `snprintf` has filled it without a gap: as long as `len` is inside, every piece
is there whole, and once it is outside the line is full; `Add` keeps that, so every chain of calls does.  For the configuration,
`AttributesAreRead` says that an attribute the CLI has not touched since the call began has been read as it is;
the name that is kept is cut (`NameIsCut`), but its keys are those of the whole name (`CutNameHasTheKeys`), and those are
the keys that were set (`KeyIsSetKey`).  `Answered`
relates what was sent to the attributes, piece by piece.

### Shm and ProcEp

For every finite set of processes, any number of segments and every set of pids.  In
`ShmProofs` the heart is `CountInv`, what a count of IPC_STAT still tells
when it is used: who counted only itself finds nobody but those in `met.joined`; who counted another one finds somebody,
or `met.left` is not empty.  It needs that kernel and processes agree on who is attached
(`AttachedInv`, `StaysInv`), and that a segment its creator could not attach is known to nobody else
(`OwnInv`, `FreshInv`).  In `ProcEpProofs` `AloneInv` says that without overlap only the last one
started can be inside `misc_procEp`, so the file it has emptied stays empty until it writes; `OthersInv` narrows down, step by
step, who else may be alive without having been told to end; `PidsInv` keeps strangers apart from every pid in the file or read from it.

### Only model-checked

Liveness, which is out of the prover's reach: `OverdueFires` and `PassesReturn` of both timers, `FaultIsFatal` of `Crash`,
`BacktraceReturns` of `Unwind`.  The four findings are counterexamples, which TLC finds and nothing proves.

## Plan

Done: every stateful part has a model, its runs and, for safety, its proofs.  What is left:

1. What liveness rests on and the prover can reach: that every turn of the loop of a pass, and of `mips_backtrace`
   on compiled code, makes a measure smaller.
2. An abstract specification of `Timer2` like `TimerContract`, for handles that are not misused, and its refinement.

## Not modelled

* `misc_mipsbt2.c`, which does not compile (undeclared names) and which no Makefile builds.
* The table of levels that `log_init` keeps in shared memory under `SHM_SUPPORT`: that branch does not compile
  either (`line` is not declared, `misc_log.c:271`).  A build without `CONFIG_SCM_SUPPORT` reads no
  configuration and always logs with the defaults.
* `misc_net.c`, and what is left of `misc_util.c` and `misc_oil.c`: wrappers of ioctl, popen, syslog and
  gettimeofday that keep no state.  `crash_test.c` and the Makefiles.
* Text: names of events, messages, the format of dumps and of log lines, except the length of a log line.
* Failure of `calloc` for a handle; `ms < 0` and overflow of seconds.
* The offset in a dump file; what a descriptor of `popen` or `fopen` does in the moments it is open.
* Threads: nothing in the library locks, and neither timer handles nor `gbl_params` nor the attributes of
  `misc_log` are meant to be shared between threads.  Locks inside libc that a signal handler may find taken.
