# A verification development for libtask

TLA+ modules, TLC runs and TLAPS proofs about libtask, the library of
cooperative tasks (coroutines) for C in this repository: one scheduler loop,
tasks with stacks of their own, and channels, locks, condition variables,
timers and descriptor waiting built on it.

## 1. The system

One operating-system thread runs everything. `main()` creates the task of
`taskmain()` and enters `taskscheduler()`. A task keeps the CPU until it calls
`taskswitch()`, directly (`taskyield()`, `taskexit()`) or inside a blocking
primitive; the scheduler then frees it if it exited, and runs the head of the
FIFO `taskrunqueue`. A primitive parks its caller on a list of its own and
switches out; another task later takes it off and calls `taskready()`.

| component | state | operations | uses |
|---|---|---|---|
| Scheduler, `task.c` | `alltask`, `nalltask`, `taskrunqueue`, `taskcount`, `tasknswitch`, `taskexitval`, `taskrunning`; per task `system`, `exiting`, `ready`, `alltaskslot` | `taskcreate`, `tasksystem`, `taskyield`, `taskready`, `taskswitch`, `taskexit`, `taskexitall`, `taskscheduler` | task lists, context switch |
| Task lists, `task.c` | `head`, `tail`, and one `next`/`prev` pair per task, shared by all lists | `addtask`, `deltask` | |
| Channels, `channel.c` | per channel a ring buffer and two arrays of waiting `Alt*`; `Alt` arrays on the callers' stacks | `chancreate`, `chanfree`, `chanalt`, `chansend`/`chanrecv` and variants | `taskready`, `taskswitch` |
| Queuing locks, `qlock.c` | `owner`, `waiting` | `qlock`, `canqlock`, `qunlock` | lists, `taskready`, `taskswitch` |
| Reader-writer locks, `qlock.c` | `readers`, `writer`, `rwaiting`, `wwaiting` | `rlock`, `canrlock`, `runlock`, `wlock`, `canwlock`, `wunlock` | the same |
| Sleep and wakeup, `rendez.c` | `waiting`, the lock `l` | `tasksleep`, `taskwakeup`, `taskwakeupall` | queuing locks, lists |
| Descriptor and timer task, `fd.c` | `pollfd`, `polltask`, `npollfd`, sorted list `sleeping`, `sleepingcounted` | `fdtask`, `taskdelay`, `fdwait` | `taskcount`, `taskyield`, `poll()` |
| Descriptor I/O, `fd.c` | none | `fdread`, `fdread1`, `fdwrite`, `fdnoblock` | `fdwait` |
| Network, `net.c` | none | `netannounce`, `netaccept`, `netlookup`, `netdial` | `fdwait`, sockets |
| Formatted output, `print.c` | none | `vseprint` and callers | |
| Context switch, `context.c`, `asm.S`, `386-ucontext.h` | saved registers, the stacks | `makecontext`, `swapcontext`, `getxmcontext`, `setxmcontext` | |
| Diagnostics, `task.c` | names and states of tasks | `taskname`, `taskstate`, `taskinfo` (SIGQUIT handler), `needstack` | `alltask` |
| Examples | | `primes`, `tcpproxy`, `httpload`, `testdelay` | all of the above |

What is hard to get right, component by component (PROJECT.json, "hazards",
has each at its line):

* **Scheduler.** The clean-up moves the last table entry into the freed slot
  and frees the task; the table grows in chunks of 64 and never shrinks;
  `taskcount` is changed in three places; the end of the program is decided
  before looking for a ready task; `tasknswitch` wraps. Correct means: the
  queue holds each ready task once and no freed one, every task knows its slot,
  the count is right, the program ends exactly when it should and with the
  right status, and a ready task runs.
* **Channels.** One call waits on several channels; whoever completes one of
  its Alts withdraws the others before the caller runs again; the ring buffer
  and waiting senders must hand values over in order. Correct means: exactly
  one Alt of a call happens, no pointer into a dead stack frame stays behind,
  nobody waits for what is there, no value is lost, made up or overtaken.
* **Locks.** Unlocking hands the lock to a waiter that has not run yet.
  Correct means: exclusion from that moment on, no newcomer slips in, nobody
  waits for a free lock, and nobody starves.
* **Sleep and wakeup.** Queue, unlock and switch-out are one step, the lock is
  taken again after the wakeup, with a second wait if need be. Correct means:
  no wakeup is lost, and `tasksleep()` returns with the lock.
* **Descriptor task.** Polls only when nothing else ran; removes poll entries
  while walking over them; borrows one count of `taskcount` for all sleepers;
  takes its times from the wall clock. Correct means: everyone who waits is on
  one list exactly once, those whom `poll()` reports and those whose time has
  come are readied and nobody else, the whole process blocks only when nobody
  can run and not beyond the first alarm, and the program still ends when it
  should.
* **Descriptor I/O and network.** Tasks that share a descriptor are woken
  together and only one finds something. Correct means: the bytes arrive in
  order, results say what happened, every call returns, no descriptor leaks.
* **Task lists.** A task has one pair of links for all lists, and `deltask()`
  leaves them behind. Correct means: the pointers represent the sequence.
* **Context switch.** `getcontext()` returns twice, and the call in between
  overwrites the return address of the first return. Correct means: stack and
  registers survive while others run, and no switch writes below its stack.
* **Diagnostics.** The SIGQUIT handler reads the task table between any two
  stores of the program.
* **Formatting and parsing.** Boundary numbers, full buffers, short addresses,
  and locals that are read before they are set.

## 2. The modules

```
 Coop  <-- refined by --  Sched  <-- EXTENDS --  SchedHist
  ^
  | EXTENDS
  +-- Channel -- refines --> Exchange
  +-- QLock <-- EXTENDS -- Rendez <--+
  +-- RWLock <-----------------------+-- EXTENDS -- Locks
  +-- FdTask -- refines --> FdWait <-- INSTANCE -- FdIO, Net, Proxy

 TaskList (the lists as pointers)    AltArray (the sets of Channel as arrays)
 TaskInfo (the steps of Sched store by store)    Context (the switch itself)
 ParseIp, Vseprint (pure functions)  Primes (a program over Exchange)

 Programs: FdIO, Net, Primes, Proxy  Parts: TaskList, AltArray, TaskInfo, Context,
                                            ParseIp, Vseprint

 QueueFacts  <-- EXTENDS --  CoopFacts  <-- EXTENDS --  LocksProofs, ChannelProofs, FdTaskProofs
             <-- EXTENDS --  SchedProofs (SchedHist), IOProofs (Programs),
                             PartsProofs (Parts)
```

**`Sched`** is `task.c`. One action per call (`TaskCreate`, `TaskSystem`,
`TaskYield`, `TaskExit`, `TaskExitAll`) and per half of the scheduler loop:
`Dispatch` (or `Done`, `Stalled`) is the loop from its top to `contextswitch()`,
`SwitchedOut` is what follows it, clean-up included. Since a task is never
interrupted, a whole call is one step. The primitives of the other files
appear only through what they do to the scheduler: `Wake` readies parked tasks
and returns, `Block` readies parked tasks and switches out. C variables keep
their names; `alltask` is a sequence (slot *i* is element *i + 1*), `allcap`
is the size last given to `realloc()`, `yieldn` is the local `n` of a
`taskyield()` in progress, `ended` tells which `exit()` was reached. A Task
block that was freed may be returned by the next `malloc()`, so `Task` is a
set of addresses and not of tasks.

**`SchedHist`** adds history variables: which tasks were ready when a task
yielded, which ran since, and how the last non-system task left.

**`Coop`** is the contract of the scheduler as its users rely on it, without
table, flags and counts: an exiting task is gone when it switches out, and
`taskcount` is the question whether a non-system task is left. `Sched` is shown
to implement it, and the primitives are modelled on top of it, so the
interleavings they are checked under are those of the real scheduler.

**`Channel`** is `channel.c`. `ChanAlt`, `ChanAltFails` and `ChanAltParks` are
the three ways through `chanalt()` up to its return or `taskswitch()`,
`ChanAltReturns` is the rest of a parked call. An `Alt*` is a pair of task and
index; an Altarray is a set, as `delarray()` does not keep the order and
`altexec()` draws an entry with `rand()`. Values are model values, `Junk` stands
for memory nobody wrote, `NullPtr` for a nil pointer in an Alt (which sends
zeros or drops what it receives, `amove()`).

**`Exchange`** is what channels promise: FIFO buffers of bounded capacity and
calls of which exactly one Alt happens, atomically with its counterpart.
`Channel` is shown to implement it: a waiting call is settled in the step that
readies its task, whenever that task runs again.

**`QLock`**, **`RWLock`** and **`Rendez`** are `qlock.c` and `rendez.c`. `held`
and `mode` record what each task got from the lock and not gave back; `wants`
and `asleep` say inside which call a task waits. `Rendez` extends `QLock` and
uses its operators, as `rendez.c` calls `qlock()` and `qunlock()`. The
definitions of `RWLock` are its own; only the tasks and their scheduling are
shared. **`Locks`** composes the three: the same tasks use locks, Rendezes and a
reader-writer lock in any order, which is what the one pair of links in a Task
has to bear. Its steps are the steps of one file with the state of the others
unchanged, and a task inside one call makes no other.

**`AltArray`** has the Altarrays as `channel.c` keeps them: sequences with an
allocation that grows in steps, entries deleted by moving the last one into
their place. `Queueing` and `Dequeueing` are the loops over the Alts of one
call, turn by turn, so that a call that names a channel twice is there, and an
Alt that is not found is the `abort()` of `altdequeue()`. It justifies the sets
of `Channel`. `chanfree()` is here, for programs that free a channel nobody
waits on and do not use it again.

**`TaskList`** is `addtask()`, `deltask()` and the sorted insertion of
`taskdelay()`, assignment for assignment on `head`, `tail`, `next` and `prev`.
`elems` is the sequence that each list stands for; the other modules use only
that. A task is added when it is on no list and deleted from the list it is on,
as `RunQueueInv` of `Sched` and `ListsInv` of `Locks` say of the callers.

**`FdTask`** is `fd.c` up to `fdwait()`, on top of `Coop`. Clients sleep, wait
for descriptors, yield, park and ready each other elsewhere, become system
tasks and exit; `fdtask()` goes from place to place of its loop (`fdt.pc`), one
action each, since between them the clock ticks and descriptors become ready.
`taskcount` is explicit because of the extra count; what `taskyield()` returns
is kept as "somebody else ran", which `YieldCountsOthers` of `SchedHist` shows
it to mean. `clock` is what `nsec()` reads and may be set; the time-out of
`poll()` and `due`, the time a sleeper still has to wait, run with real time.
A millisecond has `TickPerMs` ticks, so that the rounding of the time-out and
the busy polls it causes are there. `pollfd` and `polltask` are one sequence
of records. **`FdWait`** is the contract for those who wait for descriptors:
everybody whom a `poll()` reports is readied at once, and only when no task can
run. Which ready task runs next is left open, so what is built on it holds for
more orders than the run queue's. `FdTask` is shown to implement it.

**`FdIO`** is `fdread()`, `fdread1()` and `fdwrite()`, **`Net`** is
`netannounce()`, `netaccept()` and `netdial()` for TCP, both on `FdWait` with
`able` computed from the state of their sockets. `read()`, `write()`,
`accept()`, `connect()` and the peers are external: a write takes some bytes
or none, a connect is completed or refused when the network likes, a
descriptor number is the lowest free one, a number that is not open is reported
by `poll()`. `netlookup()` blocks the process and finds an address or not.

**`ParseIp`** is `parseip()`: a name is the sequence of numbers that `strtoul()`
takes from it and the characters they stop at, and the four bytes of `addr`
start with anything. A name with more than four parts is accepted for its
first four, as in the code. **`Vseprint`** is `vseprint()` and `printstr()`: a
format is a sequence of tokens, an argument a number in the range of its type, and the
local `neg` is a choice unless the number is negative. Zero in base 16 prints
as `00x`, as the code does; `OutputInv` asks for its value only.

**`Context`** is `context.c`, `asm.S` and their use in `task.c`. Memory is a
function from word addresses to words, a call pushes its argument and return
address, and return addresses are negative numbers, one for each place that is
returned to. `image` is what a flow (a task or the scheduler) knows of its own
stack and registers, and what it must find again.

**`TaskInfo`** takes `taskcreate()` and the clean-up of the scheduler apart into
single stores, with the handler `taskinfo()` possible between any two. The
order of the two stores in `alltask[nalltask++] = t` and in
`alltask[i] = alltask[--nalltask]` is left open, as C leaves it.

**`Primes`** and **`Proxy`** are the example programs `primes.c` (over unbuffered
channels with one sender and one receiver each, as in `Exchange`) and
`tcpproxy.c` (over `FdWait`; descriptors are numbers that the kernel gives out
again).

The calls of `abort()` in the code are modelled as the end of the program with
the calling task still on the CPU; the conjunct `ended => running = NoTask` in
the invariants says that none is reached. (The instances make no
`taskexitall()` calls, so nothing else ends the program with a task running.)

The operators that are defined just before another one and named in a comment
as its mutants are not used by the specifications: each is a plausible mistake
in the code that some property must detect (PROJECT.json, "mutants").

## 3. What the runs check

| run | instance | properties |
|---|---|---|
| MCSched | 3 Task blocks, table chunk 2, counter modulo 8, statuses 0 and 1 | `RunQueueInv`, `TableInv`, `CountInv`, `EndInv`, `YieldCountsOthers`, `ExitStatus`, `OnlyExitFrees`, refinement of `Coop` (`ContractSpec`) |
| MCSchedLive | 3 tasks, chunk 64, counter modulo 7 | `ReadyRuns`, `NoUsersEnds` |
| MCChannel | 3 tasks, an unbuffered channel and one of two slots, four single operations and three `chanalt()` calls | `QueueInv`, `MeetInv`, `RingInv`, refinement of `Exchange` (`ExchangeSpec`) |
| MCLocks | 3 tasks, 1 lock, a Rendez with it and one without, 1 reader-writer lock | `MutexInv`, `ExclusionInv`, `ListsInv`, `KernelSteps`, `Relocked`, `AllServed` |
| MCRendezCount | the same | `WakesOne`, violated (see 5) |
| MCFdTask | 3 clients and `fdtask`, a poll array of 2, delays of 0 and 1 ms of 2 ticks, alarms up to tick 2, a clock that may be set back | `CountInv`, `WaitInv`, `AtLeast`, `PollInv`, `EndInv`, `FdKernelSteps`, refinement of `FdWait` (`WaitContract`) |
| MCFdTaskLive | 2 clients, alarms up to tick 3 | `IdleServes` |
| MCPrograms | one of: 2 tasks on a connection, buffers of up to 2 bytes, room for 1 in the kernel; 3 tasks, 2 descriptors, 2 connections coming in; `primes` with goal 29 | `TransferInv`, `NoLeak`, `DialConnects`, `SieveInv`, `AllReturn` |
| MCProxy | `Proxy` of `Programs` alone: 2 clients, 3 descriptor numbers | `ProxyInv` |
| MCParts | one of: 4 tasks on 3 lists with alarm times 0 to 2; 3 tasks on both arrays of a channel, growing by 2; 4 Task blocks, table chunk 2; the scheduler and 2 tasks with stacks of 24 words; all names of up to 5 parts with bytes of 2 bits; formats of up to 2 tokens, 4-bit numbers, six buffer sizes from 1 to 9 | `LinkInv`, `ArrayInv`, `ListInv`, `SwitchInv`, `AddressInv`, `OutputInv` |
| MCParseIpShort | names other than the empty one | `MadeOfName`, violated |
| MCPrintSign | single numbers | `SignInv`, violated |

What the properties say of the code:

* `RunQueueInv`, `TableInv`, `CountInv`, `OnlyExitFrees`: creation, exit and the swap
  with the last slot leave queue, table and count in step, and free the task
  that exited and no other. `EndInv`, `ExitStatus`, `NoUsersEnds`: the program ends
  when and as it should. `YieldCountsOthers`: `taskyield()` returns how many others
  ran, also across a wrap of the counter. `ReadyRuns`: a ready task runs.
* `QueueInv`: the arrays of waiting Alts hold those of the parked calls, all of
  them and no others. `MeetInv`: nobody waits for what is there. `RingInv`: the
  ring stays in bounds. `ExchangeSpec`: one Alt per call, values in order.
* `MutexInv`, `ExclusionInv`: exclusion from the moment a lock is handed over, and
  no `abort()` of `qlock.c` is reached. `ListsInv`: every wait list holds those who
  wait, none in vain, and a task is on one list at a time. `KernelSteps`: tasks
  are readied and parked as `Coop` allows. `Relocked`: `tasksleep()` returns with the lock.
  `AllServed`: no waiting locker, reader, writer or woken sleeper starves.
* `CountInv`, `FdKernelSteps`, `EndInv` of `FdTask`: the extra count neither ends the
  program early nor keeps it alive. `WaitInv`: everybody who waits is in one
  place, and sleepers are sorted. `AtLeast`: nobody is woken early. `PollInv`:
  the process blocks only when nobody can run, not beyond the first alarm.
  `WaitContract`: the scan with its moving entries readies exactly those reported.
  `IdleServes`: sleepers and descriptors are served.
* `TransferInv`: bytes in order, results true. `NoLeak`, `DialConnects`: descriptors
  of `net.c` have one owner, and a refused connect is not returned. `SieveInv`:
  the primes. `AllReturn`: no call waits for ever. `ProxyInv`: copying tasks read
  from and close their own descriptors, leave none open, and end.
* `LinkInv`, `ArrayInv`: pointers and arrays are the sequences and sets used
  elsewhere. `ListInv`: what the SIGQUIT handler sees. `SwitchInv`: stacks and
  registers survive `swapcontext()`, and nothing outside a stack is written.
  `AddressInv`, `OutputInv`: `parseip()` and `vseprint()` against reference
  definitions.

`Programs` and `Parts` put modules side by side that share no state and name their
properties for the runs and the theorems: `MCPrograms`
starts one of three programs with the others in an ended state, `MCParts`
exercises the module that the variable `part`, which never changes, names. Nothing is lost by
this, and their behaviours are those of the modules.

**Why the bounds are enough.** With three Task blocks and a chunk of two the
table grows once beyond its first allocation, shrinks below it and grows again;
the middle slot, the last slot and the only slot are freed; freed blocks come
back as new tasks. The counter wraps while a task is inside `taskyield()`
(modulo 8 and, for liveness, an odd modulus; the assumption on `IntRange` is
that at most half the range passes during one yield). Three tasks on two
channels give a call waiting on both channels, a peer that settles it and a
third task that comes before the waiter runs again; two slots let the ring
wrap and the write position differ from the read position. Three
tasks on the locks are an owner, a granted but not yet running successor and a
waiter or newcomer; two readers and a writer or the other way round; two
sleepers and a waker, or two sleepers woken together that contend for the lock
with the waker; and a task may hold one lock while it waits for the other
kind. Four tasks on three lists reach
the insertion in front, in the middle, at the end, and before an equal alarm
time, with links left from another list. With a poll array of two and three
clients the array overflows, both entries are reported in one poll, and the
moved entry is one that was reported and one that was not; two ticks to the
millisecond make the time-out round down to 0 before the alarm; setting the
clock back by a tick makes alarms that were due lie ahead again. `Horizon` bounds
the clock and stops new sleepers, not those there are. Room for one byte makes
every longer write stop in between; the second reader finds nothing. Three
descriptor numbers for two proxied connections make the numbers be reused
while tasks of the first connection are alive. Bytes of two bits keep all four
address classes, numbers of four bits the most negative number, and all
sizes around a field's end are tried. In `Context` the red zone of `needstack()` and
the stacks are scaled down together (three words are left where the code keeps
256 bytes; the frames of the switch take two in the model), the two stacks
begin at different alignments and one address does not fit the lower half.
There are no state constraints;
every run explores all reachable states. Symmetry over tasks is
used in the runs without liveness properties only. Deadlock is checked in
every run; a program that has ended stutters.

**Clients.** Locks are checked for clients that unlock only what they have
locked, do not exit with a lock held, and do not lock a reader-writer lock they
already have; `qlock.c` has no means to detect the first two. A client may lock
a queuing lock it holds, and then waits for itself, as in the code. Clients of
`Locks` may hold a lock of one kind and wait for one of the other, and so
deadlock each other: the program then ends as stalled, and the safety
properties hold on the way there.

**Fairness.** The scheduler loop never stops (weak fairness of `Scheduler`, or
of `Dispatch` and `End` in the contract). That a task gives up the CPU is up to
the program (README:9-13); the liveness runs assume it, as weak fairness of
"the running task yields, blocks or exits", and check what follows from it.
`Locks` also assumes that a lock whose holders get the CPU again and again is
given back again and again, by an unlock or by `tasksleep()`: strong fairness for
each lock, since giving back is possible only while a holder is on the CPU.
Without these assumptions one task could keep the CPU or a lock for ever, and no
property of the library could hold. `AllServed` excepts behaviours in which from
some point on there is always a task that waits, or sleeps, with a lock in its
hands (`HoldAndWait`): that is a matter of the clients. Channels have no liveness
property: `rand()` chooses among the waiting tasks and may pass one over for
ever.

`fdtask()` polls only when a whole round of yields ran nobody else (fd.c:33), so
`IdleServes` and `netdial()` in `AllReturn` assume that the program is idle
again and again (`[]<>Idle`); a program that always has a ready task keeps all
events waiting, by design. A poll may be interrupted by a signal any number of
times but not always (strong fairness of `PollReturns`), and time goes on. In
`FdIO` the tasks go on with their calls and make no other, and the peer takes
and sends what it has; nothing is assumed of resets. In `Net` each
ready task gets the CPU (strong fairness of `Gets`: the run queue is first in,
first out, which `FdWait` leaves open and `ReadyRuns` shows) and connects are
decided. `Proxy` needs no fairness: that its tasks end is said of the states in
which nothing more happens. In `Primes` a transfer both sides
wait for happens; no third party could be served instead.

## 4. What is proved

The theorems hold for every value of the constants that satisfies the
assumption named in the module. `tlapm` checks their proofs.

| module | theorem | says |
|---|---|---|
| SchedProofs | `TypeCorrect` | `Spec => []TypeOK`, which no run repeats |
| | `Invariance` | `Spec => []IInv`, the inductive invariant |
| | `QueueCorrect`, `TableCorrect`, `CountCorrect`, `EndCorrect` | `RunQueueInv`, `TableInv`, `CountInv`, `EndInv` of `Sched` |
| | `ExitFrees` | `OnlyExitFrees` |
| | `Implements` | `ContractSpec`: `task.c` implements `Coop` |
| | `YieldCorrect`, `ExitCorrect` | `YieldCountsOthers` and `ExitStatus` of `SchedHist` |
| LocksProofs | `Invariance` | the inductive invariant of `Locks` |
| | `MutexCorrect`, `ExclusionCorrect`, `ListsCorrect` | `MutexInv`, `ExclusionInv`, `ListsInv` |
| | `LocksObeyKernel`, `SleepRelocks` | `KernelSteps`, `Relocked` |
| ChannelProofs | `Invariance` | the inductive invariant of `Channel` |
| | `QueuesCorrect`, `NobodyWaitsInVain`, `RingsCorrect` | `QueueInv`, `MeetInv`, `RingInv` |
| | `ChannelsObeyKernel` | every step of a channel call is one of `Coop` |
| | `ChannelsExchange` | `ExchangeSpec`: `channel.c` implements `Exchange` |
| FdTaskProofs | `Invariance` | the inductive invariant of `FdTask` |
| | `CountCorrect`, `WaitersCorrect`, `NoEarlyEnd` | `CountInv`, `WaitInv`, `EndInv` |
| | `FdTaskObeysKernel` | `FdKernelSteps` |
| | `SleepsLongEnough`, `PollsOnlyWhenIdle` | `AtLeast`, `PollInv` |
| | `DescriptorsImplementWait` | `WaitContract`: `fd.c` implements `FdWait` |
| IOProofs | `TransferCorrect` | `TransferInv` of `FdIO` |
| | `DescriptorsOwned`, `DialCorrect` | `NoLeak` and `DialConnects` of `Net` |
| | `SieveCorrect` | `SieveInv` of `Primes` |
| | `ProxyCorrect` | `ProxyInv` of `Proxy` |
| PartsProofs | `Invariance`, `LinksCorrect` | the inductive invariant and `LinkInv` of `TaskList` |
| | `AltsQueued` | `ArrayInv` of `AltArray` |
| | `HandlerSees` | `ListInv` of `TaskInfo` |
| | `SwitchKeepsStacks` | `SwitchInv` of `Context` |
| | `AddressCorrect` | `AddressInv` of `ParseIp` |
| | `OutputCorrect` | `OutputInv` of `Vseprint` |

The strongest assumption on constants is that of `Context`: stacks do not
overlap, `taskalloc()` leaves room for the arguments of `taskstart()`, a task
calls `needstack()` for at least the three words a call of `swapcontext()` takes
and has pushed at most `MaxWork` words, and the address of a Task has no more
than 48 bits (three times `Half`): the second shift of `taskalloc()` is by 16,
so the upper half of a longer address would not come back. Beyond the modules'
own assumptions on their constants:

* `SleepsLongEnough` and `PollsOnlyWhenIdle`: the clock is never set forward
  (`\A d \in ClockSteps : d <= 0`), without which both are false (section 5).
* `DescriptorsImplementWait`: the value that stands for no task is no descriptor
  and mode.

**The scheduler.** `IInv` is the conjunction of `TypeOK`, `RunQueueInv`,
`TableInv` and `CountInv`. The parts need each other: the clean-up frees what
`alltaskslot` points at, so that the queue stays within the table depends on
`TableInv`; that the clean-up does not free a queued task depends on the
clauses of `RunQueueInv` about exiting tasks (only the task being switched out
is exiting, and it is not queued); the count depends on the table losing
exactly that task. The clause `allcap % Chunk = 0` of `TableInv` is what makes
the capacity inductive: a table whose length is not a multiple of the chunk is
shorter than its allocation (`Capacity`). `EndInv` follows from `IInv` at the
step that ends the program. `Implements` maps the live tasks of the contract to
those of the table that are not exiting; the clean-up and the return of
`taskyield()` change nothing the contract sees. For `taskyield()`, `TurnInv`
relates a yield in progress to the run queue: the tasks that were ready when it
began and have not run stand before the yielder, each task that ran moved the
counter by one, and so the distance from the counter to the saved `n` is their
number, below the range by the assumption on `IntRange`. `LeaverInv` says that
once every non-system task has called `taskexit()` the exit value is the last
one's.

**Locks.** The invariant has a part for each file, `QLockPart`, `SleepPart` and
`RWPart`, besides the contract's `CoopOK`. Mutual exclusion alone is not
inductive: `qunlock()` makes the head of the wait list the owner, so the list must
hold parked tasks that want this lock and nothing else (`WaitInv`), and a task
that was readied must find itself the owner (`GrantInv`). A sleeper that waits for
a lock waits for that of its Rendez (`AsleepInv`). `OneWait` holds the parts
together: a task waits in at most one of the three files, which is why a step of
one file cannot touch the waiters of another, and why one pair of links in a
Task is enough.

**Channels.** `MeetInv` and `QueueInv` lean on each other: who is parked where is
known from the Altarrays only while each of their entries belongs to a parked
call, and `altexec()` finds a parked peer only where the buffer is empty or full.
`AltInv` says that a parked call remembers one of its Alts and that its sends
have a value, `RingPart` that the slots in use of a ring do. The refinement maps
a parked call that is settled to one that has happened: its step is the step
of its counterpart, and its return from `taskswitch()` is a stutter.

**`fd.c`.** The lists and the extra count need to know who is parked
(`WaitersInv`); that the program does not end under a waiting task needs that
`fdtask` itself is never parked (`FdtInv`); and that `poll()` is called only when
no task is ready needs what a `taskyield()` of `fdtask` that let nobody run says
about the run queue (`AloneInv`). `DueInv` adds time: what a sleeper still has to
wait is over, or ends at its alarm at the latest, and so does what is left of
`poll()`. `RevInv` says that only entries the scan has still to look at are
reported; the refinement takes those tasks as readied when `poll()` returned.

**I/O.** `TransferInv` says that the bytes of a task on the stream are the first
ones of its buffers, in order; `CallInv` adds that a task has a call or a result
and that only `fdwrite()` counts what it has moved. `OwnInv` of `Net` gives each
descriptor in use one holder and each free one none: were there holders of
free descriptors, the next `socket()` would make two owners of one.

**Lists and arrays.** `Apart` says that a task is on at most one list, once; the
links of a list are then not disturbed by changes to the others (`OneListStep`).
`HoldsAlts` says which Alts an Altarray holds, and `Slots` that it holds none
twice, so that `altdequeue()` deletes the right one and leaves no copy. For
`TaskInfo` the invariant says what the table is before each store: a table of the
tasks that exist, or one with a hole, where the entry moved into the hole has not
been told its new slot or `nalltask` has not been lowered.

**The change of stacks.** `SwitchInv` speaks of the flow that has the CPU;
`StacksInv`, which is inductive, of all of them. One flow runs (`Running`, with a
case for each place in the code), the others that are alive are suspended:
either as `makecontext()` left them (`Fresh`) or with a context saved by
`getcontext()` (`Saved`), whose stack pointer is below the return address of the
call of `swapcontext()`. A flow writes only on its own stack, so what the others
have pushed stays (`Kept`). A task that calls `taskexit()` is no longer alive when
it is in `swapcontext()`, and nothing is said of its stack from then on.
`AddressJoined` is the arithmetic of the halves of the address in which
`taskalloc()` hands the Task to `taskstart()`.

**Addresses.** While the parts are read, the bytes so far are the parts so far
(`PartsInv`); the answer is then compared with the definition of an address for
each class and number of parts (`SpreadIs`).

**Formatted output.** `BufferInv` says that the buffer holds the whole text, or is
full; a field is written whole if it fits and otherwise fills the buffer up to
the terminator (`PrintstrFits`). For numbers, `Digits` and `Value` are recursive
functions, whose existence and values are shown by counting up: the table of the
texts of all numbers up to `luv` exists (`TableExists`), each text in it stands
for its number (`DigitsSpell`), a text is read in one way only (`ReadsOnce`), and
what stands in front does not change what it stands for (`FrontAdded`).
`MagnitudeIs` is the arithmetic of the sign for a range of any even size, the
most negative number included. That the 30 characters of `buf` are enough, which
depends on the 64 bits, is not stated: the longest text has 24.

**The prime sieve.** `RowInv`: a number on its way behind stage k is divided by
none of the first k primes, the numbers on their way get smaller from stage to
stage and are larger than what has been printed, and each number the generator
has sent was printed, is on its way, or is divided by a printed prime. A number
that passes the last stage is therefore the next prime, and `ended` means that
none up to the goal is missing.

**The proxy.** `CopyInv` says which task will close a descriptor: `proxytask()`
that of its client until it dials, then both, and the copying tasks their own
(`Kept`). A kept number stands for its own side (`KeptOpen`) and an open one is
kept by somebody (`OpenKept`), so the number that `socket()` gives out next is
nobody's; a task reads from and closes only what it keeps. What it writes to is
its partner's number; once the partner has returned that may be anybody's, which
is all that `Astray` allows. For the end, `Watching` says that a task that has not
returned is ready, runs, or waits for a number it keeps, so `poll()` reports it
when its stream ends, and `Courses` that `proxytask()` creates both copying tasks
or none. The proof assumes that `None`, which stands for no socket, no task and no
wait, is none of these (`ProxyAssumption`).

`QueueFacts` has the lemmas all modules share: appending, popping, cutting,
inserting into and removing from sequences without repetitions, filling a gap
with the last element, and their lengths. The library's induction theorems
cannot be used here (they take an operator as parameter). For bounded indices
`LeastOf` (a set of numbers that is not empty has a least one, from the facts
about cardinalities), `CountingUp` (induction up to n) and `History` (a function
defined by recursion up to n exists) take their place; with them the loops over the
Alts of a call and the walk along the sleeping list are proved for any length.

Every safety invariant, action property and refinement that the runs check is
proved. Only model-checked: liveness (`ReadyRuns`, `NoUsersEnds`, `AllServed`,
`IdleServes`, `AllReturn`), which needs ENABLED.

## 5. Findings

Each is a run that is expected to fail; PROJECT.json quotes the text that the
code disagrees with.

* **MCRendezCount.** `taskwakeup()` returns 0 when nobody sleeps on the Rendez;
  its comment (`rendez.c:57`) says the number of tasks woken is always 1. The
  README (`README:203-204`) promises the actual number, which the code returns.
* **MCParseIpShort.** A short name whose first byte is of class C or above is
  accepted with bytes of the stack in the address: the switch at `net.c:163`
  has no case for it (`net.c:135`).
* **MCPrintSign.** `neg` (`print.c:145`) is never set to 0, so a '-' may stand in
  front of a number that is not negative.

Behaviour that the models have and a reader of the documentation may not
expect; the properties are stated so that they allow it:

* Alarm times are times of the wall clock. When it is set forward,
  `taskdelay()` returns before the "at least ms milliseconds" of `README:50`
  (`README:156` says "approximately"). `AtLeast` is checked for a clock that
  ticks and is set back.
* When a later `write()` fails, `fdwrite()` returns -1 although bytes were
  written; its comment (`fd.c:260`) says it returns the number of bytes actually
  written. `TransferInv` asks of a negative result only that the connection is
  broken.
* Two tasks in `netaccept()` on one listener are woken for one connection; the
  second returns -1 instead of waiting for the next connection
  (`README:131-132`). `fdread()` and `fdwrite()` wait again.
* SIGQUIT while `realloc()` moves the task table makes `taskinfo()` read the
  freed table, and a handler that sees `nalltask` increased before the slot is
  written follows a pointer that was never set. `ListInv` says nothing of these
  two places in `taskcreate()`.
* A copying task of `tcpproxy` writes to a descriptor number that its partner
  has closed, and that may belong to another connection by then. `ProxyInv` says
  that this is the only way bytes go astray.

## 6. What is not modelled, and the plan

Not modelled, and why:

* memory exhaustion: every caller of `malloc()` in the library aborts;
* `taskname`, `taskstate`, `taskdata`, `taskid`, `taskdebug`: they format or return
  a field of the running task and decide nothing;
* the values of `channbrecvul()` and `channbrecvp()` when nothing was received, an
  uninitialized local; the time that `taskdelay()` returns;
* `chanfree()` of a channel in use, whose races its comment leaves open;
* DNS, socket options, UDP, and the text of addresses that `netaccept()` writes;
* registers that the context switch does not save (floating point, flags);
* `httpload`, `testdelay`, `testdelay1` and `sleeptest()` of `tcpproxy`, which use
  the modelled calls without sharing state; the build files.

Clients are assumed to keep what the code cannot detect: a task does not exit
with a lock held, and does not lock a reader-writer lock it already has.

Plan: models and safety proofs are complete in this sense. Liveness
could come closer to proof by stating, for the refinements, which steps of the
detailed modules are the fair ones of the abstract modules; the prover has no
rule for it, so that the runs remain the evidence.
