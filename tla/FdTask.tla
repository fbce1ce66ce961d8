------------------------------- MODULE FdTask -------------------------------
(***************************************************************************)
(* The descriptor and timer task of fd.c.  fdwait() parks its caller in    *)
(* the poll array, taskdelay() in the list of sleepers sorted by alarm     *)
(* time; fdtask, a system task that the first of these calls creates,      *)
(* yields until nobody else wants the CPU, waits in poll(), and readies    *)
(* whom it was waiting for.                                                *)
(*                                                                         *)
(* The module is built on the contract Coop.  taskcount is explicit here   *)
(* because taskdelay() adds an extra count to it; and what taskyield()     *)
(* returns to fdtask is kept as whether another task ran meanwhile, which  *)
(* is what YieldCountsOthers of SchedHist shows it to say.                 *)
(*                                                                         *)
(* Time is counted in ticks, TickPerMs of them to the millisecond.  clock  *)
(* is the wall clock that nsec() reads; the timeout of poll() runs down    *)
(* with real time, which a change of the wall clock does not alter.        *)
(***************************************************************************)
EXTENDS Coop, SequencesExt

CONSTANTS
  FdT,        \* the Task that runs fdtask()
  MaxFd,      \* MAXFD, the size of the poll array: 1024
  Fd,         \* descriptors
  Mode,       \* kinds of I/O: 'r', 'w', and "x" for anything else
  Delay,      \* milliseconds that clients sleep
  TickPerMs,  \* ticks of the clock in a millisecond: 1000000
  PollCap,    \* longest poll() with sleepers, in milliseconds: 5000
  Horizon,    \* bound: no alarm is set for later than this
  ClockSteps  \* by how much the wall clock may be set

ASSUME FdTaskAssumption ==
  /\ FdT \in Task
  /\ Mode \subseteq {"r", "w", "x"}
  /\ MaxFd \in Nat \ {0} /\ TickPerMs \in Nat \ {0} /\ PollCap \in Nat \ {0}
  /\ Delay \subseteq Nat /\ Horizon \in Nat /\ ClockSteps \subseteq Int

VARIABLES
  startedfdtask,    \* startedfdtask
  pollfd,           \* pollfd[] and polltask[], npollfd entries
  sleeping,         \* sleeping, head first
  alarmtime,        \* Task.alarmtime
  sleepingcounted,  \* sleepingcounted
  taskcount,        \* taskcount
  fdt,              \* fdtask: where it is and its locals, 0 when dead
  clock,            \* what nsec() returns
  able,             \* <<descriptor, kind of I/O>> that would not block
  due               \* ticks a task in taskdelay() has still to sleep

timeVars == <<sleeping, alarmtime, sleepingcounted, due>>
fdVars   == <<startedfdtask, pollfd, timeVars, taskcount>>
vars     == <<coopVars, fdVars, fdt, clock, able>>

Client  == Task \ {FdT}
Forever == -1

Pollers  == {pollfd[k].task : k \in DOMAIN pollfd}
Sleepers == Range(sleeping)

(* Parked in some other primitive: a channel, a lock, a Rendez.            *)
Elsewhere == Parked \ (Pollers \cup Sleepers)

(* 1 for a task that taskcount counts.                                     *)
Counted(t) == IF t \in system THEN 0 ELSE 1
-----------------------------------------------------------------------------
(* Calls of the clients *)

(* fdwait() and taskdelay() create fdtask the first time, and switch out.  *)
StartAndSwitch(t) ==
  /\ Running(t)
  /\ startedfdtask' = TRUE
  /\ IF startedfdtask THEN UNCHANGED <<live, runqueue>>
     ELSE live' = live \cup {FdT} /\ runqueue' = Append(runqueue, FdT)
  /\ running' = NoTask
  /\ UNCHANGED <<system, ended, fdt, clock, able>>

Created == IF startedfdtask THEN 0 ELSE 1

(* How many sleepers taskdelay() passes to find its place: of several with *)
(* the same alarm time the last to come is the first.                      *)
Before(when) ==
  Cardinality({k \in DOMAIN sleeping :
                 \A j \in 1..k : alarmtime[sleeping[j]] < when})

(* Mutant of ExtraCount: every sleeper is counted.                         *)
ExtraCountEach(t) == Counted(t)

(* One more in taskcount for all sleeping non-system tasks together.       *)
ExtraCount(t) == IF sleepingcounted = 0 THEN Counted(t) ELSE 0

taskdelay(t, ms) ==
  LET when == clock + ms * TickPerMs IN
  /\ when <= Horizon
  /\ StartAndSwitch(t)
  /\ sleeping' = InsertAt(sleeping, Before(when) + 1, t)
  /\ alarmtime' = [alarmtime EXCEPT ![t] = when]
  /\ sleepingcounted' = sleepingcounted + Counted(t)
  /\ taskcount' = taskcount + Created + ExtraCount(t)
  /\ due' = [due EXCEPT ![t] = ms * TickPerMs]
  /\ UNCHANGED pollfd

NoRoomLate == Len(pollfd) > MaxFd
NoRoom == Len(pollfd) >= MaxFd

fdwait(t, fd, rw) ==
  /\ ~NoRoom
  /\ StartAndSwitch(t)
  /\ pollfd' = Append(pollfd, [task |-> t, fd |-> fd, events |-> rw,
                               revents |-> FALSE])
  /\ taskcount' = taskcount + Created
  /\ UNCHANGED timeVars

(* What else a client does: abort in fdwait() for too many descriptors,    *)
(* yield, park in another primitive, ready a task from there.              *)
OtherCall(t) ==
  /\ \/ NoRoom /\ ExitAll(t)
     \/ Yield(t) \/ Block(t, <<>>)
     \/ \E u \in Elsewhere : Wake(t, <<u>>)
  /\ UNCHANGED <<fdVars, fdt, clock, able>>

(* tasksystem(); or taskexit() and the clean-up that follows.              *)
Uncounts(t) ==
  /\ (t \notin system /\ SetSystem(t)) \/ Exit(t)
  /\ taskcount' = taskcount - Counted(t)
  /\ UNCHANGED <<startedfdtask, pollfd, timeVars, fdt, clock, able>>

(* A client's I/O uses up what made the descriptor ready.                  *)
Drains(t) ==
  /\ Running(t)
  /\ \E x \in able : able' = able \ {x}
  /\ UNCHANGED <<coopVars, fdVars, fdt, clock>>

ClientStep(t) ==
  \/ \E ms \in Delay : taskdelay(t, ms)
  \/ \E fd \in Fd, rw \in Mode : fdwait(t, fd, rw)
  \/ OtherCall(t) \/ Uncounts(t) \/ Drains(t)
-----------------------------------------------------------------------------
(* fdtask() *)

(* fdtask is on the CPU, at the place p of its loop.                       *)
At(p) == Running(FdT) /\ fdt.pc = p

Idling == [pc |-> "loop", i |-> 0, now |-> 0, otherran |-> FALSE, left |-> 0]

(* Its first run: it becomes a system task.                                *)
FdStarts ==
  /\ At("start")
  /\ SetSystem(FdT)
  /\ taskcount' = taskcount - 1
  /\ fdt' = Idling
  /\ UNCHANGED <<startedfdtask, pollfd, timeVars>>

(* Mutant of MustYield: ">= 0".                                            *)
MustYieldAlways == At("loop") \/ At("yielded")

(* while (taskyield() > 0)                                                 *)
MustYield == At("loop") \/ (At("yielded") /\ fdt.otherran)

FdYields ==
  /\ MustYield
  /\ Yield(FdT)
  /\ fdt' = [Idling EXCEPT !.pc = "yielded"]
  /\ UNCHANGED fdVars

(* Mutant of Timeout: rounded up.                                          *)
TimeoutRoundedUp ==
  LET alarm == alarmtime[Head(sleeping)] IN
  CASE sleeping = <<>> -> Forever
    [] sleeping # <<>> /\ clock >= alarm -> 0
    [] OTHER -> (alarm - clock + TickPerMs - 1) \div TickPerMs

(* ms: until the first alarm, rounded down and at most PollCap.            *)
Timeout ==
  IF sleeping = <<>> THEN Forever
  ELSE LET alarm == alarmtime[Head(sleeping)]
       IN  IF clock >= alarm THEN 0
           ELSE IF clock + PollCap * TickPerMs >= alarm
           THEN (alarm - clock) \div TickPerMs
           ELSE PollCap

(* Nobody else ran: poll() is called and the whole process waits.          *)
FdPolls ==
  /\ At("yielded") /\ ~MustYield
  /\ fdt' = [Idling EXCEPT !.pc = "poll",
              !.left = IF Timeout = Forever THEN Forever ELSE Timeout * TickPerMs]
  /\ UNCHANGED <<coopVars, fdVars>>

(* What poll() reports: the I/O asked for, or an exceptional condition.    *)
Reported(e) == <<e.fd, e.events>> \in able \/ <<e.fd, "x">> \in able

AnyReported == \E k \in DOMAIN pollfd : Reported(pollfd[k])

PollReturns ==
  /\ At("poll")
  /\ fdt.left = 0 \/ AnyReported
  /\ pollfd' = [k \in DOMAIN pollfd |->
                  [pollfd[k] EXCEPT !.revents = Reported(pollfd[k])]]
  /\ fdt' = [Idling EXCEPT !.pc = "scan", !.i = 1]
  /\ UNCHANGED <<coopVars, startedfdtask, timeVars, taskcount>>

(* EINTR, which poll() returns only when it has nothing to report; any     *)
(* other error is taskexitall(0).                                          *)
PollFails ==
  /\ At("poll")
  /\ \/ ~AnyReported /\ fdt' = Idling /\ UNCHANGED coopVars
     \/ ExitAll(FdT) /\ UNCHANGED fdt
  /\ UNCHANGED fdVars

(* The poll array without entry k: the last entry takes its place.         *)
Removed(k) ==
  [j \in 1..(Len(pollfd) - 1) |->
     IF j = k THEN pollfd[Len(pollfd)] ELSE pollfd[j]]

(* Mutant of NextIndex: the entry moved to i is not looked at.             *)
NextIndexSkips(i) == i + 1

(* After a removal the inner loop looks at index i again.                  *)
NextIndex(i) == i

Scans ==
  LET i == fdt.i IN
  /\ At("scan") /\ i <= Len(pollfd)
  /\ IF pollfd[i].revents
     THEN /\ Wake(FdT, <<pollfd[i].task>>)
          /\ pollfd' = Removed(i)
          /\ fdt' = [fdt EXCEPT !.i = NextIndex(i)]
     ELSE fdt' = [fdt EXCEPT !.i = i + 1] /\ UNCHANGED <<coopVars, pollfd>>
  /\ UNCHANGED <<startedfdtask, timeVars, taskcount>>

ScanEnds ==
  /\ At("scan") /\ fdt.i > Len(pollfd)
  /\ fdt' = [Idling EXCEPT !.pc = "timers", !.now = clock]
  /\ UNCHANGED <<coopVars, fdVars>>

(* Mutant of Expired: the time is not looked at.                           *)
ExpiredAny == sleeping # <<>>

(* The first sleeper's time has come.                                      *)
Expired == sleeping # <<>> /\ fdt.now >= alarmtime[Head(sleeping)]

(* Mutant of Returned: with every sleeper.                                 *)
ReturnedEach(t) == Counted(t)

(* The extra count goes with the last sleeping non-system task.            *)
Returned(t) == IF sleepingcounted = 1 THEN Counted(t) ELSE 0

TimerWakes ==
  LET t == Head(sleeping) IN
  /\ At("timers") /\ Expired
  /\ Wake(FdT, <<t>>)
  /\ sleepingcounted' = sleepingcounted - Counted(t)
  /\ taskcount' = taskcount - Returned(t)
  /\ sleeping' = Tail(sleeping)
  /\ UNCHANGED <<startedfdtask, pollfd, alarmtime, due, fdt>>

TimersEnd ==
  /\ At("timers") /\ ~Expired
  /\ fdt' = Idling
  /\ UNCHANGED <<coopVars, fdVars>>

FdStep ==
  /\ \/ FdStarts \/ FdYields \/ FdPolls \/ PollReturns \/ PollFails
     \/ Scans \/ ScanEnds \/ TimerWakes \/ TimersEnd
  /\ UNCHANGED <<clock, able>>
-----------------------------------------------------------------------------
(* The scheduler loop, which tests taskcount where Coop looks at the tasks *)
Scheduler ==
  /\ ~ended /\ running = NoTask
  /\ IF taskcount # 0 /\ runqueue # <<>>
     THEN /\ running' = Head(runqueue)
          /\ runqueue' = Tail(runqueue)
          /\ fdt' = [fdt EXCEPT !.otherran =
                       fdt.pc = "yielded" /\ (@ \/ Head(runqueue) # FdT)]
          /\ UNCHANGED ended
     ELSE ended' = TRUE /\ UNCHANGED <<running, runqueue, fdt>>
  /\ UNCHANGED <<live, system, fdVars, clock, able>>

(* A tick of real time.                                                    *)
Down(n) == IF n > 0 THEN n - 1 ELSE n

Tick ==
  /\ ~ended /\ clock < Horizon
  /\ clock' = clock + 1
  /\ fdt' = [fdt EXCEPT !.left = Down(@)]
  /\ due' = [t \in Task |-> Down(due[t])]
  /\ UNCHANGED <<coopVars, startedfdtask, pollfd, sleeping, alarmtime,
                 sleepingcounted, taskcount, able>>

(* Somebody sets the wall clock; a descriptor becomes ready.               *)
World ==
  /\ ~ended
  /\ \/ \E d \in ClockSteps : clock + d \in 0..Horizon /\ clock' = clock + d
        /\ UNCHANGED able
     \/ \E x \in (Fd \X Mode) \ able : able' = able \cup {x} /\ UNCHANGED clock
  /\ UNCHANGED <<coopVars, fdVars, fdt>>
-----------------------------------------------------------------------------
(* taskmain() has made the clients and has exited.                         *)
Init ==
  /\ live = Client /\ system = {} /\ running = NoTask /\ ended = FALSE
  /\ runqueue \in Injection(1..Cardinality(Client), Client)
  /\ startedfdtask = FALSE /\ pollfd = <<>> /\ sleeping = <<>>
  /\ alarmtime = [t \in Task |-> 0] /\ due = alarmtime
  /\ sleepingcounted = 0 /\ taskcount = Cardinality(Client)
  /\ fdt = [Idling EXCEPT !.pc = "start"]
  /\ clock = 0 /\ able = {}

Next ==
  \/ Scheduler \/ FdStep \/ (\E t \in Client : ClientStep(t))
  \/ Tick \/ World
  \/ ended /\ UNCHANGED vars

Spec == Init /\ [][Next]_vars

(* The scheduler, fdtask and time go on; not every poll() is interrupted   *)
(* by a signal.                                                            *)
FairSpec ==
  /\ Spec
  /\ WF_vars(Scheduler) /\ WF_vars(FdStep)
  /\ SF_vars(PollReturns /\ UNCHANGED <<clock, able>>)
  /\ WF_vars(Tick)
-----------------------------------------------------------------------------
(* The types of the variables.                                             *)
TypeOK ==
  /\ startedfdtask \in BOOLEAN
  /\ pollfd \in Seq([task : Client, fd : Fd, events : Mode, revents : BOOLEAN])
  /\ sleeping \in Seq(Client) /\ alarmtime \in [Task -> 0..Horizon]
  /\ sleepingcounted \in Nat /\ taskcount \in Nat
  /\ fdt.pc \in {"start", "loop", "yielded", "poll", "scan", "timers"}
  /\ fdt.i \in Nat /\ fdt.now \in 0..Horizon /\ fdt.left \in Nat \cup {Forever}
  /\ clock \in 0..Horizon /\ able \subseteq Fd \X Mode

(* taskdelay() and the timer loop of fdtask keep the extra count in step:  *)
(* taskcount is the number of non-system tasks, and one more exactly while *)
(* any of them sleeps.                                                     *)
CountInv ==
  /\ sleepingcounted = Cardinality(Sleepers \ system)
  /\ taskcount = Cardinality(Users) + (IF sleepingcounted > 0 THEN 1 ELSE 0)

(* Whoever waits in fdwait() or taskdelay() is parked, has exactly one     *)
(* entry, and is on one of the two lists only; the poll array stays within *)
(* its bounds.  Task links and poll entries never dangle.  The head of the *)
(* sleepers is always the next to wake, also after the clock was set back, *)
(* so fdtask may stop at the first that is not due.                        *)
WaitInv ==
  /\ TypeOK
  /\ IsInjective(sleeping)
  /\ Cardinality(Pollers) = Len(pollfd) /\ Len(pollfd) <= MaxFd
  /\ Sleepers \cap Pollers = {}
  /\ Sleepers \cup Pollers \subseteq Parked
  /\ \A j, k \in DOMAIN sleeping :
       j < k => alarmtime[sleeping[j]] <= alarmtime[sleeping[k]]

(* README:48-50: taskdelay() gives up the CPU for at least ms              *)
(* milliseconds: nobody is readied before that much time has passed.       *)
AtLeast == \A t \in Client \ Sleepers : due[t] = 0

(* fdtask blocks the whole process in poll() only when no task is ready    *)
(* (fd.c:36-38), and never beyond the first alarm.                         *)
PollInv ==
  At("poll") =>
    /\ runqueue = <<>>
    /\ sleeping # <<>> => /\ fdt.left # Forever
                         /\ \/ fdt.left = 0
                            \/ clock + fdt.left <= alarmtime[Head(sleeping)]

(* The program does not end by itself while a non-system task sleeps or    *)
(* waits for a descriptor; and once fdtask exists, it ends by itself only  *)
(* when all non-system tasks are gone: a stall is not reported any more.   *)
EndInv ==
  ended /\ running = NoTask =>
    /\ (Sleepers \cup Pollers) \cap Users = {}
    /\ startedfdtask => Users = {}

(* With fd.c the scheduler still keeps its contract: in particular the     *)
(* extra count, redundant as the comment at fd.c:159 says, neither ends    *)
(* the program early nor keeps it alive when the last non-system task has  *)
(* gone.  The call that creates fdtask and parks is two steps of Coop.     *)
FdKernelSteps ==
  [][\/ CoopNext
     \/ \E t \in Client : StartAndSwitch(t) /\ ~startedfdtask]_coopVars

(* What the tasks can see of the state: a task that poll() reported counts *)
(* as ready before the scan comes to its entry, and as long as fdtask runs *)
(* nobody runs.                                                            *)
Woken(fds)   == {fds[k].task : k \in {j \in DOMAIN fds : fds[j].revents}}
Waits(fds, t, k) == k \in DOMAIN fds /\ fds[k].task = t /\ ~fds[k].revents
Waiting(fds) ==
  [t \in Client |->
     IF \E k \in DOMAIN fds : Waits(fds, t, k)
     THEN LET k == CHOOSE k \in DOMAIN fds : Waits(fds, t, k)
          IN  <<fds[k].fd, fds[k].events>>
     ELSE NoTask]

seenReady   == (Range(runqueue) \ {FdT}) \cup Woken(pollfd)
seenRunning == IF running = FdT THEN NoTask ELSE running
seenWaiting == Waiting(pollfd)

(* fd.c implements the contract of FdWait: for the waiting tasks the scan  *)
(* of the poll array, with its moving entries, is one step in which all    *)
(* those that poll() reported are readied, and it happens only when no     *)
(* task can run.                                                           *)
Contract == INSTANCE FdWait WITH
  Io <- Fd \X Mode, NoIo <- NoTask, Exc <- "x",
  ready <- seenReady, running <- seenRunning, waiting <- seenWaiting

WaitContract == Contract!WaitSpec
-----------------------------------------------------------------------------
(* Nobody but fdtask is ready or running.                                  *)
Idle == Range(runqueue) \cup {running} \subseteq {FdT, NoTask}

(* The descriptor that t waits for in fdwait() is ready.                   *)
EventThere(t) ==
  \E k \in DOMAIN pollfd : pollfd[k].task = t /\ Reported(pollfd[k])

(* If the program is idle now and then, every sleeper is woken and nobody  *)
(* waits in fdwait() for ever for a descriptor that stays ready: fdtask    *)
(* gets past its taskyield() loop and polls with a timeout, also when      *)
(* signals interrupt some of the polls.                                    *)
IdleServes ==
  []<>Idle => \A t \in Client :
    /\ (t \in Sleepers) ~> (t \notin Sleepers \/ ended)
    /\ ~<>[](~ended /\ EventThere(t))
=============================================================================
