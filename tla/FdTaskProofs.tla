---------------------------- MODULE FdTaskProofs ----------------------------
(***************************************************************************)
(* Theorems about the descriptor and timer task of fd.c (module FdTask),   *)
(* for any clients, any size of the poll array, any delays and any unit of *)
(* time.                                                                   *)
(*                                                                         *)
(* The inductive invariant is IInv.  The lists and the extra count need to *)
(* know who is parked; that the program does not end under a waiting task  *)
(* needs that fdtask itself is never parked; and that poll() is called     *)
(* only when no task is ready needs what a taskyield() of fdtask that let  *)
(* nobody run says about the run queue.                                    *)
(***************************************************************************)
EXTENDS FdTask, CoopFacts

Entry == [task : Client, fd : Fd, events : Mode, revents : BOOLEAN]

Place == {"start", "loop", "yielded", "poll", "scan", "timers"}

(* The types of the variables, with all fields of fdt and with due.        *)
Typed ==
  /\ startedfdtask \in BOOLEAN /\ pollfd \in Seq(Entry) /\ sleeping \in Seq(Client)
  /\ alarmtime \in [Task -> 0..Horizon] /\ due \in [Task -> Nat]
  /\ sleepingcounted \in Nat /\ taskcount \in Nat
  /\ fdt \in [pc : Place, i : Nat, now : 0..Horizon, otherran : BOOLEAN,
              left : Nat \cup {Forever}]
  /\ clock \in 0..Horizon /\ able \subseteq Fd \X Mode

(* fdtask is not there before the first call that needs it; from then on   *)
(* it is ready or running.  It becomes a system task when it first runs,   *)
(* and keeps the CPU from poll() to the end of its round.                  *)
FdtInv ==
  /\ startedfdtask => FdT \in live \ Parked
  /\ ~startedfdtask => /\ FdT \notin live /\ fdt.pc = "start"
                       /\ pollfd = <<>> /\ sleeping = <<>>
  /\ fdt.pc = "start" => FdT \notin system
  /\ fdt.pc \in {"poll", "scan", "timers"} => running = FdT
  /\ fdt.pc = "scan" => fdt.i >= 1

(* While nobody has run since fdtask gave up the CPU in taskyield(), fdtask *)
(* is the last in the run queue; when it then runs, the queue is empty, and *)
(* it stays empty in poll().                                               *)
AloneInv ==
  /\ fdt.pc = "yielded" /\ ~fdt.otherran =>
       \/ running = NoTask /\ runqueue # <<>> /\ runqueue[Len(runqueue)] = FdT
       \/ running = FdT /\ runqueue = <<>>
  /\ fdt.pc = "poll" => runqueue = <<>>

(* The tasks of the poll array, in its order.                              *)
PollTasks == [k \in 1..Len(pollfd) |-> pollfd[k].task]

Sorted ==
  \A j, k \in DOMAIN sleeping :
    j < k => alarmtime[sleeping[j]] <= alarmtime[sleeping[k]]

WaitersInv ==
  /\ IsInjective(sleeping) /\ IsInjective(PollTasks) /\ Len(pollfd) <= MaxFd
  /\ Sleepers \cap Range(PollTasks) = {}
  /\ Sleepers \cup Range(PollTasks) \subseteq Parked
  /\ Sorted

IInv == CoopOK /\ Typed /\ FdtInv /\ AloneInv /\ WaitersInv /\ CountInv /\ EndInv

(* What is left to sleep ends at the alarm at the latest, unless it is     *)
(* over; and so does what is left of poll().                               *)
DueInv ==
  /\ \A t \in Client \ Sleepers : due[t] = 0
  /\ \A t \in Sleepers : due[t] = 0 \/ clock + due[t] <= alarmtime[t]
  /\ fdt.pc = "timers" => \A t \in Sleepers : alarmtime[t] <= fdt.now => due[t] = 0
  /\ fdt.pc = "poll" /\ sleeping # <<>> =>
       /\ fdt.left # Forever
       /\ fdt.left = 0 \/ clock + fdt.left <= alarmtime[Head(sleeping)]

-----------------------------------------------------------------------------
(* Whole units of time take no more time than was to be divided.           *)
LEMMA DivMul ==
  ASSUME NEW a \in Nat, NEW n \in Nat \ {0}
  PROVE  (a \div n) * n <= a /\ (a \div n) * n \in Nat /\ a \div n \in Nat
OBVIOUS

(* taskdelay() stops at the first sleeper whose alarm is not earlier.      *)
LEMMA BeforeIs ==
  ASSUME Typed, Sorted, NEW when \in Int
  PROVE  /\ Before(when) \in 0..Len(sleeping)
         /\ \A k \in 1..Len(sleeping) :
              IF k <= Before(when) THEN alarmtime[sleeping[k]] < when
              ELSE alarmtime[sleeping[k]] >= when
<1> DEFINE n == Len(sleeping)
           a(k) == alarmtime[sleeping[k]]
           S == {k \in DOMAIN sleeping : \A j \in 1..k : a(j) < when}
<1>1. n \in Nat /\ DOMAIN sleeping = 1..n /\ \A k \in 1..n : a(k) \in Int
  <2>1. sleeping \in Seq(Client) /\ alarmtime \in [Task -> 0..Horizon] /\ Client \subseteq Task
    BY DEF Typed, Client
  <2>2. n \in Nat /\ DOMAIN sleeping = 1..n /\ \A k \in 1..n : sleeping[k] \in Task
    BY <2>1
  <2>3. \A k \in 1..n : a(k) \in 0..Horizon
    BY <2>1, <2>2
  <2> QED BY <2>2, <2>3
<1>2. \A j, k \in 1..n : j < k => a(j) <= a(k)
  BY <1>1 DEF Sorted
<1>3. Before(when) = Cardinality(S)
  BY DEF Before
<1> HIDE DEF a, n
<1>4. S \subseteq 1..n /\ \A k \in S : 1..k \subseteq S
  BY <1>1
<1>5. Cardinality(S) \in 0..n /\ S = 1..Cardinality(S)
  BY <1>1, <1>4, InitialSegment
<1>6. ASSUME NEW k \in 1..n, k \in S PROVE a(k) < when
  BY <1>1, <1>6
<1>7. ASSUME NEW k \in 1..n, k \notin S PROVE a(k) >= when
  <2>1. PICK j \in 1..k : ~(a(j) < when)
    BY <1>1, <1>7
  <2>2. j \in 1..n /\ (j < k \/ j = k)
    BY <1>1
  <2>3. a(j) >= when
    BY <1>1, <2>1, <2>2
  <2>4. a(j) <= a(k)
    BY <1>1, <1>2, <2>2
  <2> QED BY <1>1, <2>2, <2>3, <2>4
<1>8. \A k \in 1..n : k \in S <=> k <= Cardinality(S)
  <2> HIDE DEF S
  <2> QED BY <1>1, <1>5
<1>9. ASSUME NEW k \in 1..n
      PROVE  IF k <= Before(when) THEN a(k) < when ELSE a(k) >= when
  BY <1>3, <1>6, <1>7, <1>8
<1> QED BY <1>3, <1>5, <1>9 DEF a, n

(* The tasks in the poll array.                                            *)
LEMMA PollTasksAre ==
  ASSUME Typed
  PROVE  /\ PollTasks \in Seq(Client) /\ Len(PollTasks) = Len(pollfd)
         /\ Range(PollTasks) = Pollers /\ Len(pollfd) \in Nat
         /\ \A k \in 1..Len(pollfd) : PollTasks[k] = pollfd[k].task /\ pollfd[k] \in Entry
<1>1. Len(pollfd) \in Nat /\ DOMAIN pollfd = 1..Len(pollfd)
      /\ \A k \in 1..Len(pollfd) : pollfd[k] \in Entry
  BY DEF Typed
<1>2. PollTasks \in [1..Len(pollfd) -> Client]
  BY <1>1 DEF PollTasks, Entry
<1>3. PollTasks \in Seq(Client) /\ Len(PollTasks) = Len(pollfd)
  BY <1>1, <1>2, FunctionIsQueue
<1>4. Range(PollTasks) = Pollers
  BY <1>1 DEF PollTasks, Pollers, Range
<1> QED BY <1>1, <1>3, <1>4 DEF PollTasks

(* One more or one less of a finite set.                                   *)
LEMMA CountOne ==
  ASSUME NEW S, IsFiniteSet(S), NEW x
  PROVE  /\ Cardinality(S) \in Nat
         /\ IsFiniteSet(S \cup {x}) /\ IsFiniteSet(S \ {x})
         /\ x \notin S => Cardinality(S \cup {x}) = Cardinality(S) + 1
         /\ x \in S => Cardinality(S \ {x}) = Cardinality(S) - 1
<1>1. Cardinality(S) \in Nat
  BY FS_CardinalityType
<1>2. IsFiniteSet(S \cup {x}) /\ (x \notin S => Cardinality(S \cup {x}) = Cardinality(S) + 1)
  BY FS_AddElement
<1>3. IsFiniteSet(S \ {x}) /\ (x \in S => Cardinality(S \ {x}) = Cardinality(S) - 1)
  BY FS_RemoveElement
<1> QED BY <1>1, <1>2, <1>3

-----------------------------------------------------------------------------
(* A running client is in none of the lists, and fdtask is at a place      *)
(* where it has given up the CPU and knows that somebody else runs.        *)
LEMMA ClientFacts ==
  ASSUME IInv, NEW t \in Client, Running(t)
  PROVE  /\ t \in Task /\ t # FdT /\ t # NoTask /\ t \in live /\ t \notin Parked
         /\ t \notin Sleepers /\ t \notin Range(PollTasks) /\ t \notin Range(runqueue)
         /\ ~ended /\ running = t
         /\ fdt.pc \notin {"poll", "scan", "timers"}
         /\ ~(fdt.pc = "yielded" /\ ~fdt.otherran)
<1> USE DEF IInv
<1>1. t \in Task /\ t # FdT /\ t # NoTask /\ ~ended /\ running = t
  BY CoopAssumption DEF Client, Running
<1>2. t \in live /\ t \notin Range(runqueue) /\ t \notin Parked
  BY <1>1, ParkedFacts DEF CoopOK
<1>3. t \notin Sleepers /\ t \notin Range(PollTasks)
  BY <1>2 DEF WaitersInv
<1>4. fdt.pc \notin {"poll", "scan", "timers"}
  BY <1>1 DEF FdtInv
<1>5. ~(fdt.pc = "yielded" /\ ~fdt.otherran)
  BY <1>1 DEF AloneInv
<1> QED BY <1>1, <1>2, <1>3, <1>4, <1>5

(* When fdtask runs it has been started.                                   *)
LEMMA FdtFacts ==
  ASSUME IInv, Running(FdT)
  PROVE  /\ startedfdtask /\ FdT \in Task /\ FdT # NoTask /\ FdT \in live /\ FdT \notin Parked
         /\ FdT \notin Range(runqueue) /\ ~ended /\ running = FdT
<1> USE DEF IInv
<1>1. FdT \in Task /\ FdT # NoTask /\ ~ended /\ running = FdT
  BY CoopAssumption, FdTaskAssumption DEF Running
<1>2. FdT \in live /\ FdT \notin Range(runqueue)
  BY <1>1 DEF CoopOK
<1> QED BY <1>1, <1>2 DEF FdtInv

(* The lists in a step that leaves them alone.                             *)
LEMMA WaitersFrame ==
  ASSUME IInv, UNCHANGED <<sleeping, alarmtime>>, PollTasks' = PollTasks,
         Len(pollfd') = Len(pollfd), Sleepers \cup Range(PollTasks) \subseteq Parked'
  PROVE  WaitersInv' /\ Sleepers' = Sleepers
<1>1. Sleepers' = Sleepers /\ Range(PollTasks)' = Range(PollTasks)
  BY DEF Sleepers
<1>2. Sorted'
  BY DEF IInv, WaitersInv, Sorted
<1> QED BY <1>1, <1>2 DEF IInv, WaitersInv

(* The counts in a step that leaves tasks and sleepers alone.              *)
LEMMA CountFrame ==
  ASSUME IInv, Sleepers' = Sleepers, UNCHANGED <<live, system, sleepingcounted, taskcount>>
  PROVE  CountInv'
BY DEF IInv, CountInv, Users

(* A step that leaves the scheduler and the lists alone.                   *)
LEMMA Frame ==
  ASSUME IInv, UNCHANGED coopVars,
         UNCHANGED <<startedfdtask, pollfd, sleeping, alarmtime, sleepingcounted, taskcount>>,
         due' \in [Task -> Nat], clock' \in 0..Horizon, able' \subseteq Fd \X Mode,
         fdt' \in [pc : Place, i : Nat, now : 0..Horizon, otherran : BOOLEAN,
                   left : Nat \cup {Forever}],
         AloneInv', FdtInv'
  PROVE  IInv'
<1> USE DEF IInv
<1>1. CoopOK' /\ Parked' = Parked /\ UNCHANGED <<live, system, running, ended>>
  BY IdleEffect DEF coopVars
<1>2. PollTasks' = PollTasks
  BY DEF PollTasks
<1>3. WaitersInv' /\ Sleepers' = Sleepers
  BY <1>1, <1>2, WaitersFrame DEF WaitersInv
<1>4. CountInv'
  BY <1>1, <1>3, CountFrame
<1>5. Typed'
  BY DEF Typed
<1>6. EndInv'
  <2>1. Pollers' = Pollers /\ Users' = Users
    BY <1>1 DEF Pollers, Users
  <2> QED BY <1>1, <1>3, <2>1 DEF EndInv
<1> QED BY <1>1, <1>3, <1>4, <1>5, <1>6

(* A call of a client that has nothing to do with fd.c.                    *)
LEMMA ClientQuiet ==
  ASSUME IInv, NEW t \in Client, Running(t), UNCHANGED fdVars, fdt' = fdt, clock' = clock,
         able' \subseteq Fd \X Mode, CoopOK', live' = live, system' = system,
         Parked' \subseteq Parked \cup {t},
         Sleepers \cup Range(PollTasks) \subseteq Parked',
         ended' => running' = t
  PROVE  IInv'
<1> USE DEF IInv
<1>1. /\ t \in Task /\ t # FdT /\ t # NoTask /\ ~ended
      /\ fdt.pc \notin {"poll", "scan", "timers"}
      /\ ~(fdt.pc = "yielded" /\ ~fdt.otherran)
  BY ClientFacts
<1>2. UNCHANGED <<startedfdtask, pollfd, sleeping, alarmtime, sleepingcounted, due, taskcount>>
  BY DEF fdVars, timeVars
<1>3. PollTasks' = PollTasks
  BY <1>2 DEF PollTasks
<1>4. WaitersInv' /\ Sleepers' = Sleepers
  BY <1>2, <1>3, WaitersFrame
<1>5. CountInv'
  BY <1>2, <1>4, CountFrame
<1>6. Typed'
  BY <1>2 DEF Typed
<1>7. EndInv'
  BY <1>1 DEF EndInv
<1>8. AloneInv'
  BY <1>1 DEF AloneInv
<1>9. FdtInv'
  BY <1>1, <1>2 DEF FdtInv
<1> QED BY <1>4, <1>5, <1>6, <1>7, <1>8, <1>9

(* OtherCall and Drains.                                                   *)
LEMMA OtherKeeps ==
  ASSUME IInv, NEW t \in Client, OtherCall(t) \/ Drains(t)
  PROVE  IInv' /\ [CoopNext]_coopVars
<1>1. CoopOK /\ t \in Task
  BY DEF IInv, Client
<1>2. Sleepers \cup Range(PollTasks) \subseteq Parked /\ Typed /\ Pollers = Range(PollTasks)
  BY PollTasksAre DEF IInv, WaitersInv
<1>3. CASE Drains(t)
  <2>1. Running(t) /\ UNCHANGED coopVars /\ UNCHANGED fdVars /\ fdt' = fdt /\ clock' = clock
        /\ able' \subseteq able
    BY <1>3 DEF Drains
  <2>2. CoopOK' /\ Parked' = Parked /\ live' = live /\ system' = system /\ ~ended'
    BY <1>1, <2>1, IdleEffect DEF coopVars, Running
  <2>3. able' \subseteq Fd \X Mode
    BY <1>2, <2>1 DEF Typed
  <2> QED BY <1>2, <2>1, <2>2, <2>3, ClientQuiet
<1>4. CASE OtherCall(t)
  <2>1. UNCHANGED fdVars /\ fdt' = fdt /\ clock' = clock /\ able' = able
    BY <1>4 DEF OtherCall
  <2>2. able' \subseteq Fd \X Mode
    BY <1>2, <2>1 DEF Typed
  <2>3. CASE ExitAll(t)
    <3>1. Running(t) /\ running' = t /\ live' = live /\ system' = system
      BY <2>3 DEF ExitAll, Running
    <3>2. CoopOK' /\ Parked' = Parked /\ CoopNext
      BY <1>1, <2>3, ExitAllEffect
    <3> QED BY <1>2, <2>1, <2>2, <3>1, <3>2, ClientQuiet
  <2>4. CASE Yield(t)
    <3>1. Running(t) /\ live' = live /\ system' = system
      BY <2>4 DEF Yield, Running
    <3>2. CoopOK' /\ Parked' = Parked /\ CoopNext /\ ~ended'
      BY <1>1, <2>4, YieldEffect
    <3> QED BY <1>2, <2>1, <2>2, <3>1, <3>2, ClientQuiet
  <2>5. CASE Block(t, <<>>)
    <3>1. Running(t) /\ live' = live /\ system' = system
      BY <2>5 DEF Block, Running
    <3>2. CoopOK' /\ Parked' = Parked \cup {t} /\ CoopNext /\ ~ended'
      BY <1>1, <2>5, MayWakeOne, BlockEffect
    <3> QED BY <1>2, <2>1, <2>2, <3>1, <3>2, ClientQuiet
  <2>6. ASSUME NEW u \in Elsewhere, Wake(t, <<u>>) PROVE IInv' /\ [CoopNext]_coopVars
    <3>1. Running(t) /\ live' = live /\ system' = system
      BY <2>6 DEF Wake, Running
    <3>2. u \in Parked /\ u \notin Sleepers \cup Range(PollTasks)
      BY <1>2 DEF Elsewhere
    <3>3. CoopOK' /\ Parked' = Parked \ {u} /\ CoopNext /\ ~ended'
      BY <1>1, <2>6, <3>2, MayWakeOne, WakeEffect
    <3> QED BY <1>2, <2>1, <2>2, <3>1, <3>2, <3>3, ClientQuiet
  <2> QED BY <1>4, <2>3, <2>4, <2>5, <2>6 DEF OtherCall
<1> QED BY <1>3, <1>4

(* tasksystem() and taskexit() of a client.                                *)
LEMMA UncountsKeeps ==
  ASSUME IInv, NEW t \in Client, Uncounts(t)
  PROVE  IInv' /\ CoopNext
<1> USE DEF IInv
<1>1. /\ taskcount' = taskcount - Counted(t) /\ UNCHANGED <<startedfdtask, pollfd, fdt, clock, able>>
      /\ UNCHANGED <<sleeping, alarmtime, sleepingcounted, due>>
  BY DEF Uncounts, timeVars
<1>2. Running(t)
  BY DEF Uncounts, SetSystem, Exit
<1>3. /\ t \in Task /\ t # FdT /\ t # NoTask /\ t \in live /\ t \notin Parked /\ t \notin Sleepers
      /\ ~ended /\ fdt.pc \notin {"poll", "scan", "timers"}
      /\ ~(fdt.pc = "yielded" /\ ~fdt.otherran)
  BY <1>2, ClientFacts
<1>5. /\ CoopOK' /\ Parked' = Parked /\ ~ended' /\ CoopNext
      /\ FdT \in live' <=> FdT \in live
      /\ FdT \in system' <=> FdT \in system
      /\ Users' = Users \ {t} /\ Sleepers \ system' = Sleepers \ system
  <2>1. CASE t \notin system /\ SetSystem(t)
    <3>1. /\ CoopOK' /\ Parked' = Parked /\ ~ended' /\ CoopNext
          /\ live' = live /\ system' = system \cup {t}
      BY <1>3, <2>1, SystemEffect
    <3>2. Users' = Users \ {t} /\ Sleepers \ system' = Sleepers \ system
      BY <1>3, <3>1 DEF Users
    <3> QED BY <1>3, <3>1, <3>2
  <2>2. CASE Exit(t)
    <3>1. /\ CoopOK' /\ Parked' = Parked /\ ~ended' /\ CoopNext /\ live' = live \ {t}
      BY <1>3, <2>2, ExitEffect
    <3>2. system' = system \ {t}
      BY <2>2 DEF Exit
    <3>3. Users' = Users \ {t} /\ Sleepers \ system' = Sleepers \ system
      BY <1>3, <3>1, <3>2 DEF Users
    <3> QED BY <1>3, <3>1, <3>2, <3>3
  <2> QED BY <2>1, <2>2 DEF Uncounts
<1>6. PollTasks' = PollTasks
  BY <1>1 DEF PollTasks
<1>7. WaitersInv' /\ Sleepers' = Sleepers
  BY <1>1, <1>5, <1>6, WaitersFrame DEF WaitersInv
<1>8. CountInv'
  <2>1. IsFiniteSet(Users)
    BY CoopAssumption, FS_Subset DEF Users, CoopOK
  <2>2. /\ Cardinality(Users) \in Nat
        /\ t \in Users => Cardinality(Users \ {t}) = Cardinality(Users) - 1
    BY <2>1, CountOne
  <2>3. t \notin Users => Users \ {t} = Users
    OBVIOUS
  <2>4. Counted(t) = IF t \in Users THEN 1 ELSE 0
    BY <1>3 DEF Counted, Users
  <2>5. Cardinality(Users \ {t}) = Cardinality(Users) - Counted(t)
    BY <2>2, <2>3, <2>4
  <2>6. Counted(t) \in Nat
    BY <2>4
  <2>7. taskcount = Cardinality(Users) + (IF sleepingcounted > 0 THEN 1 ELSE 0)
        /\ sleepingcounted = Cardinality(Sleepers \ system)
    BY DEF CountInv
  <2>8. taskcount' = Cardinality(Users') + (IF sleepingcounted' > 0 THEN 1 ELSE 0)
    BY <1>1, <1>5, <2>2, <2>5, <2>6, <2>7
  <2> QED BY <1>1, <1>5, <1>7, <2>7, <2>8 DEF CountInv
<1>9. Typed'
  <2>1. IsFiniteSet(Users')
    BY <1>5, CoopAssumption, FS_Subset DEF Users, CoopOK
  <2>2. taskcount' \in Nat
    BY <1>8, <2>1, FS_CardinalityType DEF CountInv
  <2> QED BY <1>1, <2>2 DEF Typed
<1>10. EndInv' /\ AloneInv' /\ FdtInv'
  BY <1>1, <1>3, <1>5 DEF EndInv, AloneInv, FdtInv
<1> QED BY <1>5, <1>7, <1>8, <1>9, <1>10

(* What fdwait() and taskdelay() do to the scheduler: the caller parks and *)
(* fdtask is there afterwards.                                             *)
LEMMA SwitchEffect ==
  ASSUME IInv, NEW t \in Client, StartAndSwitch(t)
  PROVE  /\ CoopOK' /\ Parked' = Parked \cup {t} /\ FdT \in live' \ Parked'
         /\ live' = live \cup {FdT} /\ system' = system /\ ~ended' /\ running' = NoTask
         /\ startedfdtask' /\ fdt' = fdt /\ clock' = clock /\ able' = able
         /\ startedfdtask => CoopNext /\ FdT \in live
         /\ ~startedfdtask => FdT \notin live /\ FdT \notin system
<1> USE DEF IInv
<1>1. /\ Running(t) /\ startedfdtask' = TRUE /\ running' = NoTask
      /\ IF startedfdtask THEN UNCHANGED <<live, runqueue>>
         ELSE live' = live \cup {FdT} /\ runqueue' = Append(runqueue, FdT)
      /\ UNCHANGED <<system, ended, fdt, clock, able>>
  BY DEF StartAndSwitch
<1>2. t \in Task /\ t # FdT /\ t # NoTask /\ t \in live /\ t \notin Range(runqueue)
      /\ ~ended /\ running = t
  BY <1>1, ClientFacts
<1>3. CASE startedfdtask
  <2>1. FdT \in live \ Parked
    BY <1>3 DEF FdtInv
  <2>2. Block(t, <<>>)
    <3>1. runqueue \o <<>> = runqueue
      BY ConcatEmptySeq DEF CoopOK
    <3> QED BY <1>1, <1>3, <3>1 DEF Block
  <2>3. CoopOK' /\ Parked' = Parked \cup {t} /\ CoopNext
    BY <1>2, <2>2, MayWakeOne, BlockEffect
  <2> QED BY <1>1, <1>2, <1>3, <2>1, <2>3
<1>4. CASE ~startedfdtask
  <2>1. FdT \notin live /\ FdT \notin system /\ FdT \in Task /\ FdT # NoTask
    BY <1>4, FdTaskAssumption, CoopAssumption DEF FdtInv
  <2>2. /\ runqueue' \in Seq(Task) /\ IsInjective(runqueue')
        /\ Range(runqueue') = Range(runqueue) \cup {FdT}
    <3>1. runqueue \in Seq(Task) /\ IsInjective(runqueue) /\ FdT \notin Range(runqueue)
      BY <2>1 DEF CoopOK
    <3>2. runqueue' = Append(runqueue, FdT)
      BY <1>1, <1>4
    <3> QED BY <2>1, <3>1, <3>2, AppendToQueue
  <2>3. CoopOK'
    BY <1>1, <1>2, <1>4, <2>1, <2>2, CoopAssumption DEF CoopOK
  <2>4. Parked' = Parked \cup {t}
    <3>1. Parked' = (live \cup {FdT}) \ ((Range(runqueue) \cup {FdT}) \cup {NoTask})
      BY <1>1, <1>4, <2>2 DEF Parked
    <3>2. Parked = live \ (Range(runqueue) \cup {t})
      BY <1>2 DEF Parked
    <3>3. NoTask \notin live /\ FdT \notin Range(runqueue)
      BY <2>1, CoopAssumption DEF CoopOK
    <3> HIDE DEF IInv
    <3> QED BY <1>2, <2>1, <3>1, <3>2, <3>3
  <2>5. FdT \in live' \ Parked'
    BY <1>1, <1>2, <1>4, <2>1, <2>4, ParkedFacts
  <2> QED BY <1>1, <1>2, <1>4, <2>1, <2>3, <2>4, <2>5
<1> QED BY <1>3, <1>4

(* How many non-system tasks there are after such a call.                  *)
LEMMA SwitchCount ==
  ASSUME IInv, NEW t \in Client, StartAndSwitch(t)
  PROVE  /\ Cardinality(Users') = Cardinality(Users) + Created /\ Created \in Nat
         /\ Cardinality(Users) \in Nat
<1> USE DEF IInv
<1>1. IsFiniteSet(Users) /\ Cardinality(Users) \in Nat
  BY CoopAssumption, FS_Subset, FS_CardinalityType DEF Users, CoopOK
<1>2. /\ live' = live \cup {FdT} /\ system' = system
      /\ startedfdtask => FdT \in live
      /\ ~startedfdtask => FdT \notin live /\ FdT \notin system
  BY SwitchEffect
<1>3. CASE startedfdtask
  <2>1. Users' = Users /\ Created = 0
    BY <1>2, <1>3 DEF Users, Created
  <2> QED BY <1>1, <2>1
<1>4. CASE ~startedfdtask
  <2>1. Users' = Users \cup {FdT} /\ FdT \notin Users /\ Created = 1
    BY <1>2, <1>4 DEF Users, Created
  <2> QED BY <1>1, <2>1, CountOne
<1> QED BY <1>3, <1>4

(* What both calls do to fdtask.                                           *)
LEMMA SwitchFdt ==
  ASSUME IInv, NEW t \in Client, StartAndSwitch(t)
  PROVE  FdtInv' /\ AloneInv' /\ EndInv'
<1>1. Running(t)
  BY DEF StartAndSwitch
<1>2. /\ fdt.pc \notin {"poll", "scan", "timers"}
      /\ ~(fdt.pc = "yielded" /\ ~fdt.otherran)
  BY <1>1, ClientFacts
<1>3. /\ FdT \in live' \ Parked' /\ system' = system /\ ~ended' /\ startedfdtask' /\ fdt' = fdt
  BY SwitchEffect
<1>4. FdtInv
  BY DEF IInv
<1> QED BY <1>2, <1>3, <1>4 DEF FdtInv, AloneInv, EndInv

(* taskdelay() finds the new sleeper its place among the alarms.           *)
LEMMA DelaySorts ==
  ASSUME IInv, NEW t \in Client, t \notin Sleepers, NEW when \in 0..Horizon,
         sleeping' = InsertAt(sleeping, Before(when) + 1, t),
         alarmtime' = [alarmtime EXCEPT ![t] = when]
  PROVE  /\ sleeping' \in Seq(Client) /\ IsInjective(sleeping')
         /\ Sleepers' = Sleepers \cup {t} /\ Sorted'
         /\ alarmtime' \in [Task -> 0..Horizon]
         /\ alarmtime'[t] = when /\ \A x \in Sleepers : alarmtime'[x] = alarmtime[x]
<1> USE DEF IInv
<1> DEFINE L == Len(sleeping)
           a(k) == alarmtime[sleeping[k]]
           b(k) == alarmtime'[sleeping'[k]]
<1>1. /\ sleeping \in Seq(Client) /\ IsInjective(sleeping) /\ Sorted /\ Typed
      /\ alarmtime \in [Task -> 0..Horizon] /\ Client \subseteq Task /\ when \in Int
  BY FdTaskAssumption DEF Typed, WaitersInv, Client
<1>2. PICK n \in 0..L :
        /\ n = Before(when)
        /\ \A k \in 1..L : IF k <= n THEN a(k) < when ELSE a(k) >= when
  BY <1>1, BeforeIs
<1>3. L \in Nat /\ \A k \in 1..L : sleeping[k] \in Client /\ sleeping[k] \in Sleepers
  BY <1>1 DEF Sleepers, Range
<1>4. \A k \in 1..L : a(k) \in Int
  <2>1. \A k \in 1..L : a(k) \in 0..Horizon
    BY <1>1, <1>3
  <2> QED BY <2>1
<1>5. \A j, k \in 1..L : j < k => a(j) <= a(k)
  BY <1>1 DEF Sorted
<1>6. /\ sleeping' \in Seq(Client) /\ Len(sleeping') = L + 1 /\ IsInjective(sleeping')
      /\ Range(sleeping') = Range(sleeping) \cup {t}
      /\ \A k \in 1..(L + 1) :
           sleeping'[k] = IF k <= n THEN sleeping[k] ELSE IF k = n + 1 THEN t ELSE sleeping[k - 1]
  <2>1. PICK m : m = n + 1
    OBVIOUS
  <2>2. sleeping' = InsertAt(sleeping, m, t) /\ t \notin Range(sleeping)
    BY <1>2, <2>1 DEF Sleepers
  <2>3. sleeping \in Seq(Client) /\ IsInjective(sleeping) /\ n \in 0..Len(sleeping)
    BY <1>1, <1>2
  <2>4. /\ sleeping' \in Seq(Client) /\ Len(sleeping') = Len(sleeping) + 1
        /\ IsInjective(sleeping') /\ Range(sleeping') = Range(sleeping) \cup {t}
        /\ \A k \in 1..(Len(sleeping) + 1) :
             sleeping'[k] = IF k <= n THEN sleeping[k]
                            ELSE IF k = m THEN t ELSE sleeping[k - 1]
    <3> HIDE DEF IInv
    <3>1. PICK r : r = sleeping'
      OBVIOUS
    <3>2. Gained(Client, sleeping, n, m, t, r)
      BY <2>1, <2>2, <2>3, <3>1, InsertIntoQueue
    <3> QED BY <3>1, <3>2 DEF Gained
  <2> QED BY <2>1, <2>4
<1>7. /\ alarmtime' \in [Task -> 0..Horizon] /\ alarmtime'[t] = when
      /\ \A x \in Task \ {t} : alarmtime'[x] = alarmtime[x]
  BY <1>1
<1>8. \A x \in Sleepers : x \in Task \ {t} /\ alarmtime'[x] = alarmtime[x]
  <2>1. Sleepers \subseteq Client
    BY <1>1, RangeOfQueue DEF Sleepers
  <2> QED BY <1>1, <1>7, <2>1
<1> HIDE DEF L
<1>9. ASSUME NEW k \in 1..(L + 1)
      PROVE  b(k) = IF k <= n THEN a(k) ELSE IF k = n + 1 THEN when ELSE a(k - 1)
  <2>1. CASE k <= n
    <3>1. k \in 1..L
      BY <1>2, <1>3, <2>1
    <3> QED BY <1>3, <1>6, <1>8, <2>1, <3>1
  <2>2. CASE k = n + 1
    <3>1. ~(k <= n)
      BY <1>2, <2>2
    <3> QED BY <1>6, <1>7, <2>2, <3>1
  <2>3. CASE ~(k <= n) /\ k # n + 1
    <3>1. k - 1 \in 1..L
      BY <1>2, <1>3, <2>3
    <3> QED BY <1>3, <1>6, <1>8, <2>3, <3>1
  <2> QED BY <2>1, <2>2, <2>3
<1> HIDE DEF a, b
<1>10. ASSUME NEW j \in 1..(L + 1), NEW k \in 1..(L + 1), j < k PROVE b(j) <= b(k)
  <2>1. /\ b(j) = IF j <= n THEN a(j) ELSE IF j = n + 1 THEN when ELSE a(j - 1)
        /\ b(k) = IF k <= n THEN a(k) ELSE IF k = n + 1 THEN when ELSE a(k - 1)
    BY <1>9
  <2>2. CASE k <= n
    <3>1. j <= n /\ j \in 1..L /\ k \in 1..L
      BY <1>2, <1>3, <1>10, <2>2
    <3> QED BY <1>5, <1>10, <2>1, <2>2, <3>1
  <2>3. CASE k = n + 1
    <3>1. j <= n /\ j \in 1..L /\ ~(k <= n)
      BY <1>2, <1>3, <1>10, <2>3
    <3>2. a(j) < when /\ a(j) \in Int
      BY <1>2, <1>4, <3>1
    <3> QED BY <1>1, <2>1, <2>3, <3>1, <3>2
  <2>4. CASE k > n + 1
    <3>1. ~(k <= n) /\ k # n + 1 /\ k - 1 \in 1..L /\ ~(k - 1 <= n)
      BY <1>2, <1>3, <2>4
    <3>2. a(k - 1) >= when /\ a(k - 1) \in Int
      BY <1>2, <1>4, <3>1
    <3>3. CASE j <= n
      <4>1. j \in 1..L
        BY <1>2, <1>3, <3>3
      <4>2. a(j) < when /\ a(j) \in Int
        BY <1>2, <1>4, <3>3, <4>1
      <4> QED BY <1>1, <2>1, <3>1, <3>2, <3>3, <4>2
    <3>4. CASE j = n + 1
      <4>1. ~(j <= n)
        BY <1>2, <3>4
      <4> QED BY <1>1, <2>1, <3>1, <3>2, <3>4, <4>1
    <3>5. CASE j > n + 1
      <4>1. ~(j <= n) /\ j # n + 1 /\ j - 1 \in 1..L /\ j - 1 < k - 1
        BY <1>2, <1>3, <1>10, <3>5
      <4> QED BY <1>5, <2>1, <3>1, <4>1
    <3> QED BY <1>2, <1>3, <3>3, <3>4, <3>5
  <2> QED BY <1>2, <1>3, <2>2, <2>3, <2>4
<1>11. Sorted'
  <2>1. DOMAIN sleeping' = 1..(L + 1)
    BY <1>6
  <2> QED BY <1>10, <2>1 DEF Sorted, b
<1>12. Sleepers' = Sleepers \cup {t}
  BY <1>6 DEF Sleepers
<1> QED BY <1>6, <1>7, <1>8, <1>11, <1>12

(* taskdelay().                                                            *)
LEMMA DelayKeeps ==
  ASSUME IInv, NEW t \in Client, NEW ms \in Delay, taskdelay(t, ms)
  PROVE  IInv'
<1> USE DEF IInv
<1> DEFINE d == ms * TickPerMs
           when == clock + d
<1>1. /\ when <= Horizon /\ StartAndSwitch(t)
      /\ sleeping' = InsertAt(sleeping, Before(when) + 1, t)
      /\ alarmtime' = [alarmtime EXCEPT ![t] = when]
      /\ sleepingcounted' = sleepingcounted + Counted(t)
      /\ taskcount' = taskcount + Created + ExtraCount(t)
      /\ due' = [due EXCEPT ![t] = d] /\ pollfd' = pollfd
  BY DEF taskdelay
<1>2. t \in Task /\ t \notin Sleepers /\ t \notin Range(PollTasks) /\ t \notin Parked
  BY <1>1, ClientFacts DEF StartAndSwitch
<1>3. d \in Nat /\ when \in 0..Horizon
  <2>1. ms \in Nat /\ TickPerMs \in Nat
    BY FdTaskAssumption
  <2>2. d \in Nat
    BY <2>1
  <2> HIDE DEF d
  <2> QED BY <1>1, <2>2, FdTaskAssumption DEF Typed
<1> HIDE DEF when, d
<1>4. /\ sleeping' \in Seq(Client) /\ IsInjective(sleeping')
      /\ Sleepers' = Sleepers \cup {t} /\ Sorted'
      /\ alarmtime' \in [Task -> 0..Horizon]
  BY <1>1, <1>2, <1>3, DelaySorts
<1>5. /\ CoopOK' /\ Parked' = Parked \cup {t} /\ system' = system
      /\ startedfdtask' /\ fdt' = fdt /\ clock' = clock /\ able' = able
  BY <1>1, SwitchEffect
<1>6. FdtInv' /\ AloneInv' /\ EndInv'
  BY <1>1, SwitchFdt
<1>7. WaitersInv'
  <2>1. PollTasks' = PollTasks
    BY <1>1 DEF PollTasks
  <2> QED BY <1>1, <1>2, <1>4, <1>5, <2>1 DEF WaitersInv
<1>8. CountInv' /\ sleepingcounted' \in Nat /\ taskcount' \in Nat
  <2> DEFINE S == Sleepers \ system
  <2>1. IsFiniteSet(S)
    <3>1. IsFiniteSet(Parked) /\ S \subseteq Parked
      BY ParkedFacts DEF WaitersInv
    <3> QED BY <3>1, FS_Subset
  <2>2. /\ Cardinality(Users') = Cardinality(Users) + Created /\ Created \in Nat
        /\ Cardinality(Users) \in Nat
    BY <1>1, SwitchCount
  <2>3. /\ sleepingcounted = Cardinality(S) /\ sleepingcounted \in Nat
        /\ taskcount = Cardinality(Users) + (IF sleepingcounted > 0 THEN 1 ELSE 0)
    BY DEF CountInv, Typed
  <2>4. CASE t \in system
    <3>1. Counted(t) = 0 /\ ExtraCount(t) = 0
      BY <2>4 DEF Counted, ExtraCount
    <3>2. Sleepers' \ system' = S
      BY <1>4, <1>5, <2>4
    <3>3. sleepingcounted' = sleepingcounted
      BY <1>1, <2>3, <3>1
    <3>4. taskcount' = Cardinality(Users') + (IF sleepingcounted' > 0 THEN 1 ELSE 0)
          /\ taskcount' \in Nat
      BY <1>1, <2>2, <2>3, <3>1, <3>3
    <3> QED BY <2>3, <3>2, <3>3, <3>4 DEF CountInv
  <2>5. CASE t \notin system
    <3>1. Counted(t) = 1 /\ ExtraCount(t) = IF sleepingcounted = 0 THEN 1 ELSE 0
      BY <2>5 DEF Counted, ExtraCount
    <3>2. Sleepers' \ system' = S \cup {t} /\ t \notin S
      BY <1>2, <1>4, <1>5, <2>5
    <3>3. Cardinality(S \cup {t}) = Cardinality(S) + 1
      BY <2>1, <3>2, CountOne
    <3>4. sleepingcounted' = Cardinality(S \cup {t}) /\ sleepingcounted' \in Nat
          /\ sleepingcounted' > 0
      BY <1>1, <2>3, <3>1, <3>3
    <3>5. taskcount' = Cardinality(Users') + 1 /\ taskcount' \in Nat
      BY <1>1, <2>2, <2>3, <3>1
    <3> QED BY <3>2, <3>4, <3>5 DEF CountInv
  <2> QED BY <2>4, <2>5
<1>9. Typed'
  BY <1>1, <1>3, <1>4, <1>5, <1>8 DEF Typed
<1> QED BY <1>5, <1>6, <1>7, <1>8, <1>9

(* fdwait() when the poll array has room.                                  *)
LEMMA WaitKeeps ==
  ASSUME IInv, NEW t \in Client, NEW fd \in Fd, NEW rw \in Mode, fdwait(t, fd, rw)
  PROVE  IInv'
<1> USE DEF IInv
<1> DEFINE e == [task |-> t, fd |-> fd, events |-> rw, revents |-> FALSE]
<1>1. /\ ~NoRoom /\ StartAndSwitch(t) /\ pollfd' = Append(pollfd, e)
      /\ taskcount' = taskcount + Created
      /\ UNCHANGED <<sleeping, alarmtime, sleepingcounted, due>>
  BY DEF fdwait, timeVars
<1>2. t \in Task /\ t \notin Sleepers /\ t \notin Range(PollTasks)
  BY <1>1, ClientFacts DEF StartAndSwitch
<1>3. e \in Entry /\ e.task = t
  BY DEF Entry
<1> HIDE DEF e
<1>4. /\ CoopOK' /\ Parked' = Parked \cup {t} /\ system' = system
      /\ startedfdtask' /\ fdt' = fdt /\ clock' = clock /\ able' = able
  BY <1>1, SwitchEffect
<1>5. FdtInv' /\ AloneInv' /\ EndInv'
  BY <1>1, SwitchFdt
<1>6. /\ PollTasks \in Seq(Client) /\ Len(PollTasks) = Len(pollfd) /\ Len(pollfd) \in Nat
      /\ pollfd \in Seq(Entry) /\ IsInjective(PollTasks)
  BY PollTasksAre DEF Typed, WaitersInv
<1>7. pollfd' \in Seq(Entry) /\ Len(pollfd') = Len(pollfd) + 1
      /\ pollfd'[Len(pollfd) + 1] = e /\ \A k \in 1..Len(pollfd) : pollfd'[k] = pollfd[k]
  BY <1>1, <1>3, <1>6, AppendProperties
<1>8. PollTasks' = Append(PollTasks, t)
  <2>1. PollTasks' = [k \in 1..(Len(pollfd) + 1) |-> pollfd'[k].task]
    BY <1>7 DEF PollTasks
  <2>2. /\ Append(PollTasks, t) \in Seq(Client) /\ Len(Append(PollTasks, t)) = Len(pollfd) + 1
        /\ \A k \in 1..(Len(pollfd) + 1) :
             Append(PollTasks, t)[k] = IF k = Len(pollfd) + 1 THEN t ELSE PollTasks[k]
    <3> DEFINE q == PollTasks
    <3> HIDE DEF q
    <3>1. q \in Seq(Client) /\ Len(q) = Len(pollfd)
      BY <1>6 DEF q
    <3>2. /\ Append(q, t) \in Seq(Client) /\ Len(Append(q, t)) = Len(q) + 1
          /\ \A k \in 1..Len(q) : Append(q, t)[k] = q[k]
          /\ Append(q, t)[Len(q) + 1] = t
      BY <3>1, AppendProperties
    <3> QED BY <1>6, <3>1, <3>2 DEF q
  <2>3. ASSUME NEW k \in 1..(Len(pollfd) + 1)
        PROVE  pollfd'[k].task = IF k = Len(pollfd) + 1 THEN t ELSE PollTasks[k]
    <3>1. CASE k = Len(pollfd) + 1
      BY <1>3, <1>7, <3>1
    <3>2. CASE k # Len(pollfd) + 1
      <4>1. k \in 1..Len(pollfd)
        BY <1>6, <3>2
      <4> QED BY <1>7, <3>2, <4>1 DEF PollTasks
    <3> QED BY <3>1, <3>2
  <2>4. PollTasks' \in [1..(Len(pollfd) + 1) -> Client]
    <3>1. \A k \in 1..(Len(pollfd) + 1) : PollTasks[k] \in Client \/ k = Len(pollfd) + 1
      BY <1>6
    <3> QED BY <2>1, <2>3, <3>1
  <2>5. PollTasks' \in Seq(Client) /\ Len(PollTasks') = Len(pollfd) + 1
        /\ \A k \in 1..(Len(pollfd) + 1) : PollTasks'[k] = Append(PollTasks, t)[k]
    <3>1. \A k \in 1..(Len(pollfd) + 1) : PollTasks'[k] = pollfd'[k].task
      BY <2>1
    <3>2. Len(pollfd) + 1 \in Nat
      BY <1>6
    <3> QED BY <2>2, <2>3, <2>4, <3>1, <3>2, FunctionIsQueue
  <2> QED BY <2>2, <2>5, SeqEqual
<1>9. IsInjective(PollTasks') /\ Range(PollTasks') = Range(PollTasks) \cup {t}
  BY <1>2, <1>6, <1>8, AppendToQueue
<1>10. WaitersInv'
  <2>1. Len(pollfd') <= MaxFd
    BY <1>1, <1>6, <1>7, FdTaskAssumption DEF NoRoom
  <2>2. Sorted'
    BY <1>1 DEF WaitersInv, Sorted
  <2>3. Sleepers' = Sleepers
    BY <1>1 DEF Sleepers
  <2> QED BY <1>1, <1>2, <1>4, <1>9, <2>1, <2>2, <2>3 DEF WaitersInv
<1>11. CountInv' /\ taskcount' \in Nat
  <2>1. /\ Cardinality(Users') = Cardinality(Users) + Created /\ Created \in Nat
        /\ Cardinality(Users) \in Nat
    BY <1>1, SwitchCount
  <2>2. /\ taskcount = Cardinality(Users) + (IF sleepingcounted > 0 THEN 1 ELSE 0)
        /\ sleepingcounted = Cardinality(Sleepers \ system)
    BY DEF CountInv
  <2>3. taskcount' = Cardinality(Users') + (IF sleepingcounted > 0 THEN 1 ELSE 0)
        /\ taskcount' \in Nat
    BY <1>1, <2>1, <2>2
  <2>4. Sleepers' \ system' = Sleepers \ system
    BY <1>1, <1>4 DEF Sleepers
  <2> QED BY <1>1, <2>2, <2>3, <2>4 DEF CountInv
<1>12. Typed'
  BY <1>1, <1>4, <1>7, <1>11 DEF Typed
<1> QED BY <1>4, <1>5, <1>10, <1>11, <1>12

-----------------------------------------------------------------------------
FdRec == [pc : Place, i : Nat, now : 0..Horizon, otherran : BOOLEAN,
          left : Nat \cup {Forever}]

(* The states of fdtask that its steps construct.                          *)
LEMMA IdlingFacts ==
  /\ Idling \in FdRec /\ Idling.pc = "loop"
  /\ \A p \in Place : [Idling EXCEPT !.pc = p] \in FdRec
                      /\ [Idling EXCEPT !.pc = p].pc = p
  /\ \A left \in Nat \cup {Forever} :
       [Idling EXCEPT !.pc = "poll", !.left = left] \in FdRec
  /\ \A now \in 0..Horizon : [Idling EXCEPT !.pc = "timers", !.now = now] \in FdRec
  /\ [Idling EXCEPT !.pc = "scan", !.i = 1] \in FdRec
<1>1. Idling \in FdRec /\ Idling.pc = "loop"
  BY FdTaskAssumption DEF Idling, FdRec, Place
<1>2. ASSUME NEW r \in FdRec, NEW p \in Place
      PROVE  [r EXCEPT !.pc = p] \in FdRec /\ [r EXCEPT !.pc = p].pc = p
  BY DEF FdRec
<1>3. ASSUME NEW r \in FdRec, NEW left \in Nat \cup {Forever}
      PROVE  [r EXCEPT !.pc = "poll", !.left = left] \in FdRec
  BY DEF FdRec, Place
<1>4. ASSUME NEW r \in FdRec, NEW now \in 0..Horizon
      PROVE  [r EXCEPT !.pc = "timers", !.now = now] \in FdRec
  BY DEF FdRec, Place
<1>5. ASSUME NEW r \in FdRec PROVE [r EXCEPT !.pc = "scan", !.i = 1] \in FdRec
  BY DEF FdRec, Place
<1> QED BY <1>1, <1>2, <1>3, <1>4, <1>5

(* How long fdtask waits: no longer than to the first alarm.               *)
LEMMA TimeoutFacts ==
  ASSUME IInv
  PROVE  LET left == IF Timeout = Forever THEN Forever ELSE Timeout * TickPerMs
         IN  /\ left \in Nat \cup {Forever}
             /\ sleeping # <<>> =>
                  /\ left # Forever
                  /\ left = 0 \/ clock + left <= alarmtime[Head(sleeping)]
<1> DEFINE left == IF Timeout = Forever THEN Forever ELSE Timeout * TickPerMs
<1>1. TickPerMs \in Nat \ {0} /\ PollCap \in Nat \ {0} /\ Forever = -1
  BY FdTaskAssumption DEF Forever
<1>2. CASE sleeping = <<>>
  <2>1. Timeout = Forever
    BY <1>2 DEF Timeout
  <2> QED BY <1>2, <2>1
<1>3. CASE sleeping # <<>>
  <2> DEFINE alarm == alarmtime[Head(sleeping)]
  <2>1. clock \in Nat /\ alarm \in Nat
    <3>1. sleeping \in Seq(Client) /\ Client \subseteq Task
          /\ alarmtime \in [Task -> 0..Horizon] /\ clock \in 0..Horizon
      BY DEF IInv, Typed, Client
    <3>2. Head(sleeping) \in Task
      BY <1>3, <3>1
    <3> QED BY <3>1, <3>2, FdTaskAssumption
  <2>2. Timeout = IF clock >= alarm THEN 0
                  ELSE IF clock + PollCap * TickPerMs >= alarm
                  THEN (alarm - clock) \div TickPerMs ELSE PollCap
    BY <1>3 DEF Timeout
  <2> HIDE DEF alarm
  <2>3. CASE clock >= alarm
    <3>1. Timeout = 0 /\ left = 0
      BY <1>1, <2>2, <2>3
    <3> QED BY <3>1 DEF Forever
  <2>4. CASE clock < alarm /\ clock + PollCap * TickPerMs >= alarm
    <3> DEFINE n == alarm - clock
    <3>1. n \in Nat /\ clock + n = alarm
      BY <2>1, <2>4
    <3>2. Timeout = n \div TickPerMs
      BY <2>1, <2>2, <2>4
    <3> HIDE DEF n
    <3>3. (n \div TickPerMs) * TickPerMs <= n /\ (n \div TickPerMs) * TickPerMs \in Nat
          /\ n \div TickPerMs \in Nat
      BY <1>1, <3>1, DivMul
    <3>4. left = (n \div TickPerMs) * TickPerMs
      BY <1>1, <3>2, <3>3
    <3>5. left \in Nat /\ left <= n
      BY <3>3, <3>4
    <3> HIDE DEF left
    <3>6. clock + left <= alarm /\ left # Forever
      BY <1>1, <2>1, <3>1, <3>5
    <3> QED BY <3>5, <3>6 DEF left, alarm
  <2>5. CASE clock < alarm /\ ~(clock + PollCap * TickPerMs >= alarm)
    <3>1. Timeout = PollCap
      BY <2>1, <2>2, <2>5
    <3>2. left = PollCap * TickPerMs
      BY <1>1, <3>1
    <3>3. PollCap * TickPerMs \in Nat
      BY <1>1
    <3>4. left \in Nat /\ ~(clock + left >= alarm)
      BY <2>5, <3>2, <3>3
    <3> HIDE DEF left
    <3>5. clock + left <= alarm /\ left # Forever
      BY <1>1, <2>1, <3>4
    <3> QED BY <3>4, <3>5 DEF left, alarm
  <2> QED BY <2>1, <2>3, <2>4, <2>5
<1> QED BY <1>2, <1>3

(* The steps of fdtask that only move it along.                            *)
LEMMA FdMoves ==
  ASSUME IInv, Running(FdT), UNCHANGED <<coopVars, fdVars, clock, able>>, fdt' \in FdRec,
         fdt'.pc \in {"loop", "poll", "scan", "timers"},
         fdt'.pc = "poll" => runqueue = <<>>, fdt'.pc = "scan" => fdt'.i >= 1
  PROVE  IInv'
<1>1. /\ startedfdtask /\ FdT \in live /\ FdT \notin Parked /\ ~ended /\ running = FdT
  BY FdtFacts
<1>2. Parked' = Parked /\ UNCHANGED <<live, system, runqueue, running, ended>>
  BY IdleEffect DEF IInv, coopVars
<1>3. AloneInv' /\ FdtInv'
  BY <1>1, <1>2 DEF AloneInv, FdtInv, fdVars
<1> QED BY <1>3, Frame DEF IInv, Typed, fdVars, timeVars, FdRec

(* fdtask becomes a system task, yields, polls, and goes round its loop.   *)
LEMMA FdKeeps ==
  ASSUME IInv, FdStarts \/ FdYields \/ FdPolls \/ PollFails \/ ScanEnds \/ TimersEnd,
         UNCHANGED <<clock, able>>
  PROVE  IInv' /\ [CoopNext]_coopVars
<1> USE DEF IInv
<1>1. Running(FdT)
  BY DEF FdStarts, FdYields, MustYield, FdPolls, PollFails, ScanEnds, TimersEnd, At
<1>2. /\ startedfdtask /\ FdT \in Task /\ FdT # NoTask /\ FdT \in live /\ FdT \notin Parked
      /\ ~ended /\ running = FdT /\ FdT \notin Range(runqueue)
  BY <1>1, FdtFacts
<1>3. fdt \in FdRec /\ clock \in 0..Horizon
  BY DEF Typed, FdRec
<1>4. CASE FdStarts
  <2>1. /\ fdt.pc = "start" /\ SetSystem(FdT) /\ taskcount' = taskcount - 1 /\ fdt' = Idling
        /\ UNCHANGED <<startedfdtask, pollfd, sleeping, alarmtime, sleepingcounted, due>>
    BY <1>4 DEF FdStarts, At, timeVars
  <2>2. /\ CoopOK' /\ Parked' = Parked /\ live' = live /\ system' = system \cup {FdT}
        /\ running' = running /\ ~ended' /\ CoopNext
    BY <1>2, <2>1, SystemEffect
  <2>3. FdT \notin system /\ FdT \notin Sleepers
    BY <1>2, <2>1 DEF FdtInv, WaitersInv
  <2>4. WaitersInv' /\ Sleepers' = Sleepers
    <3>1. PollTasks' = PollTasks
      BY <2>1 DEF PollTasks
    <3> QED BY <2>1, <2>2, <3>1, WaitersFrame DEF WaitersInv
  <2>5. CountInv' /\ taskcount' \in Nat
    <3>1. IsFiniteSet(Users)
      BY CoopAssumption, FS_Subset DEF Users, CoopOK
    <3>2. Users' = Users \ {FdT} /\ FdT \in Users
      BY <1>2, <2>2, <2>3 DEF Users
    <3>3. Cardinality(Users') = Cardinality(Users) - 1 /\ Cardinality(Users) \in Nat
          /\ Cardinality(Users') \in Nat
      BY <3>1, <3>2, CountOne, FS_CardinalityType
    <3>4. Sleepers' \ system' = Sleepers \ system
      BY <2>2, <2>3, <2>4
    <3>5. taskcount = Cardinality(Users) + (IF sleepingcounted > 0 THEN 1 ELSE 0)
          /\ sleepingcounted = Cardinality(Sleepers \ system)
      BY DEF CountInv
    <3>6. taskcount' = Cardinality(Users') + (IF sleepingcounted' > 0 THEN 1 ELSE 0)
          /\ taskcount' \in Nat
      BY <2>1, <3>3, <3>5
    <3> QED BY <2>1, <3>4, <3>5, <3>6 DEF CountInv
  <2>6. AloneInv' /\ FdtInv' /\ EndInv'
    BY <1>2, <2>1, <2>2, IdlingFacts DEF AloneInv, FdtInv, EndInv
  <2>7. Typed'
    BY <2>1, <2>5, IdlingFacts DEF Typed, FdRec
  <2> QED BY <2>2, <2>4, <2>5, <2>6, <2>7
<1>5. CASE FdYields
  <2>1. /\ Yield(FdT) /\ fdt' = [Idling EXCEPT !.pc = "yielded"] /\ UNCHANGED fdVars
        /\ runqueue' = Append(runqueue, FdT)
    BY <1>5 DEF FdYields, Yield
  <2>2. /\ CoopOK' /\ Parked' = Parked /\ live' = live /\ running' = NoTask /\ ~ended' /\ CoopNext
    BY <1>2, <2>1, YieldEffect
  <2>3. system' = system
    BY <2>1 DEF Yield
  <2>4. /\ startedfdtask' = startedfdtask
        /\ UNCHANGED <<pollfd, sleeping, alarmtime, sleepingcounted, due, taskcount>>
    BY <2>1 DEF fdVars, timeVars
  <2>5. WaitersInv' /\ Sleepers' = Sleepers
    <3>1. PollTasks' = PollTasks
      BY <2>4 DEF PollTasks
    <3> QED BY <2>2, <2>4, <3>1, WaitersFrame DEF WaitersInv
  <2>6. CountInv'
    BY <2>2, <2>3, <2>4, <2>5, CountFrame
  <2>7. fdt' \in FdRec /\ fdt'.pc = "yielded"
    BY <2>1, IdlingFacts DEF Place
  <2>8. runqueue' # <<>> /\ runqueue'[Len(runqueue')] = FdT
    BY <1>2, <2>1 DEF CoopOK
  <2>9. AloneInv' /\ FdtInv' /\ EndInv'
    BY <1>2, <2>2, <2>4, <2>7, <2>8 DEF AloneInv, FdtInv, EndInv
  <2>10. Typed'
    BY <2>4, <2>7 DEF Typed, FdRec
  <2> QED BY <2>2, <2>5, <2>6, <2>9, <2>10
<1>6. CASE FdPolls
  <2> DEFINE left == IF Timeout = Forever THEN Forever ELSE Timeout * TickPerMs
  <2>1. /\ fdt.pc = "yielded" /\ ~fdt.otherran /\ UNCHANGED <<coopVars, fdVars>>
        /\ fdt' = [Idling EXCEPT !.pc = "poll", !.left = left]
    BY <1>6 DEF FdPolls, MustYield, At
  <2>2. left \in Nat \cup {Forever}
    BY TimeoutFacts
  <2> HIDE DEF left
  <2>3. fdt' \in FdRec /\ fdt'.pc = "poll"
    <3>1. fdt'.pc = "poll"
      BY <2>1 DEF Idling
    <3> QED BY <2>1, <2>2, <3>1, IdlingFacts
  <2>4. runqueue = <<>>
    BY <1>2, <2>1 DEF AloneInv
  <2> QED BY <1>1, <2>1, <2>3, <2>4, FdMoves
<1>7. CASE ScanEnds
  <2>1. UNCHANGED <<coopVars, fdVars>> /\ fdt' = [Idling EXCEPT !.pc = "timers", !.now = clock]
    BY <1>7 DEF ScanEnds
  <2>2. fdt' \in FdRec /\ fdt'.pc = "timers"
    <3>1. fdt'.pc = "timers"
      BY <2>1 DEF Idling
    <3> QED BY <1>3, <2>1, <3>1, IdlingFacts
  <2> QED BY <1>1, <2>1, <2>2, FdMoves
<1>8. CASE TimersEnd
  <2>1. UNCHANGED <<coopVars, fdVars>> /\ fdt' = Idling
    BY <1>8 DEF TimersEnd
  <2> QED BY <1>1, <2>1, IdlingFacts, FdMoves
<1>9. CASE PollFails
  <2>1. CASE fdt' = Idling /\ UNCHANGED coopVars
    <3>1. UNCHANGED fdVars
      BY <1>9 DEF PollFails
    <3> QED BY <1>1, <2>1, <3>1, IdlingFacts, FdMoves
  <2>2. CASE ExitAll(FdT) /\ UNCHANGED fdt
    <3>1. UNCHANGED fdVars /\ fdt.pc = "poll"
      BY <1>9 DEF PollFails, At
    <3>2. /\ CoopOK' /\ Parked' = Parked /\ live' = live /\ running' = running /\ CoopNext
      BY <1>2, <2>2, ExitAllEffect
    <3>3. system' = system /\ runqueue' = runqueue
      BY <2>2 DEF ExitAll
    <3>4. UNCHANGED <<startedfdtask, pollfd, sleeping, alarmtime, sleepingcounted, due, taskcount>>
      BY <3>1 DEF fdVars, timeVars
    <3>5. WaitersInv' /\ Sleepers' = Sleepers
      <4>1. PollTasks' = PollTasks
        BY <3>4 DEF PollTasks
      <4> QED BY <3>2, <3>4, <4>1, WaitersFrame DEF WaitersInv
    <3>6. CountInv'
      BY <3>2, <3>3, <3>4, <3>5, CountFrame
    <3>7. AloneInv' /\ FdtInv' /\ EndInv'
      BY <1>2, <2>2, <3>1, <3>2, <3>3, <3>4 DEF AloneInv, FdtInv, EndInv
    <3>8. Typed'
      BY <2>2, <3>4 DEF Typed
    <3> QED BY <3>2, <3>5, <3>6, <3>7, <3>8
  <2> QED BY <1>9, <2>1, <2>2 DEF PollFails
<1> QED BY <1>4, <1>5, <1>6, <1>7, <1>8, <1>9

(* poll() returns: only what it reports is new in the poll array.          *)
LEMMA PollKeeps ==
  ASSUME IInv, PollReturns, UNCHANGED <<clock, able>>
  PROVE  IInv' /\ UNCHANGED coopVars
<1> USE DEF IInv
<1>1. /\ Running(FdT) /\ fdt.pc = "poll" /\ fdt' = [Idling EXCEPT !.pc = "scan", !.i = 1]
      /\ pollfd' = [k \in DOMAIN pollfd |->
                      [pollfd[k] EXCEPT !.revents = Reported(pollfd[k])]]
      /\ UNCHANGED coopVars
      /\ UNCHANGED <<startedfdtask, sleeping, alarmtime, sleepingcounted, due, taskcount>>
  BY DEF PollReturns, At, timeVars
<1>2. /\ startedfdtask /\ FdT \in live /\ FdT \notin Parked /\ ~ended /\ running = FdT
  BY <1>1, FdtFacts
<1>3. /\ CoopOK' /\ Parked' = Parked
      /\ UNCHANGED <<live, system, runqueue, running, ended>>
  BY <1>1, IdleEffect DEF coopVars
<1>4. /\ Len(pollfd) \in Nat /\ DOMAIN pollfd = 1..Len(pollfd)
      /\ \A k \in 1..Len(pollfd) : pollfd[k] \in Entry
  BY DEF Typed
<1>5. ASSUME NEW k \in 1..Len(pollfd)
      PROVE  pollfd'[k] \in Entry /\ pollfd'[k].task = pollfd[k].task
  <2>1. pollfd[k] \in Entry
    BY <1>4
  <2>2. Reported(pollfd[k]) \in BOOLEAN
    BY DEF Reported
  <2>3. pollfd'[k] = [pollfd[k] EXCEPT !.revents = Reported(pollfd[k])]
    BY <1>1, <1>4
  <2> HIDE DEF IInv
  <2> QED BY <2>1, <2>2, <2>3 DEF Entry
<1>6. pollfd' \in Seq(Entry) /\ Len(pollfd') = Len(pollfd)
  <2>1. pollfd' \in [1..Len(pollfd) -> Entry]
    BY <1>1, <1>4, <1>5
  <2> HIDE DEF IInv
  <2> QED BY <1>4, <2>1, FunctionIsQueue
<1>7. PollTasks' = PollTasks
  BY <1>5, <1>6 DEF PollTasks
<1>8. WaitersInv' /\ Sleepers' = Sleepers
  BY <1>1, <1>3, <1>6, <1>7, WaitersFrame DEF WaitersInv
<1>9. CountInv'
  BY <1>1, <1>3, <1>8, CountFrame
<1>10. fdt' \in FdRec /\ fdt'.pc = "scan" /\ fdt'.i >= 1
  <2>1. fdt'.pc = "scan" /\ fdt'.i = 1
    BY <1>1 DEF Idling
  <2>2. fdt' \in FdRec
    BY <1>1, IdlingFacts
  <2> HIDE DEF IInv
  <2> QED BY <2>1, <2>2
<1>11. AloneInv' /\ FdtInv' /\ EndInv'
  BY <1>1, <1>2, <1>3, <1>10 DEF AloneInv, FdtInv, EndInv
<1>12. Typed'
  BY <1>1, <1>6, <1>10 DEF Typed, FdRec
<1> QED BY <1>1, <1>3, <1>8, <1>9, <1>11, <1>12

(* The poll array without its k-th entry.                                  *)
LEMMA RemovedFacts ==
  ASSUME IInv, NEW k \in 1..Len(pollfd), pollfd' = Removed(k)
  PROVE  /\ pollfd' \in Seq(Entry) /\ Len(pollfd') = Len(pollfd) - 1
         /\ Range(PollTasks)' = Range(PollTasks) \ {pollfd[k].task}
         /\ IsInjective(PollTasks')
         /\ pollfd[k].task \in Range(PollTasks) /\ pollfd[k].task \in Client
<1> DEFINE n == Len(pollfd)
<1>1. Typed /\ IsInjective(PollTasks)
  BY DEF IInv, WaitersInv
<1>2. /\ PollTasks \in Seq(Client) /\ Len(PollTasks) = n /\ n \in Nat
      /\ \A j \in 1..n : PollTasks[j] = pollfd[j].task /\ pollfd[j] \in Entry
  BY <1>1, PollTasksAre
<1> HIDE DEF n
<1>3. n \in 1..n /\ n - 1 \in Nat /\ 1..(n - 1) \subseteq 1..n /\ k \in 1..n
  BY <1>2 DEF n
<1>4. pollfd' = [j \in 1..(n - 1) |-> IF j = k THEN pollfd[n] ELSE pollfd[j]]
  BY DEF Removed, n
<1>5. pollfd' \in [1..(n - 1) -> Entry]
  BY <1>2, <1>3, <1>4
<1>6. pollfd' \in Seq(Entry) /\ Len(pollfd') = n - 1
  BY <1>3, <1>5, FunctionIsQueue
<1>7. /\ PollTasks' = [j \in 1..(n - 1) |-> pollfd'[j].task]
      /\ PollTasks' \in Seq(Client) /\ Len(PollTasks') = n - 1
  <2>1. PollTasks' = [j \in 1..(n - 1) |-> pollfd'[j].task]
    BY <1>6 DEF PollTasks
  <2>2. PollTasks' \in [1..(n - 1) -> Client]
    BY <1>5, <2>1 DEF Entry
  <2> QED BY <1>3, <2>1, <2>2, FunctionIsQueue
<1>8. ASSUME NEW j \in 1..(n - 1)
      PROVE  PollTasks'[j] = IF j = k THEN PollTasks[n] ELSE PollTasks[j]
  BY <1>2, <1>3, <1>4, <1>7
<1>9. Range(PollTasks') = Range(PollTasks) \ {PollTasks[k]} /\ IsInjective(PollTasks')
  <2>1. PICK r : r = PollTasks'
    OBVIOUS
  <2>2. /\ r \in Seq(Client) /\ Len(r) = Len(PollTasks) - 1 /\ k \in 1..Len(PollTasks)
        /\ \A j \in 1..(Len(PollTasks) - 1) :
             r[j] = IF j = k THEN PollTasks[Len(PollTasks)] ELSE PollTasks[j]
    BY <1>2, <1>3, <1>7, <1>8, <2>1
  <2>3. Range(r) = Range(PollTasks) \ {PollTasks[k]} /\ IsInjective(r)
    BY <1>1, <1>2, <2>2, DropSlot
  <2> QED BY <2>1, <2>3
<1>10. PollTasks[k] = pollfd[k].task /\ pollfd[k].task \in Client
       /\ PollTasks[k] \in Range(PollTasks)
  BY <1>2, <1>3, RangeOfQueue DEF Entry
<1> QED BY <1>6, <1>9, <1>10 DEF n

(* One entry of the poll array in the scan after poll().                   *)
LEMMA ScanKeeps ==
  ASSUME IInv, Scans, UNCHANGED <<clock, able>>
  PROVE  IInv' /\ [CoopNext]_coopVars
<1> USE DEF IInv
<1> DEFINE i == fdt.i
<1>1. /\ Running(FdT) /\ fdt.pc = "scan" /\ i <= Len(pollfd)
      /\ UNCHANGED <<startedfdtask, sleeping, alarmtime, sleepingcounted, due, taskcount>>
  BY DEF Scans, At, timeVars
<1>2. /\ startedfdtask /\ FdT \in Task /\ FdT \in live /\ FdT \notin Parked
      /\ ~ended /\ running = FdT
  BY <1>1, FdtFacts
<1>3. fdt \in FdRec /\ i \in Nat /\ i >= 1 /\ Len(pollfd) \in Nat
  BY <1>1 DEF Typed, FdRec, FdtInv
<1>4. i \in 1..Len(pollfd)
  <2> HIDE DEF IInv, i
  <2> QED BY <1>1, <1>3
<1>5. CASE ~pollfd[i].revents
  <2>1. fdt' = [fdt EXCEPT !.i = i + 1] /\ UNCHANGED <<coopVars, pollfd>>
    BY <1>5 DEF Scans
  <2>2. fdt' \in FdRec /\ fdt'.pc = "scan" /\ fdt'.i >= 1
    <3> HIDE DEF IInv
    <3> QED BY <1>1, <1>3, <2>1 DEF FdRec
  <2>3. UNCHANGED fdVars
    BY <1>1, <2>1 DEF fdVars, timeVars
  <2> QED BY <1>1, <2>1, <2>2, <2>3, FdMoves
<1>6. CASE pollfd[i].revents
  <2> DEFINE u == pollfd[i].task
  <2>1. Wake(FdT, <<u>>) /\ pollfd' = Removed(i) /\ fdt' = [fdt EXCEPT !.i = i]
    BY <1>6 DEF Scans, NextIndex
  <2>2. /\ pollfd' \in Seq(Entry) /\ Len(pollfd') = Len(pollfd) - 1
        /\ Range(PollTasks)' = Range(PollTasks) \ {u}
        /\ IsInjective(PollTasks')
        /\ u \in Range(PollTasks) /\ u \in Client
    BY <1>4, <2>1, RemovedFacts
  <2>3. u \in Parked
    BY <2>2 DEF WaitersInv
  <2> HIDE DEF u
  <2>4. /\ CoopOK' /\ Parked' = Parked \ {u} /\ live' = live /\ running' = running
        /\ ~ended' /\ CoopNext
    BY <1>2, <2>1, <2>3, MayWakeOne, WakeEffect
  <2>5. system' = system
    BY <2>1 DEF Wake
  <2>6. fdt' = fdt
    <3> HIDE DEF IInv
    <3> QED BY <1>3, <2>1 DEF FdRec
  <2>7. WaitersInv' /\ Sleepers' = Sleepers
    <3>1. Sleepers' = Sleepers /\ Sorted'
      BY <1>1 DEF Sleepers, WaitersInv, Sorted
    <3>2. Len(pollfd') <= MaxFd
      BY <1>3, <2>2, FdTaskAssumption DEF WaitersInv
    <3> QED BY <1>1, <2>2, <2>4, <3>1, <3>2 DEF WaitersInv
  <2>8. CountInv'
    BY <1>1, <2>4, <2>5, <2>7, CountFrame
  <2>9. AloneInv' /\ FdtInv' /\ EndInv'
    BY <1>1, <1>2, <1>3, <2>4, <2>5, <2>6 DEF AloneInv, FdtInv, EndInv
  <2>10. Typed'
    BY <1>1, <2>2, <2>6 DEF Typed
  <2> QED BY <2>4, <2>7, <2>8, <2>9, <2>10
<1> QED BY <1>5, <1>6

(* fdtask wakes the first sleeper.                                         *)
LEMMA TimerKeeps ==
  ASSUME IInv, TimerWakes, UNCHANGED <<clock, able>>
  PROVE  IInv' /\ CoopNext
<1> USE DEF IInv
<1> DEFINE t == Head(sleeping)
<1>1. /\ Running(FdT) /\ fdt.pc = "timers" /\ sleeping # <<>> /\ Wake(FdT, <<t>>)
      /\ sleepingcounted' = sleepingcounted - Counted(t)
      /\ taskcount' = taskcount - Returned(t) /\ sleeping' = Tail(sleeping)
      /\ UNCHANGED <<startedfdtask, pollfd, alarmtime, due, fdt>>
  BY DEF TimerWakes, At, Expired
<1>2. /\ startedfdtask /\ FdT \in Task /\ FdT \in live /\ FdT \notin Parked
      /\ ~ended /\ running = FdT
  BY <1>1, FdtFacts
<1>3. sleeping \in Seq(Client) /\ IsInjective(sleeping)
  BY DEF Typed, WaitersInv
<1>4. /\ t \in Sleepers /\ Tail(sleeping) \in Seq(Client) /\ IsInjective(Tail(sleeping))
      /\ Range(Tail(sleeping)) = Sleepers \ {t}
  <2> HIDE DEF IInv
  <2> QED BY <1>1, <1>3, PopQueue DEF Sleepers
<1>5. /\ sleeping' \in Seq(Client) /\ IsInjective(sleeping') /\ Sleepers' = Sleepers \ {t}
  BY <1>1, <1>4 DEF Sleepers
<1>6. Sorted'
  <2>1. /\ Len(sleeping) \in Nat /\ DOMAIN sleeping = 1..Len(sleeping)
        /\ DOMAIN sleeping' = 1..(Len(sleeping) - 1)
        /\ \A k \in 1..(Len(sleeping) - 1) : sleeping'[k] = sleeping[k + 1]
    <3> HIDE DEF IInv
    <3> QED BY <1>1, <1>3
  <2>2. SUFFICES ASSUME NEW j \in DOMAIN sleeping', NEW k \in DOMAIN sleeping', j < k
                 PROVE  alarmtime'[sleeping'[j]] <= alarmtime'[sleeping'[k]]
    BY DEF Sorted
  <2>3. /\ sleeping'[j] = sleeping[j + 1] /\ sleeping'[k] = sleeping[k + 1]
        /\ j + 1 \in DOMAIN sleeping /\ k + 1 \in DOMAIN sleeping /\ j + 1 < k + 1
    <3> HIDE DEF IInv
    <3> QED BY <2>1, <2>2
  <2> QED BY <1>1, <2>3 DEF WaitersInv, Sorted
<1>7. t \in Parked /\ t \in live /\ t \notin Range(PollTasks)
  BY <1>4, ParkedFacts DEF WaitersInv
<1> HIDE DEF t
<1>8. /\ CoopOK' /\ Parked' = Parked \ {t} /\ live' = live /\ running' = running
      /\ ~ended' /\ CoopNext
  BY <1>1, <1>2, <1>7, MayWakeOne, WakeEffect
<1>9. system' = system
  BY <1>1 DEF Wake
<1>10. PollTasks' = PollTasks
  BY <1>1 DEF PollTasks
<1>11. WaitersInv'
  <2>1. /\ IsInjective(PollTasks) /\ Len(pollfd) <= MaxFd
        /\ Sleepers \cap Range(PollTasks) = {}
        /\ Sleepers \cup Range(PollTasks) \subseteq Parked
    BY DEF WaitersInv
  <2>2. Sleepers' \cap Range(PollTasks) = {}
        /\ Sleepers' \cup Range(PollTasks) \subseteq Parked'
    BY <1>5, <1>7, <1>8, <2>1
  <2> HIDE DEF IInv
  <2> QED BY <1>1, <1>5, <1>6, <1>10, <2>1, <2>2 DEF WaitersInv
<1>12. CountInv' /\ sleepingcounted' \in Nat /\ taskcount' \in Nat
  <2> DEFINE S == Sleepers \ system
             n == Cardinality(Users)
  <2>1. IsFiniteSet(S)
    <3>1. S \subseteq Task
      BY ParkedFacts DEF WaitersInv
    <3> QED BY <3>1, CoopAssumption, FS_Subset
  <2>2. n \in Nat
    BY CoopAssumption, FS_Subset, FS_CardinalityType DEF Users, CoopOK
  <2>3. sleepingcounted = Cardinality(S)
        /\ taskcount = n + (IF sleepingcounted > 0 THEN 1 ELSE 0)
    BY DEF CountInv
  <2>4. Sleepers' \ system' = S \ {t} /\ Users' = Users
    BY <1>5, <1>8, <1>9 DEF Users
  <2>5. t \in S <=> t \notin system
    BY <1>4
  <2> HIDE DEF IInv, S, n
  <2>6. Cardinality(S) \in Nat /\ Cardinality(S \ {t}) \in Nat
        /\ (t \in S => Cardinality(S \ {t}) = Cardinality(S) - 1)
        /\ (t \notin S => S \ {t} = S)
    BY <2>1, CountOne, FS_CardinalityType
  <2>7. Counted(t) = IF t \in S THEN 1 ELSE 0
    BY <2>5 DEF Counted
  <2>8. Cardinality(S \ {t}) = Cardinality(S) - Counted(t)
    <3>1. CASE t \in S
      BY <2>6, <2>7, <3>1
    <3>2. CASE t \notin S
      <4>1. Cardinality(S \ {t}) = Cardinality(S) /\ Counted(t) = 0
        BY <2>6, <2>7, <3>2
      <4> QED BY <2>6, <4>1
    <3> QED BY <3>1, <3>2
  <2>9. Returned(t) = IF Cardinality(S) = 1 THEN Counted(t) ELSE 0
    BY <2>3 DEF Returned
  <2>10. sleepingcounted' = Cardinality(S \ {t})
    BY <1>1, <2>3, <2>8
  <2>11. taskcount' = n + (IF sleepingcounted' > 0 THEN 1 ELSE 0)
    <3>1. CASE t \in S
      <4>1. Counted(t) = 1 /\ sleepingcounted' = Cardinality(S) - 1 /\ Cardinality(S) >= 1
        BY <2>6, <2>7, <2>8, <2>10, <3>1
      <4> QED BY <1>1, <2>2, <2>3, <2>6, <2>9, <4>1
    <3>2. CASE t \notin S
      <4>1. Counted(t) = 0 /\ sleepingcounted' = Cardinality(S) /\ Returned(t) = 0
        BY <2>6, <2>7, <2>9, <2>10, <3>2
      <4> QED BY <1>1, <2>2, <2>3, <2>6, <4>1
    <3> QED BY <3>1, <3>2
  <2>12. taskcount' \in Nat
    BY <2>2, <2>11
  <2> QED BY <2>4, <2>6, <2>10, <2>11, <2>12 DEF CountInv, n
<1>13. AloneInv' /\ FdtInv' /\ EndInv'
  BY <1>1, <1>2, <1>8, <1>9 DEF AloneInv, FdtInv, EndInv
<1>14. Typed'
  BY <1>1, <1>5, <1>12 DEF Typed
<1> QED BY <1>8, <1>11, <1>12, <1>13, <1>14

-----------------------------------------------------------------------------
(* The extra count is gone when there is no non-system task left.          *)
LEMMA CountZero ==
  ASSUME IInv
  PROVE  taskcount = 0 <=> Users = {}
<1> DEFINE S == Sleepers \ system
<1>1. IsFiniteSet(Users) /\ S \subseteq Users
  BY ParkedFacts, CoopAssumption, FS_Subset DEF IInv, Users, CoopOK, WaitersInv
<1>2. sleepingcounted = Cardinality(S)
      /\ taskcount = Cardinality(Users) + (IF sleepingcounted > 0 THEN 1 ELSE 0)
  BY DEF IInv, CountInv
<1> HIDE DEF S
<1>3. Cardinality(Users) \in Nat /\ (Cardinality(Users) = 0 <=> Users = {})
  BY <1>1, FS_CardinalityType, FS_EmptySet
<1>4. Users = {} => Cardinality(S) = 0
  BY <1>1, FS_EmptySet
<1>5. CASE Users = {}
  BY <1>2, <1>3, <1>4, <1>5
<1>6. CASE Users # {}
  <2>1. Cardinality(Users) \in Nat \ {0}
    BY <1>3, <1>6
  <2> QED BY <1>2, <1>6, <2>1
<1> QED BY <1>5, <1>6

(* The scheduler switches to a task, or ends the program.                  *)
LEMMA SchedulerKeeps ==
  ASSUME IInv, Scheduler
  PROVE  IInv' /\ CoopNext
<1> USE DEF IInv
<1>1. /\ ~ended /\ running = NoTask
      /\ UNCHANGED <<live, system, clock, able, startedfdtask, pollfd, sleeping, alarmtime,
                     sleepingcounted, due, taskcount>>
  BY DEF Scheduler, fdVars, timeVars
<1>2. FdT \in Task /\ FdT # NoTask
  BY CoopAssumption, FdTaskAssumption
<1>3. /\ runqueue \in Seq(Task) /\ IsInjective(runqueue) /\ fdt \in FdRec
      /\ fdt.pc \notin {"poll", "scan", "timers"}
  BY <1>1, <1>2 DEF CoopOK, Typed, FdRec, FdtInv
<1>4. PollTasks' = PollTasks /\ Pollers' = Pollers
  BY <1>1 DEF PollTasks, Pollers
<1>5. CASE taskcount # 0 /\ runqueue # <<>>
  <2> DEFINE o == fdt.pc = "yielded" /\ (fdt.otherran \/ Head(runqueue) # FdT)
  <2>1. /\ running' = Head(runqueue) /\ runqueue' = Tail(runqueue) /\ ended' = ended
        /\ fdt' = [fdt EXCEPT !.otherran = o]
    BY <1>5 DEF Scheduler
  <2>2. Dispatch
    BY <1>1, <1>5, <2>1, CountZero DEF Dispatch
  <2>3. /\ CoopOK' /\ Parked' = Parked /\ live' = live /\ ~ended' /\ CoopNext
    BY <2>2, DispatchEffect
  <2>4. o \in BOOLEAN
    OBVIOUS
  <2> HIDE DEF o
  <2>5. fdt' \in FdRec /\ fdt'.pc = fdt.pc /\ fdt'.i = fdt.i /\ fdt'.otherran = o
    <3> HIDE DEF IInv
    <3> QED BY <1>3, <2>1, <2>4 DEF FdRec
  <2>6. WaitersInv' /\ Sleepers' = Sleepers
    BY <1>1, <1>4, <2>3, WaitersFrame DEF WaitersInv
  <2>7. CountInv'
    BY <1>1, <2>3, <2>6, CountFrame
  <2>8. Typed'
    BY <1>1, <2>5 DEF Typed, FdRec
  <2>9. FdtInv' /\ EndInv'
    BY <1>1, <1>3, <2>3, <2>5 DEF FdtInv, EndInv
  <2>10. AloneInv'
    <3>1. SUFFICES ASSUME fdt'.pc = "yielded", ~fdt'.otherran
                   PROVE  running' = FdT /\ runqueue' = <<>>
      BY <1>3, <2>5 DEF AloneInv
    <3>2. fdt.pc = "yielded" /\ ~fdt.otherran /\ Head(runqueue) = FdT
      BY <2>5, <3>1 DEF o
    <3>3. runqueue[Len(runqueue)] = FdT
      BY <1>1, <1>2, <3>2 DEF AloneInv
    <3> HIDE DEF IInv
    <3>4. runqueue[1] = FdT /\ Len(runqueue) \in Nat /\ Len(runqueue) >= 1
          /\ DOMAIN runqueue = 1..Len(runqueue)
      BY <1>3, <1>5, <3>2
    <3>5. 1 \in DOMAIN runqueue /\ Len(runqueue) \in DOMAIN runqueue
      BY <3>4
    <3>6. Len(runqueue) = 1
      BY <1>3, <3>3, <3>4, <3>5 DEF IsInjective
    <3>7. Tail(runqueue) = <<>>
      BY <1>3, <3>6
    <3> QED BY <2>1, <3>2, <3>7
  <2> QED BY <2>3, <2>6, <2>7, <2>8, <2>9, <2>10
<1>6. CASE ~(taskcount # 0 /\ runqueue # <<>>)
  <2>1. ended' = TRUE /\ UNCHANGED <<running, runqueue, fdt>>
    BY <1>6 DEF Scheduler
  <2>2. Users = {} \/ runqueue = <<>>
    BY <1>6, CountZero
  <2>3. End
    BY <1>1, <2>1, <2>2 DEF End
  <2>4. CoopOK' /\ Parked' = Parked /\ CoopNext
    BY <2>3, EndEffect
  <2>5. WaitersInv' /\ Sleepers' = Sleepers
    BY <1>1, <1>4, <2>4, WaitersFrame DEF WaitersInv
  <2>6. CountInv'
    BY <1>1, <2>5, CountFrame
  <2>7. Typed' /\ FdtInv' /\ AloneInv'
    BY <1>1, <2>1, <2>4 DEF Typed, FdtInv, AloneInv
  <2>8. EndInv'
    <3>1. Users' = Users
      BY <1>1 DEF Users
    <3>2. CASE Users = {}
      BY <1>1, <3>1, <3>2 DEF EndInv
    <3>3. CASE runqueue = <<>>
      <4>1. ~startedfdtask
        <5>1. Range(runqueue) = {}
          BY <1>3, <3>3, EmptyQueue
        <5> QED BY <1>1, <1>2, <5>1 DEF FdtInv, Parked
      <4>2. pollfd = <<>> /\ sleeping = <<>>
        BY <4>1 DEF FdtInv
      <4>3. Pollers = {} /\ Sleepers = {}
        BY <4>2 DEF Pollers, Sleepers, Range
      <4> QED BY <1>1, <1>4, <2>5, <4>1, <4>3 DEF EndInv
    <3> QED BY <2>2, <3>2, <3>3
  <2> QED BY <2>4, <2>5, <2>6, <2>7, <2>8
<1> QED BY <1>5, <1>6

(* Time goes on.                                                           *)
LEMMA TickKeeps ==
  ASSUME IInv, Tick
  PROVE  IInv' /\ UNCHANGED coopVars
<1>1. /\ clock < Horizon /\ clock' = clock + 1 /\ fdt' = [fdt EXCEPT !.left = Down(fdt.left)]
      /\ due' = [t \in Task |-> Down(due[t])] /\ UNCHANGED coopVars
      /\ UNCHANGED <<startedfdtask, pollfd, sleeping, alarmtime, sleepingcounted, taskcount, able>>
  BY DEF Tick
<1>2. /\ clock \in 0..Horizon /\ due \in [Task -> Nat] /\ able \subseteq Fd \X Mode
      /\ fdt \in FdRec
  BY DEF IInv, Typed, FdRec
<1>3. clock' \in 0..Horizon
  BY <1>1, <1>2, FdTaskAssumption
<1>4. ASSUME NEW n \in Nat PROVE Down(n) \in Nat
  BY DEF Down
<1>5. due' \in [Task -> Nat]
  BY <1>1, <1>2, <1>4
<1>6. Down(fdt.left) \in Nat \cup {Forever}
  <2>1. fdt.left \in Nat \cup {Forever}
    BY <1>2 DEF FdRec
  <2> QED BY <2>1 DEF Down, Forever
<1>7. fdt' \in FdRec /\ fdt'.pc = fdt.pc /\ fdt'.i = fdt.i /\ fdt'.otherran = fdt.otherran
  BY <1>1, <1>2, <1>6 DEF FdRec
<1>8. AloneInv /\ FdtInv /\ UNCHANGED <<live, system, runqueue, running, ended>> /\ Parked' = Parked
  BY <1>1, IdleEffect DEF IInv, coopVars
<1>9. AloneInv' /\ FdtInv'
  BY <1>1, <1>7, <1>8 DEF AloneInv, FdtInv
<1> QED BY <1>1, <1>2, <1>3, <1>5, <1>7, <1>9, Frame DEF FdRec

(* The wall clock is set, or a descriptor becomes ready.                   *)
LEMMA WorldKeeps ==
  ASSUME IInv, World
  PROVE  IInv' /\ UNCHANGED coopVars
<1>1. /\ UNCHANGED coopVars /\ fdt' = fdt
      /\ UNCHANGED <<startedfdtask, pollfd, sleeping, alarmtime, sleepingcounted, due, taskcount>>
  BY DEF World, fdVars, timeVars
<1>2. /\ clock \in 0..Horizon /\ due \in [Task -> Nat] /\ able \subseteq Fd \X Mode
      /\ fdt \in FdRec
  BY DEF IInv, Typed, FdRec
<1>3. clock' \in 0..Horizon /\ able' \subseteq Fd \X Mode
  BY <1>2 DEF World
<1>4. AloneInv /\ FdtInv /\ UNCHANGED <<live, system, runqueue, running, ended>> /\ Parked' = Parked
  BY <1>1, IdleEffect DEF IInv, coopVars
<1>5. AloneInv' /\ FdtInv'
  BY <1>1, <1>4 DEF AloneInv, FdtInv
<1> QED BY <1>1, <1>2, <1>3, <1>5, Frame DEF FdRec

(* A step in which nothing changes.                                        *)
LEMMA NothingKeeps ==
  ASSUME IInv, UNCHANGED vars
  PROVE  IInv' /\ UNCHANGED coopVars
<1>1. /\ UNCHANGED coopVars /\ UNCHANGED <<fdt, clock, able>>
      /\ UNCHANGED <<startedfdtask, pollfd, sleeping, alarmtime, sleepingcounted, due, taskcount>>
  BY DEF vars, fdVars, timeVars
<1>2. /\ clock \in 0..Horizon /\ due \in [Task -> Nat] /\ able \subseteq Fd \X Mode
      /\ fdt \in FdRec
  BY DEF IInv, Typed, FdRec
<1>3. AloneInv /\ FdtInv /\ UNCHANGED <<live, system, runqueue, running, ended>> /\ Parked' = Parked
  BY <1>1, IdleEffect DEF IInv, coopVars
<1>4. AloneInv' /\ FdtInv'
  BY <1>1, <1>3 DEF AloneInv, FdtInv
<1> QED BY <1>1, <1>2, <1>4, Frame DEF FdRec

-----------------------------------------------------------------------------
(* The inductive invariant holds at the start.                             *)
LEMMA InitIInv ==
  ASSUME Init
  PROVE  IInv
<1>1. /\ live = Client /\ system = {} /\ running = NoTask /\ ended = FALSE
      /\ runqueue \in Injection(1..Cardinality(Client), Client)
      /\ startedfdtask = FALSE /\ pollfd = <<>> /\ sleeping = <<>>
      /\ alarmtime = [t \in Task |-> 0] /\ due = [t \in Task |-> 0]
      /\ sleepingcounted = 0 /\ taskcount = Cardinality(Client)
      /\ fdt = [Idling EXCEPT !.pc = "start"] /\ clock = 0 /\ able = {}
  BY DEF Init
<1>2. Client \subseteq Task /\ FdT \notin Client /\ NoTask \notin Client /\ IsFiniteSet(Client)
      /\ Cardinality(Client) \in Nat
  BY CoopAssumption, FS_Subset, FS_CardinalityType DEF Client
<1>3. runqueue \in [1..Cardinality(Client) -> Client] /\ IsInjective(runqueue)
  BY <1>1 DEF Injection, IsInjective
<1>4. runqueue \in Seq(Client) /\ Len(runqueue) = Cardinality(Client)
  BY <1>2, <1>3, FunctionIsQueue
<1>5. Range(runqueue) \subseteq Client
  BY <1>4, RangeOfQueue
<1>6. Cardinality(Range(runqueue)) = Cardinality(Client)
  BY <1>3, <1>4, QueueLength
<1>7. Range(runqueue) = Client
  BY <1>2, <1>5, <1>6, FS_Subset
<1>8. CoopOK /\ Parked = {}
  <2>1. runqueue \in Seq(Task) /\ IsInjective(runqueue) /\ Range(runqueue) = live
    BY <1>1, <1>2, <1>3, <1>4, <1>7
  <2> QED BY <1>1, <1>2, <2>1 DEF CoopOK, Parked
<1>9. fdt \in FdRec /\ fdt.pc = "start" /\ 0 \in 0..Horizon
  <2>1. "start" \in Place
    BY DEF Place
  <2>2. fdt \in FdRec /\ fdt.pc = "start"
    BY <1>1, <2>1, IdlingFacts
  <2> QED BY <2>2, FdTaskAssumption
<1>10. Typed
  <2>1. pollfd \in Seq(Entry) /\ sleeping \in Seq(Client)
    BY <1>1
  <2>2. alarmtime \in [Task -> 0..Horizon] /\ due \in [Task -> Nat]
    BY <1>1, <1>9
  <2> QED BY <1>1, <1>2, <1>9, <2>1, <2>2 DEF Typed, FdRec
<1>11. FdtInv /\ AloneInv /\ EndInv
  BY <1>1, <1>2, <1>9 DEF FdtInv, AloneInv, EndInv
<1>12. Sleepers = {} /\ Range(PollTasks) = {} /\ IsInjective(sleeping) /\ IsInjective(PollTasks)
  BY <1>1 DEF Sleepers, Range, IsInjective, PollTasks
<1>13. WaitersInv
  <2>1. Len(pollfd) <= MaxFd /\ Sorted
    BY <1>1, FdTaskAssumption DEF Sorted
  <2> QED BY <1>12, <2>1 DEF WaitersInv
<1>14. CountInv
  <2>1. Sleepers \ system = {} /\ Users = Client
    BY <1>1, <1>12 DEF Users
  <2>2. Cardinality(Sleepers \ system) = 0
    BY <2>1, FS_EmptySet
  <2> QED BY <1>1, <1>2, <2>1, <2>2 DEF CountInv
<1> QED BY <1>8, <1>10, <1>11, <1>13, <1>14 DEF IInv

(* Every step preserves it, and obeys the contract of the scheduler.       *)
LEMMA NextIInv ==
  ASSUME IInv, [Next]_vars
  PROVE  /\ IInv'
         /\ [\/ CoopNext
             \/ \E t \in Client : StartAndSwitch(t) /\ ~startedfdtask]_coopVars
<1>1. CASE Scheduler
  BY <1>1, SchedulerKeeps
<1>2. CASE FdStep
  <2>1. UNCHANGED <<clock, able>>
    BY <1>2 DEF FdStep
  <2>2. CASE FdStarts \/ FdYields \/ FdPolls \/ PollFails \/ ScanEnds \/ TimersEnd
    BY <2>1, <2>2, FdKeeps
  <2>3. CASE PollReturns
    BY <2>1, <2>3, PollKeeps
  <2>4. CASE Scans
    BY <2>1, <2>4, ScanKeeps
  <2>5. CASE TimerWakes
    BY <2>1, <2>5, TimerKeeps
  <2> QED BY <1>2, <2>2, <2>3, <2>4, <2>5 DEF FdStep
<1>3. ASSUME NEW t \in Client, ClientStep(t)
      PROVE  /\ IInv'
             /\ [\/ CoopNext
                 \/ \E u \in Client : StartAndSwitch(u) /\ ~startedfdtask]_coopVars
  <2>1. StartAndSwitch(t) => CoopNext \/ ~startedfdtask
    BY SwitchEffect
  <2>2. ASSUME NEW ms \in Delay, taskdelay(t, ms) PROVE IInv' /\ StartAndSwitch(t)
    BY <2>2, DelayKeeps DEF taskdelay
  <2>3. ASSUME NEW fd \in Fd, NEW rw \in Mode, fdwait(t, fd, rw)
        PROVE  IInv' /\ StartAndSwitch(t)
    BY <2>3, WaitKeeps DEF fdwait
  <2>4. CASE OtherCall(t) \/ Drains(t)
    BY <2>4, OtherKeeps
  <2>5. CASE Uncounts(t)
    BY <2>5, UncountsKeeps
  <2> QED BY <1>3, <2>1, <2>2, <2>3, <2>4, <2>5 DEF ClientStep
<1>4. CASE Tick \/ World
  BY <1>4, TickKeeps, WorldKeeps
<1>5. CASE UNCHANGED vars
  BY <1>5, NothingKeeps
<1> QED BY <1>1, <1>2, <1>3, <1>4, <1>5 DEF Next

(* The lists, the counts, the place of fdtask and the run queue fit        *)
(* together in every state of fd.c.                                        *)
THEOREM Invariance == Spec => []IInv
<1>1. Init => IInv
  BY InitIInv
<1>2. IInv /\ [Next]_vars => IInv'
  BY NextIInv
<1> QED BY <1>1, <1>2, PTL DEF Spec

(* taskcount is right although taskdelay() counts sleepers together.       *)
THEOREM CountCorrect == Spec => []CountInv
<1>1. IInv => CountInv
  BY DEF IInv
<1> QED BY <1>1, Invariance, PTL

(* Whoever waits in fdwait() or taskdelay() is parked, on one list, once;  *)
(* the sleepers are in the order in which they are to wake.                *)
THEOREM WaitersCorrect == Spec => []WaitInv
<1>1. ASSUME IInv PROVE WaitInv
  <2>1. Typed /\ WaitersInv
    BY <1>1 DEF IInv
  <2>2. TypeOK
    <3>1. fdt \in FdRec
      BY <2>1 DEF Typed, FdRec
    <3>2. /\ fdt.pc \in {"start", "loop", "yielded", "poll", "scan", "timers"}
          /\ fdt.i \in Nat /\ fdt.now \in 0..Horizon /\ fdt.left \in Nat \cup {Forever}
      BY <3>1 DEF FdRec, Place
    <3> QED BY <2>1, <3>2 DEF Typed, TypeOK, Entry
  <2>3. /\ PollTasks \in Seq(Client) /\ Len(PollTasks) = Len(pollfd)
        /\ Range(PollTasks) = Pollers
    BY <2>1, PollTasksAre
  <2>4. Cardinality(Pollers) = Len(pollfd)
    <3>1. Cardinality(Range(PollTasks)) = Len(PollTasks)
      BY <2>1, <2>3, QueueLength DEF WaitersInv
    <3> QED BY <2>3, <3>1
  <2> QED BY <2>1, <2>2, <2>3, <2>4 DEF WaitersInv, WaitInv, Sorted
<1>2. IInv => WaitInv
  BY <1>1
<1> QED BY <1>2, Invariance, PTL

(* The program does not end while a non-system task waits in fd.c, and     *)
(* with fdtask in it only when the non-system tasks are gone.              *)
THEOREM NoEarlyEnd == Spec => []EndInv
<1>1. IInv => EndInv
  BY DEF IInv
<1> QED BY <1>1, Invariance, PTL

(* fd.c uses the scheduler as its contract allows.                         *)
THEOREM FdTaskObeysKernel == Spec => FdKernelSteps
<1>1. IInv /\ [Next]_vars =>
        [\/ CoopNext
         \/ \E t \in Client : StartAndSwitch(t) /\ ~startedfdtask]_coopVars
  BY NextIInv
<1> QED BY <1>1, Invariance, PTL DEF Spec, FdKernelSteps

-----------------------------------------------------------------------------
(* Where no time passes and nobody starts or stops sleeping.               *)
LEMMA DueFrame ==
  ASSUME DueInv, UNCHANGED <<sleeping, alarmtime, due, clock>>,
         fdt'.pc = "timers" => fdt.pc = "timers" /\ fdt'.now = fdt.now,
         fdt'.pc = "poll" => fdt.pc = "poll" /\ fdt'.left = fdt.left
  PROVE  DueInv'
<1>1. Sleepers' = Sleepers
  BY DEF Sleepers
<1> QED BY <1>1 DEF DueInv

(* fdtask, apart from the steps that set a time, and the scheduler.        *)
LEMMA DueQuiet ==
  ASSUME IInv, DueInv,
         \/ Scheduler
         \/ UNCHANGED <<clock, able>> /\ ( \/ FdStarts \/ FdYields \/ PollReturns
                                         \/ PollFails \/ Scans \/ TimersEnd )
  PROVE  DueInv'
<1>1. fdt \in FdRec
  BY DEF IInv, Typed, FdRec
<1>2. CASE Scheduler
  <2>1. UNCHANGED <<sleeping, alarmtime, due, clock>>
    BY <1>2 DEF Scheduler, fdVars, timeVars
  <2>2. fdt'.pc = fdt.pc /\ fdt'.now = fdt.now /\ fdt'.left = fdt.left
    <3> DEFINE o == fdt.pc = "yielded" /\ (fdt.otherran \/ Head(runqueue) # FdT)
    <3>1. fdt' = fdt \/ fdt' = [fdt EXCEPT !.otherran = o]
      BY <1>2 DEF Scheduler
    <3> HIDE DEF o
    <3> QED BY <1>1, <3>1 DEF FdRec
  <2> QED BY <2>1, <2>2, DueFrame
<1>3. CASE FdStarts \/ TimersEnd \/ FdYields \/ PollReturns
  <2>1. UNCHANGED <<sleeping, alarmtime, due, clock>>
    BY <1>2, <1>3 DEF FdStarts, FdYields, PollReturns, TimersEnd, fdVars, timeVars, Scheduler
  <2>2. fdt'.pc \in {"loop", "yielded", "scan"}
    <3>1. \/ fdt' = Idling \/ fdt' = [Idling EXCEPT !.pc = "yielded"]
          \/ fdt' = [Idling EXCEPT !.pc = "scan", !.i = 1]
      BY <1>3 DEF FdStarts, FdYields, PollReturns, TimersEnd
    <3>2. /\ Idling.pc = "loop" /\ [Idling EXCEPT !.pc = "yielded"].pc = "yielded"
          /\ [Idling EXCEPT !.pc = "scan", !.i = 1].pc = "scan"
      BY DEF Idling
    <3> QED BY <3>1, <3>2
  <2> QED BY <2>1, <2>2, DueFrame
<1>4. CASE PollFails
  <2>1. UNCHANGED <<sleeping, alarmtime, due, clock>>
    BY <1>2, <1>4 DEF PollFails, fdVars, timeVars, Scheduler
  <2>2. fdt' = fdt \/ fdt'.pc = "loop"
    BY <1>4 DEF PollFails, Idling
  <2> QED BY <2>1, <2>2, DueFrame
<1>5. CASE Scans
  <2>1. UNCHANGED <<sleeping, alarmtime, due, clock>>
    BY <1>2, <1>5 DEF Scans, timeVars, Scheduler
  <2>2. fdt.pc = "scan"
    BY <1>5 DEF Scans, At
  <2>3. fdt' = [fdt EXCEPT !.i = NextIndex(fdt.i)] \/ fdt' = [fdt EXCEPT !.i = fdt.i + 1]
    BY <1>5 DEF Scans
  <2>4. fdt'.pc = "scan"
    BY <1>1, <2>2, <2>3 DEF FdRec
  <2> QED BY <2>1, <2>4, DueFrame
<1> QED BY <1>2, <1>3, <1>4, <1>5

(* The steps of fdtask that set a time: the end of poll(), the time that   *)
(* the alarms are compared with; and the step that wakes a sleeper.        *)
LEMMA DueTimed ==
  ASSUME IInv, DueInv, FdPolls \/ ScanEnds \/ TimerWakes, UNCHANGED <<clock, able>>
  PROVE  DueInv'
<1> USE DEF DueInv
<1>1. /\ clock \in Nat /\ fdt \in FdRec /\ sleeping \in Seq(Client) /\ Sleepers \subseteq Task
      /\ \A t \in Task : due[t] \in Nat /\ alarmtime[t] \in Nat
  <2>1. Sleepers \subseteq Task
    BY ParkedFacts DEF IInv, WaitersInv
  <2> QED BY <2>1, FdTaskAssumption DEF IInv, Typed, FdRec
<1>2. CASE FdPolls
  <2> DEFINE left == IF Timeout = Forever THEN Forever ELSE Timeout * TickPerMs
  <2>1. fdt' = [Idling EXCEPT !.pc = "poll", !.left = left]
        /\ UNCHANGED <<sleeping, alarmtime, due, clock>>
    BY <1>2 DEF FdPolls, fdVars, timeVars
  <2>2. sleeping # <<>> =>
          /\ left # Forever
          /\ left = 0 \/ clock + left <= alarmtime[Head(sleeping)]
    BY TimeoutFacts
  <2> HIDE DEF left
  <2>3. fdt'.pc = "poll" /\ fdt'.left = left
    BY <2>1 DEF Idling
  <2>4. Sleepers' = Sleepers
    BY <2>1 DEF Sleepers
  <2> QED BY <2>1, <2>2, <2>3, <2>4
<1>3. CASE ScanEnds
  <2>1. fdt' = [Idling EXCEPT !.pc = "timers", !.now = clock]
        /\ UNCHANGED <<sleeping, alarmtime, due, clock>>
    BY <1>3 DEF ScanEnds, fdVars, timeVars
  <2>2. fdt'.pc = "timers" /\ fdt'.now = clock
    BY <2>1 DEF Idling
  <2>3. Sleepers' = Sleepers
    BY <2>1 DEF Sleepers
  <2>4. ASSUME NEW t \in Sleepers, alarmtime[t] <= clock PROVE due[t] = 0
    <3>1. due[t] \in Nat /\ alarmtime[t] \in Nat
      BY <1>1
    <3>2. due[t] = 0 \/ clock + due[t] <= alarmtime[t]
      OBVIOUS
    <3> QED BY <1>1, <2>4, <3>1, <3>2
  <2> QED BY <2>1, <2>2, <2>3, <2>4
<1>4. CASE TimerWakes
  <2> DEFINE t == Head(sleeping)
  <2>1. /\ fdt.pc = "timers" /\ sleeping # <<>> /\ fdt.now >= alarmtime[t]
        /\ sleeping' = Tail(sleeping) /\ UNCHANGED <<alarmtime, due, clock, fdt>>
    BY <1>4 DEF TimerWakes, At, Expired
  <2>2. IsInjective(sleeping)
    BY DEF IInv, WaitersInv
  <2>3. t \in Sleepers /\ Sleepers' = Sleepers \ {t}
    BY <1>1, <2>1, <2>2, PopQueue DEF Sleepers
  <2> HIDE DEF t
  <2>4. due[t] = 0
    <3>1. alarmtime[t] \in Nat /\ fdt.now \in Int /\ alarmtime[t] <= fdt.now
      BY <1>1, <2>1, <2>3, FdTaskAssumption DEF FdRec
    <3> QED BY <2>1, <2>3, <3>1
  <2> QED BY <2>1, <2>3, <2>4
<1> QED BY <1>2, <1>3, <1>4

(* The calls of the clients.                                               *)
LEMMA DueClient ==
  ASSUME IInv, DueInv, NEW t \in Client, ClientStep(t)
  PROVE  DueInv'
<1>1. CASE OtherCall(t) \/ Uncounts(t) \/ Drains(t)
  <2>1. UNCHANGED <<sleeping, alarmtime, due, clock, fdt>>
    BY <1>1 DEF OtherCall, Uncounts, Drains, fdVars, timeVars
  <2> QED BY <2>1, DueFrame
<1>2. ASSUME NEW fd \in Fd, NEW rw \in Mode, fdwait(t, fd, rw) PROVE DueInv'
  <2>1. UNCHANGED <<sleeping, alarmtime, due, clock, fdt>>
    BY <1>2 DEF fdwait, timeVars, StartAndSwitch
  <2> QED BY <2>1, DueFrame
<1>3. ASSUME NEW ms \in Delay, taskdelay(t, ms) PROVE DueInv'
  <2> DEFINE d == ms * TickPerMs
             when == clock + d
  <2>1. /\ when <= Horizon /\ StartAndSwitch(t)
        /\ sleeping' = InsertAt(sleeping, Before(when) + 1, t)
        /\ alarmtime' = [alarmtime EXCEPT ![t] = when]
        /\ due' = [due EXCEPT ![t] = d]
    BY <1>3 DEF taskdelay
  <2>2. Running(t) /\ UNCHANGED <<clock, fdt>>
    BY <2>1 DEF StartAndSwitch
  <2>3. fdt.pc \notin {"poll", "scan", "timers"} /\ t \notin Sleepers /\ t \in Task
    BY <2>2, ClientFacts
  <2>4. clock \in Nat /\ due \in [Task -> Nat] /\ alarmtime \in [Task -> 0..Horizon]
    BY FdTaskAssumption DEF IInv, Typed
  <2>5. d \in Nat
    <3>1. ms \in Nat /\ TickPerMs \in Nat
      BY FdTaskAssumption
    <3> QED BY <3>1
  <2> HIDE DEF d
  <2>6. when \in 0..Horizon
    BY <2>1, <2>4, <2>5, FdTaskAssumption
  <2>7. Sleepers' = Sleepers \cup {t} /\ alarmtime'[t] = when
        /\ \A x \in Sleepers : alarmtime'[x] = alarmtime[x]
    <3> HIDE DEF when
    <3> QED BY <2>1, <2>3, <2>6, DelaySorts
  <2>8. due'[t] = d /\ \A x \in Task : x # t => due'[x] = due[x]
    BY <2>1, <2>3, <2>4
  <2>9. clock' + due'[t] <= alarmtime'[t]
    BY <2>2, <2>4, <2>5, <2>7, <2>8
  <2>10. Sleepers \subseteq Task /\ Client \subseteq Task
    BY ParkedFacts DEF IInv, WaitersInv, Client
  <2> HIDE DEF when
  <2> QED BY <2>2, <2>3, <2>7, <2>8, <2>9, <2>10 DEF DueInv
<1> QED BY <1>1, <1>2, <1>3 DEF ClientStep

(* Time goes on: what is left runs down as the clock runs up.              *)
LEMMA DueTick ==
  ASSUME IInv, DueInv, Tick
  PROVE  DueInv'
<1>1. /\ clock' = clock + 1 /\ fdt' = [fdt EXCEPT !.left = Down(fdt.left)]
      /\ due' = [t \in Task |-> Down(due[t])] /\ UNCHANGED <<sleeping, alarmtime>>
  BY DEF Tick
<1>2. /\ clock \in Nat /\ fdt \in FdRec /\ sleeping \in Seq(Client) /\ Sleepers \subseteq Task
      /\ \A t \in Task : due[t] \in Nat /\ alarmtime[t] \in Nat
  <2>1. Sleepers \subseteq Task
    BY ParkedFacts DEF IInv, WaitersInv
  <2> QED BY <2>1, FdTaskAssumption DEF IInv, Typed, FdRec
<1>3. Sleepers' = Sleepers /\ Client \subseteq Task
  BY <1>1 DEF Sleepers, Client
<1>4. fdt'.pc = fdt.pc /\ fdt'.now = fdt.now /\ fdt'.left = Down(fdt.left)
  BY <1>1, <1>2 DEF FdRec
<1>5. ASSUME NEW a \in Nat, NEW n \in Nat, n = 0 \/ clock + n <= a
      PROVE  Down(n) = 0 \/ clock' + Down(n) <= a
  BY <1>1, <1>2, <1>5 DEF Down
<1>6. Down(0) = 0
  BY DEF Down
<1>7. ASSUME NEW t \in Client \ Sleepers PROVE due'[t] = 0
  <2>1. due[t] = 0 /\ t \in Task
    BY <1>3 DEF DueInv
  <2> QED BY <1>1, <1>6, <2>1
<1>8. ASSUME NEW t \in Sleepers
      PROVE  due'[t] = 0 \/ clock' + due'[t] <= alarmtime[t]
  <2>1. t \in Task /\ due[t] \in Nat /\ alarmtime[t] \in Nat
    BY <1>2
  <2>2. due[t] = 0 \/ clock + due[t] <= alarmtime[t]
    BY DEF DueInv
  <2>3. due'[t] = Down(due[t])
    BY <1>1, <2>1
  <2> QED BY <1>5, <2>1, <2>2, <2>3
<1>9. ASSUME fdt.pc = "timers", NEW t \in Sleepers, alarmtime[t] <= fdt.now PROVE due'[t] = 0
  <2>1. due[t] = 0 /\ t \in Task
    BY <1>2, <1>9 DEF DueInv
  <2> QED BY <1>1, <1>6, <2>1
<1>10. ASSUME fdt.pc = "poll", sleeping # <<>>
       PROVE  /\ fdt'.left # Forever
              /\ fdt'.left = 0 \/ clock' + fdt'.left <= alarmtime[Head(sleeping)]
  <2> DEFINE a == alarmtime[Head(sleeping)]
  <2>1. fdt.left # Forever /\ (fdt.left = 0 \/ clock + fdt.left <= a)
    BY <1>10 DEF DueInv
  <2>2. a \in Nat
    <3>1. Head(sleeping) \in Task
      BY <1>2, <1>10 DEF Client
    <3> QED BY <1>2, <3>1
  <2> HIDE DEF a
  <2>3. fdt.left \in Nat
    BY <1>2, <2>1 DEF FdRec
  <2>4. PICK n \in Nat : n = fdt.left
    BY <2>3
  <2>5. Down(n) \in Nat /\ (Down(n) = 0 \/ clock' + Down(n) <= a)
    <3>1. n = 0 \/ clock + n <= a
      BY <2>1, <2>4
    <3>2. Down(n) \in Nat
      BY DEF Down
    <3> QED BY <1>5, <2>2, <3>1, <3>2
  <2> QED BY <1>4, <2>4, <2>5 DEF Forever, a
<1> QED BY <1>1, <1>3, <1>4, <1>7, <1>8, <1>9, <1>10 DEF DueInv

(* Somebody sets the clock back, or a descriptor becomes ready.            *)
LEMMA DueWorld ==
  ASSUME \A d \in ClockSteps : d <= 0, IInv, DueInv, World
  PROVE  DueInv'
<1>1. UNCHANGED <<sleeping, alarmtime, due, fdt>>
  BY DEF World, fdVars, timeVars
<1>2. Sleepers' = Sleepers
  BY <1>1 DEF Sleepers
<1>3. /\ clock \in Nat /\ fdt \in FdRec /\ sleeping \in Seq(Client) /\ Sleepers \subseteq Task
      /\ \A t \in Task : due[t] \in Nat /\ alarmtime[t] \in Nat
  <2>1. Sleepers \subseteq Task
    BY ParkedFacts DEF IInv, WaitersInv
  <2> QED BY <2>1, FdTaskAssumption DEF IInv, Typed, FdRec
<1>4. clock' \in Int /\ clock' <= clock
  <2>1. ASSUME NEW d \in ClockSteps, clock' = clock + d
        PROVE  clock' \in Int /\ clock' <= clock
    <3>1. d \in Int /\ d <= 0
      BY FdTaskAssumption
    <3> QED BY <1>3, <2>1, <3>1
  <2>2. clock' = clock \/ \E d \in ClockSteps : clock' = clock + d
    BY DEF World
  <2>3. clock' = clock => clock' \in Int /\ clock' <= clock
    BY <1>3
  <2> QED BY <2>1, <2>2, <2>3
<1>5. ASSUME NEW a \in Nat, NEW n \in Nat, clock + n <= a PROVE clock' + n <= a
  <2>1. PICK c \in Int : c = clock'
    BY <1>4
  <2>2. c <= clock /\ clock \in Int
    BY <1>3, <1>4, <2>1
  <2>3. c + n <= a
    BY <1>5, <2>2
  <2> QED BY <2>1, <2>3
<1>6. ASSUME NEW t \in Sleepers PROVE due[t] = 0 \/ clock' + due[t] <= alarmtime[t]
  <2>1. due[t] \in Nat /\ alarmtime[t] \in Nat
    BY <1>3
  <2> QED BY <1>5, <2>1 DEF DueInv
<1>7. ASSUME fdt.pc = "poll", sleeping # <<>>
      PROVE  /\ fdt.left # Forever
             /\ fdt.left = 0 \/ clock' + fdt.left <= alarmtime[Head(sleeping)]
  <2>1. fdt.left # Forever
        /\ (fdt.left = 0 \/ clock + fdt.left <= alarmtime[Head(sleeping)])
    BY <1>7 DEF DueInv
  <2>2. fdt.left \in Nat
    BY <1>3, <2>1 DEF FdRec
  <2>3. alarmtime[Head(sleeping)] \in Nat
    <3>1. Head(sleeping) \in Task
      BY <1>3, <1>7 DEF Client
    <3> QED BY <1>3, <3>1
  <2> QED BY <1>5, <2>1, <2>2, <2>3
<1> QED BY <1>1, <1>2, <1>6, <1>7 DEF DueInv

(* As long as nobody sets the clock forward, a task that sleeps has not    *)
(* been readied before its time, and poll() ends with the first alarm.     *)
LEMMA DueInvariance ==
  ASSUME \A d \in ClockSteps : d <= 0
  PROVE  Spec => []DueInv
<1>1. ASSUME Init PROVE DueInv
  <2>1. sleeping = <<>> /\ due = [t \in Task |-> 0] /\ fdt = [Idling EXCEPT !.pc = "start"]
    BY <1>1 DEF Init
  <2>2. Sleepers = {} /\ fdt.pc = "start"
    BY <2>1 DEF Sleepers, Range, Idling
  <2> QED BY <2>1, <2>2 DEF DueInv, Client
<1>2. ASSUME IInv, DueInv, [Next]_vars PROVE DueInv'
  <2>1. CASE FdStep
    BY <1>2, <2>1, DueQuiet, DueTimed DEF FdStep
  <2>2. CASE UNCHANGED vars
    BY <1>2, <2>2, DueFrame DEF vars, fdVars, timeVars
  <2> QED BY <1>2, <2>1, <2>2, DueQuiet, DueClient, DueTick, DueWorld DEF Next
<1>3. Init => DueInv
  BY <1>1
<1>4. IInv /\ DueInv /\ [Next]_vars => DueInv'
  BY <1>2
<1> QED BY <1>3, <1>4, Invariance, PTL DEF Spec

(* README:48-50: taskdelay(ms) gives up the CPU for at least ms            *)
(* milliseconds, for any delays and any number of sleepers, if the clock   *)
(* is never set forward.                                                   *)
THEOREM SleepsLongEnough ==
  ASSUME \A d \in ClockSteps : d <= 0
  PROVE  Spec => []AtLeast
<1>1. DueInv => AtLeast
  BY DEF DueInv, AtLeast
<1> QED BY <1>1, DueInvariance, PTL

(* fd.c:36-38: poll() is called only when no task is ready, and does not   *)
(* last beyond the first alarm, if the clock is never set forward.         *)
THEOREM PollsOnlyWhenIdle ==
  ASSUME \A d \in ClockSteps : d <= 0
  PROVE  Spec => []PollInv
<1>1. IInv /\ DueInv => PollInv
  BY DEF IInv, AloneInv, DueInv, PollInv, At, Running
<1> QED BY <1>1, Invariance, DueInvariance, PTL

-----------------------------------------------------------------------------
(* Before the refinement of FdWait: only entries that the scan has still   *)
(* to look at are reported.                                                *)
RevInv ==
  \A k \in DOMAIN pollfd : pollfd[k].revents => fdt.pc = "scan" /\ k >= fdt.i

LEMMA RevFrame ==
  ASSUME RevInv, pollfd' = pollfd,
         fdt.pc = "scan" => fdt'.pc = "scan" /\ fdt'.i = fdt.i
  PROVE  RevInv'
BY DEF RevInv

LEMMA RevKeeps ==
  ASSUME IInv, RevInv, [Next]_vars
  PROVE  RevInv'
<1>1. /\ fdt \in FdRec /\ pollfd \in Seq(Entry) /\ Len(pollfd) \in Nat
      /\ DOMAIN pollfd = 1..Len(pollfd)
  BY DEF IInv, Typed, FdRec
<1>2. CASE Scheduler
  <2> DEFINE o == fdt.pc = "yielded" /\ (fdt.otherran \/ Head(runqueue) # FdT)
  <2>1. pollfd' = pollfd /\ (fdt' = fdt \/ fdt' = [fdt EXCEPT !.otherran = o])
    BY <1>2 DEF Scheduler, fdVars
  <2> HIDE DEF o
  <2>2. fdt'.pc = fdt.pc /\ fdt'.i = fdt.i
    BY <1>1, <2>1 DEF FdRec
  <2> QED BY <2>1, <2>2, RevFrame
<1>3. CASE Tick
  <2>1. pollfd' = pollfd /\ fdt' = [fdt EXCEPT !.left = Down(fdt.left)]
    BY <1>3 DEF Tick
  <2>2. fdt'.pc = fdt.pc /\ fdt'.i = fdt.i
    BY <1>1, <2>1 DEF FdRec
  <2> QED BY <2>1, <2>2, RevFrame
<1>4. CASE World \/ UNCHANGED vars
  <2>1. pollfd' = pollfd /\ fdt' = fdt
    BY <1>4 DEF World, vars, fdVars
  <2> QED BY <2>1, RevFrame
<1>5. ASSUME NEW t \in Client, ClientStep(t) PROVE RevInv'
  <2>1. ASSUME NEW fd \in Fd, NEW rw \in Mode, fdwait(t, fd, rw) PROVE RevInv'
    <3> DEFINE e == [task |-> t, fd |-> fd, events |-> rw, revents |-> FALSE]
    <3>1. pollfd' = Append(pollfd, e) /\ fdt' = fdt
      BY <2>1 DEF fdwait, StartAndSwitch
    <3>2. ~e.revents
      OBVIOUS
    <3> HIDE DEF e
    <3>3. /\ DOMAIN pollfd' = 1..(Len(pollfd) + 1) /\ pollfd'[Len(pollfd) + 1] = e
          /\ \A k \in 1..Len(pollfd) : pollfd'[k] = pollfd[k]
      BY <1>1, <3>1
    <3> QED BY <1>1, <3>1, <3>2, <3>3 DEF RevInv
  <2>2. CASE (\E ms \in Delay : taskdelay(t, ms)) \/ OtherCall(t) \/ Uncounts(t) \/ Drains(t)
    <3>1. pollfd' = pollfd /\ fdt' = fdt
      BY <2>2 DEF taskdelay, StartAndSwitch, OtherCall, Uncounts, Drains, fdVars
    <3> QED BY <3>1, RevFrame
  <2> QED BY <1>5, <2>1, <2>2 DEF ClientStep
<1>6. CASE FdStep
  <2>1. CASE FdStarts \/ FdYields \/ FdPolls \/ PollFails \/ TimerWakes \/ TimersEnd
    <3>1. pollfd' = pollfd /\ fdt.pc # "scan"
      BY <2>1 DEF FdStarts, FdYields, MustYield, FdPolls, PollFails, TimerWakes, TimersEnd, At,
                  fdVars
    <3> QED BY <3>1, RevFrame
  <2>2. CASE ScanEnds
    <3>1. pollfd' = pollfd /\ fdt.i > Len(pollfd)
      BY <2>2 DEF ScanEnds, fdVars
    <3>2. fdt.i \in Nat
      BY <1>1 DEF FdRec
    <3> QED BY <1>1, <3>1, <3>2 DEF RevInv
  <2>3. CASE PollReturns
    <3>1. fdt' = [Idling EXCEPT !.pc = "scan", !.i = 1]
          /\ DOMAIN pollfd' = DOMAIN pollfd
      BY <2>3 DEF PollReturns
    <3>2. fdt'.pc = "scan" /\ fdt'.i = 1
      BY <3>1 DEF Idling
    <3> QED BY <1>1, <3>1, <3>2 DEF RevInv
  <2>4. CASE Scans
    <3> DEFINE i == fdt.i
    <3>1. fdt.pc = "scan" /\ i \in Nat /\ i <= Len(pollfd)
      BY <1>1, <2>4 DEF Scans, At, FdRec
    <3>2. CASE pollfd[i].revents
      <4>1. pollfd' = Removed(i) /\ fdt' = [fdt EXCEPT !.i = i]
        BY <2>4, <3>2 DEF Scans, NextIndex
      <4>2. fdt'.pc = "scan" /\ fdt'.i = i
        BY <1>1, <3>1, <4>1 DEF FdRec
      <4>3. /\ DOMAIN pollfd' = 1..(Len(pollfd) - 1)
            /\ \A k \in 1..(Len(pollfd) - 1) : k # i => pollfd'[k] = pollfd[k]
        BY <4>1 DEF Removed
      <4> HIDE DEF i
      <4>4. ASSUME NEW k \in DOMAIN pollfd', pollfd'[k].revents PROVE k >= i
        <5>1. k \in DOMAIN pollfd /\ k \in Nat
          BY <1>1, <4>3
        <5>2. CASE k = i
          BY <3>1, <5>2
        <5>3. CASE k # i
          <6>1. pollfd'[k] = pollfd[k]
            BY <4>3, <5>3
          <6> QED BY <4>4, <5>1, <6>1 DEF RevInv, i
        <5> QED BY <5>2, <5>3
      <4> QED BY <4>2, <4>4 DEF RevInv
    <3>3. CASE ~pollfd[i].revents
      <4>1. pollfd' = pollfd /\ fdt' = [fdt EXCEPT !.i = i + 1]
        BY <2>4, <3>3 DEF Scans
      <4>2. fdt'.pc = "scan" /\ fdt'.i = i + 1
        BY <1>1, <3>1, <4>1 DEF FdRec
      <4>3. ASSUME NEW k \in DOMAIN pollfd, pollfd[k].revents PROVE k >= i + 1
        <5>1. k >= i /\ k # i /\ k \in Nat
          BY <1>1, <3>3, <4>3 DEF RevInv
        <5> HIDE DEF i
        <5> QED BY <3>1, <5>1
      <4> QED BY <4>1, <4>2, <4>3 DEF RevInv
    <3> QED BY <3>2, <3>3
  <2> QED BY <1>6, <2>1, <2>2, <2>3, <2>4 DEF FdStep
<1> QED BY <1>2, <1>3, <1>4, <1>5, <1>6 DEF Next

(* What each waiting task waits for, where no task has two entries.        *)
LEMMA WaitingIs ==
  ASSUME NEW fds \in Seq(Entry),
         \A j, k \in DOMAIN fds : fds[j].task = fds[k].task => j = k
  PROVE  /\ \A k \in DOMAIN fds : ~fds[k].revents =>
                Waiting(fds)[fds[k].task] = <<fds[k].fd, fds[k].events>>
         /\ \A t \in Client :
              (\A k \in DOMAIN fds : fds[k].task = t => fds[k].revents) =>
                Waiting(fds)[t] = NoTask
<1>1. \A k \in DOMAIN fds : fds[k] \in Entry
  OBVIOUS
<1>2. ASSUME NEW k \in DOMAIN fds, ~fds[k].revents
      PROVE  Waiting(fds)[fds[k].task] = <<fds[k].fd, fds[k].events>>
  <2> DEFINE t == fds[k].task
             m == CHOOSE j \in DOMAIN fds : Waits(fds, t, j)
  <2>1. t \in Client /\ Waits(fds, t, k)
    BY <1>1, <1>2 DEF Entry, Waits
  <2>2. m \in DOMAIN fds /\ Waits(fds, t, m)
    BY <2>1
  <2>3. m = k
    BY <2>2 DEF Waits
  <2>4. Waiting(fds)[t] = <<fds[m].fd, fds[m].events>>
    <3> HIDE DEF t
    <3> QED BY <2>1 DEF Waiting
  <2> QED BY <2>3, <2>4
<1>3. ASSUME NEW t \in Client, \A k \in DOMAIN fds : fds[k].task = t => fds[k].revents
      PROVE  Waiting(fds)[t] = NoTask
  BY <1>3 DEF Waiting, Waits
<1> QED BY <1>2, <1>3

(* The poll array seen that way, now and after a step.                     *)
LEMMA DistinctTasks ==
  ASSUME NEW fds \in Seq(Entry), IsInjective([k \in 1..Len(fds) |-> fds[k].task])
  PROVE  \A j, k \in DOMAIN fds : fds[j].task = fds[k].task => j = k
<1>1. Len(fds) \in Nat /\ DOMAIN fds = 1..Len(fds)
  OBVIOUS
<1> QED BY <1>1 DEF IsInjective

(* What the contract sees in a state.                                      *)
LEMMA SeenFacts ==
  ASSUME IInv
  PROVE  /\ \A j, k \in DOMAIN pollfd : pollfd[j].task = pollfd[k].task => j = k
         /\ pollfd \in Seq(Entry) /\ Woken(pollfd) \subseteq Pollers
         /\ Pollers = Range(PollTasks) /\ Pollers \subseteq Parked
         /\ \A t \in Client : t \notin Pollers => seenWaiting[t] = NoTask
<1>1. pollfd \in Seq(Entry) /\ IsInjective(PollTasks) /\ Range(PollTasks) \subseteq Parked
  BY DEF IInv, Typed, WaitersInv
<1>2. \A j, k \in DOMAIN pollfd : pollfd[j].task = pollfd[k].task => j = k
  BY <1>1, DistinctTasks DEF PollTasks
<1>3. Pollers = Range(PollTasks)
  BY PollTasksAre DEF IInv
<1>4. \A t \in Client : t \notin Pollers => seenWaiting[t] = NoTask
  BY <1>1, <1>2, WaitingIs DEF seenWaiting, Pollers
<1> QED BY <1>1, <1>2, <1>3, <1>4 DEF Woken, Pollers

(* Where the contract sees nothing.                                        *)
LEMMA Unseen ==
  ASSUME pollfd' = pollfd, Range(runqueue') \ {FdT} = Range(runqueue) \ {FdT},
         seenRunning' = seenRunning
  PROVE  UNCHANGED Contract!waitVars
BY DEF Contract!waitVars, seenReady, seenWaiting

(* The scheduler dispatches a task.                                        *)
LEMMA SchedulerSeen ==
  ASSUME IInv, Scheduler
  PROVE  [Contract!WaitNext]_(Contract!waitVars)
<1>1. running = NoTask /\ pollfd' = pollfd
  BY DEF Scheduler, fdVars
<1>2. FdT # NoTask /\ runqueue \in Seq(Task) /\ IsInjective(runqueue)
  BY CoopAssumption, FdTaskAssumption DEF IInv, CoopOK
<1>3. CASE ~(taskcount # 0 /\ runqueue # <<>>)
  <2>1. UNCHANGED <<running, runqueue>>
    BY <1>3 DEF Scheduler
  <2> QED BY <1>1, <2>1, Unseen DEF seenRunning
<1>4. CASE taskcount # 0 /\ runqueue # <<>>
  <2> DEFINE h == Head(runqueue)
  <2>1. running' = h /\ runqueue' = Tail(runqueue)
    BY <1>4 DEF Scheduler
  <2>2. h \in Range(runqueue) /\ Range(runqueue') = Range(runqueue) \ {h} /\ h \in Task
    BY <1>2, <1>4, <2>1, PopQueue, RangeOfQueue
  <2> HIDE DEF h
  <2>3. CASE h = FdT
    <3>1. seenRunning' = seenRunning
      BY <1>1, <1>2, <2>1, <2>3 DEF seenRunning
    <3> QED BY <1>1, <2>2, <2>3, <3>1, Unseen
  <2>4. CASE h # FdT
    <3>1. h \in Client /\ seenRunning = NoTask /\ seenRunning' = h
      BY <1>1, <1>2, <2>1, <2>2, <2>4 DEF seenRunning, Client
    <3>2. h \notin Woken(pollfd)
      BY <2>2, SeenFacts, ParkedFacts DEF IInv
    <3>3. h \in seenReady /\ seenReady' = seenReady \ {h}
      BY <1>1, <2>2, <2>4, <3>2 DEF seenReady
    <3>4. seenWaiting' = seenWaiting
      BY <1>1 DEF seenWaiting
    <3>5. Contract!Dispatch(h)
      BY <3>1, <3>3, <3>4 DEF Contract!Dispatch
    <3> QED BY <3>1, <3>5 DEF Contract!WaitNext
  <2> QED BY <2>3, <2>4
<1> QED BY <1>3, <1>4

(* The calls of the clients that have nothing to do with descriptors.      *)
LEMMA ClientSeen ==
  ASSUME IInv, NEW t \in Client, OtherCall(t) \/ Uncounts(t) \/ Drains(t)
  PROVE  [Contract!WaitNext]_(Contract!waitVars)
<1>1. pollfd' = pollfd /\ seenWaiting' = seenWaiting
  BY DEF OtherCall, Uncounts, Drains, fdVars, seenWaiting
<1>2. Running(t)
  BY DEF OtherCall, Uncounts, Drains, ExitAll, Yield, Block, Wake, SetSystem, Exit
<1>3. /\ t \in Task /\ t # FdT /\ t # NoTask /\ running = t /\ seenRunning = t
      /\ FdT # NoTask /\ runqueue \in Seq(Task) /\ t \notin Range(runqueue) /\ IsInjective(runqueue)
  BY <1>2, ClientFacts, CoopAssumption, FdTaskAssumption DEF IInv, CoopOK, seenRunning
<1>4. CASE Drains(t) \/ ExitAll(t) \/ SetSystem(t)
  <2>1. UNCHANGED <<running, runqueue>>
    BY <1>4 DEF Drains, ExitAll, SetSystem, coopVars
  <2> QED BY <1>1, <2>1, Unseen DEF seenRunning
<1>5. CASE Yield(t)
  <2>1. running' = NoTask /\ runqueue' = Append(runqueue, t)
    BY <1>5 DEF Yield
  <2>2. Range(runqueue') = Range(runqueue) \cup {t}
    BY <1>3, <2>1, AppendToQueue
  <2>3. seenRunning' = NoTask /\ seenReady' = seenReady \cup {t}
    BY <1>1, <1>3, <2>1, <2>2 DEF seenRunning, seenReady
  <2>4. Contract!Yield(t)
    BY <1>1, <1>3, <2>3 DEF Contract!Yield
  <2> QED BY <2>4 DEF Contract!WaitNext
<1>6. CASE Block(t, <<>>) \/ Exit(t)
  <2>1. running' = NoTask /\ runqueue' = runqueue
    <3>1. runqueue \o <<>> = runqueue
      BY <1>3, ConcatEmptySeq
    <3> QED BY <1>6, <3>1 DEF Block, Exit
  <2>2. seenRunning' = NoTask /\ seenReady' = seenReady
    BY <1>1, <1>3, <2>1 DEF seenRunning, seenReady
  <2>3. Contract!Leave(t)
    BY <1>1, <1>3, <2>2 DEF Contract!Leave
  <2> QED BY <2>3 DEF Contract!WaitNext
<1>7. ASSUME NEW u \in Elsewhere, Wake(t, <<u>>)
      PROVE  [Contract!WaitNext]_(Contract!waitVars)
  <2>1. u \in Parked /\ u \notin Pollers
    BY DEF Elsewhere
  <2>2. u \in Task /\ u # FdT /\ u # t /\ u \notin Range(runqueue)
    <3>1. Parked \subseteq Task /\ FdT \notin Parked /\ running \notin Parked
          /\ Parked \cap Range(runqueue) = {}
      BY ParkedFacts DEF IInv, FdtInv, Parked, CoopOK
    <3> QED BY <1>3, <2>1, <3>1
  <2>3. u \in Client /\ seenWaiting[u] = NoTask /\ u \notin Woken(pollfd)
    BY <2>1, <2>2, SeenFacts DEF Client
  <2>4. running' = t /\ Range(runqueue') = Range(runqueue) \cup {u}
    <3>1. running' = running /\ runqueue' = runqueue \o <<u>>
      BY <1>7 DEF Wake
    <3> DEFINE e == <<u>>
    <3>2. Range(e) = {u} /\ e \in Seq(Task)
      BY <2>2, QueueOfOne
    <3> HIDE DEF e
    <3>3. Range(runqueue \o e) = Range(runqueue) \cup Range(e)
      BY <1>3, <3>2, RangeConcatenation
    <3> QED BY <1>3, <3>1, <3>2, <3>3 DEF e
  <2>5. seenRunning' = seenRunning /\ seenReady' = seenReady \cup {u} /\ u \notin seenReady
    BY <1>1, <1>3, <2>2, <2>3, <2>4 DEF seenRunning, seenReady
  <2>6. Contract!Join(u)
    BY <1>1, <1>3, <2>2, <2>3, <2>5 DEF Contract!Join
  <2> QED BY <2>3, <2>6 DEF Contract!WaitNext
<1> QED BY <1>4, <1>5, <1>6, <1>7 DEF OtherCall, Uncounts

(* taskdelay() and fdwait(): the run queue of the tasks stays as it is.    *)
LEMMA SwitchSeen ==
  ASSUME IInv, NEW t \in Client, StartAndSwitch(t)
  PROVE  /\ seenRunning = t /\ seenRunning' = NoTask
         /\ Range(runqueue') \ {FdT} = Range(runqueue) \ {FdT}
<1>1. /\ running' = NoTask /\ Running(t)
      /\ IF startedfdtask THEN UNCHANGED <<live, runqueue>>
         ELSE live' = live \cup {FdT} /\ runqueue' = Append(runqueue, FdT)
  BY DEF StartAndSwitch
<1>2. running = t /\ t # FdT /\ FdT # NoTask /\ FdT \in Task
  BY <1>1, ClientFacts, CoopAssumption, FdTaskAssumption
<1>3. CASE startedfdtask
  BY <1>1, <1>2, <1>3 DEF seenRunning
<1>4. CASE ~startedfdtask
  <2>1. runqueue \in Seq(Task) /\ IsInjective(runqueue) /\ FdT \notin Range(runqueue)
    BY <1>4 DEF IInv, CoopOK, FdtInv
  <2>2. Range(runqueue') = Range(runqueue) \cup {FdT}
    <3>1. runqueue' = Append(runqueue, FdT)
      BY <1>1, <1>4
    <3>2. Range(Append(runqueue, FdT)) = Range(runqueue) \cup {FdT}
      BY <1>2, <2>1, AppendToQueue
    <3> QED BY <3>1, <3>2
  <2>3. Range(runqueue') \ {FdT} = Range(runqueue) \ {FdT}
    BY <2>2
  <2>4. seenRunning = t /\ seenRunning' = NoTask
    BY <1>1, <1>2 DEF seenRunning
  <2> QED BY <2>3, <2>4
<1> QED BY <1>3, <1>4

LEMMA DelaySeen ==
  ASSUME IInv, NEW t \in Client, NEW ms \in Delay, taskdelay(t, ms)
  PROVE  Contract!WaitNext
<1>1. StartAndSwitch(t) /\ pollfd' = pollfd
  BY DEF taskdelay
<1>2. /\ seenRunning = t /\ seenRunning' = NoTask /\ seenReady' = seenReady
      /\ seenWaiting' = seenWaiting
  BY <1>1, SwitchSeen DEF seenReady, seenWaiting
<1>3. Contract!Leave(t)
  BY <1>2 DEF Contract!Leave
<1> QED BY <1>3 DEF Contract!WaitNext

LEMMA WaitSeen ==
  ASSUME IInv, IInv', NEW t \in Client, NEW fd \in Fd, NEW rw \in Mode, fdwait(t, fd, rw)
  PROVE  Contract!WaitNext
<1> DEFINE e == [task |-> t, fd |-> fd, events |-> rw, revents |-> FALSE]
           n == Len(pollfd)
<1>1. StartAndSwitch(t) /\ pollfd' = Append(pollfd, e)
  BY DEF fdwait
<1>2. /\ pollfd \in Seq(Entry) /\ pollfd' \in Seq(Entry)
      /\ \A j, k \in DOMAIN pollfd : pollfd[j].task = pollfd[k].task => j = k
      /\ t \notin Pollers
  <2>1. pollfd' \in Seq(Entry)
    BY DEF IInv, Typed
  <2>2. Running(t)
    BY <1>1 DEF StartAndSwitch
  <2> QED BY <2>1, <2>2, SeenFacts, ClientFacts
<1>3. \A j, k \in DOMAIN pollfd' : pollfd'[j].task = pollfd'[k].task => j = k
  <2>1. IsInjective([k \in 1..Len(pollfd') |-> pollfd'[k].task])
    BY DEF IInv, WaitersInv, PollTasks
  <2> QED BY <1>2, <2>1, DistinctTasks
<1>4. e.task = t /\ e.fd = fd /\ e.events = rw /\ e.revents = FALSE
  OBVIOUS
<1> HIDE DEF e
<1>5. /\ n \in Nat /\ DOMAIN pollfd = 1..n /\ DOMAIN pollfd' = 1..(n + 1)
      /\ pollfd'[n + 1] = e /\ \A k \in 1..n : pollfd'[k] = pollfd[k]
  BY <1>1, <1>2
<1> HIDE DEF n
<1>6. 1..(n + 1) = 1..n \cup {n + 1}
  BY <1>5
<1>7. seenWaiting'[t] = <<fd, rw>>
  BY <1>2, <1>3, <1>4, <1>5, <1>6, WaitingIs DEF seenWaiting
<1>8. ASSUME NEW u \in Client, u # t PROVE seenWaiting'[u] = seenWaiting[u]
  <2>1. CASE \E k \in 1..n : pollfd[k].task = u /\ ~pollfd[k].revents
    <3>1. PICK k \in 1..n : pollfd[k].task = u /\ ~pollfd[k].revents
      BY <2>1
    <3>2. seenWaiting[u] = <<pollfd[k].fd, pollfd[k].events>>
      BY <1>2, <1>5, <3>1, WaitingIs DEF seenWaiting
    <3>3. k \in DOMAIN pollfd' /\ pollfd'[k] = pollfd[k]
      BY <1>5, <1>6
    <3>4. seenWaiting'[u] = <<pollfd'[k].fd, pollfd'[k].events>>
      <4>1. \A j \in DOMAIN pollfd' : ~pollfd'[j].revents =>
              seenWaiting'[pollfd'[j].task] = <<pollfd'[j].fd, pollfd'[j].events>>
        BY <1>2, <1>3, WaitingIs DEF seenWaiting
      <4> QED BY <3>1, <3>3, <4>1
    <3> QED BY <3>2, <3>3, <3>4
  <2>2. CASE \A k \in 1..n : pollfd[k].task = u => pollfd[k].revents
    <3>1. seenWaiting[u] = NoTask
      BY <1>2, <1>5, <2>2, WaitingIs DEF seenWaiting
    <3>2. \A k \in DOMAIN pollfd' : pollfd'[k].task = u => pollfd'[k].revents
      BY <1>4, <1>5, <1>6, <1>8, <2>2
    <3>3. seenWaiting'[u] = NoTask
      BY <1>2, <1>3, <3>2, WaitingIs DEF seenWaiting
    <3> QED BY <3>1, <3>3
  <2> QED BY <2>1, <2>2
<1>9. seenWaiting' = [seenWaiting EXCEPT ![t] = <<fd, rw>>]
  <2>1. seenWaiting' = [u \in Client |-> seenWaiting'[u]]
        /\ seenWaiting = [u \in Client |-> seenWaiting[u]]
    BY DEF seenWaiting, Waiting
  <2> QED BY <1>7, <1>8, <2>1
<1>10. Woken(pollfd') = Woken(pollfd)
  <2>1. ASSUME NEW x PROVE x \in Woken(pollfd') <=> x \in Woken(pollfd)
    <3>1. x \in Woken(pollfd) <=> \E k \in 1..n : pollfd[k].revents /\ x = pollfd[k].task
      BY <1>5 DEF Woken
    <3>2. x \in Woken(pollfd')
            <=> \E k \in 1..(n + 1) : pollfd'[k].revents /\ x = pollfd'[k].task
      BY <1>5 DEF Woken
    <3> QED BY <1>4, <1>5, <1>6, <3>1, <3>2
  <2> QED BY <2>1
<1>11. seenRunning = t /\ seenRunning' = NoTask /\ seenReady' = seenReady
  BY <1>1, <1>10, SwitchSeen DEF seenReady
<1>12. Contract!fdwait(t, <<fd, rw>>)
  BY <1>9, <1>11 DEF Contract!fdwait
<1> QED BY <1>12 DEF Contract!WaitNext

(* poll() returns: everybody it reports becomes ready at once.             *)
LEMMA PollSeen ==
  ASSUME NoTask \notin Fd \X Mode, IInv, IInv', RevInv, PollReturns
  PROVE  [Contract!WaitNext]_(Contract!waitVars)
<1>1. /\ Running(FdT) /\ fdt.pc = "poll" /\ UNCHANGED coopVars
      /\ pollfd' = [k \in DOMAIN pollfd |->
                      [pollfd[k] EXCEPT !.revents = Reported(pollfd[k])]]
  BY DEF PollReturns, At
<1>2. /\ running = FdT /\ running' = FdT /\ runqueue = <<>> /\ runqueue' = <<>>
      /\ seenRunning = NoTask /\ seenRunning' = NoTask
  BY <1>1 DEF IInv, AloneInv, coopVars, Running, seenRunning
<1>3. /\ pollfd \in Seq(Entry) /\ pollfd' \in Seq(Entry) /\ DOMAIN pollfd' = DOMAIN pollfd
      /\ \A j, k \in DOMAIN pollfd : pollfd[j].task = pollfd[k].task => j = k
      /\ \A k \in DOMAIN pollfd : pollfd[k] \in Entry /\ ~pollfd[k].revents
  <2>1. pollfd' \in Seq(Entry) /\ pollfd \in Seq(Entry)
    BY DEF IInv, Typed
  <2>2. \A k \in DOMAIN pollfd : ~pollfd[k].revents
    BY <1>1 DEF RevInv
  <2>3. \A k \in DOMAIN pollfd : pollfd[k] \in Entry
    BY <2>1
  <2> QED BY <1>1, <2>1, <2>2, <2>3, SeenFacts
<1>4. ASSUME NEW k \in DOMAIN pollfd
      PROVE  /\ pollfd'[k].task = pollfd[k].task /\ pollfd'[k].fd = pollfd[k].fd
             /\ pollfd'[k].events = pollfd[k].events
             /\ pollfd'[k].revents = Reported(pollfd[k])
  <2>1. pollfd[k] \in Entry /\ pollfd'[k] = [pollfd[k] EXCEPT !.revents = Reported(pollfd[k])]
    BY <1>1, <1>3
  <2> QED BY <2>1 DEF Entry
<1>5. \A j, k \in DOMAIN pollfd' : pollfd'[j].task = pollfd'[k].task => j = k
  BY <1>3, <1>4
<1> DEFINE woken == {t \in Client : Contract!Reported(t)}
<1>6. ASSUME NEW k \in DOMAIN pollfd
      PROVE  /\ pollfd[k].task \in Client
             /\ seenWaiting[pollfd[k].task] = <<pollfd[k].fd, pollfd[k].events>>
             /\ Contract!Reported(pollfd[k].task) <=> Reported(pollfd[k])
  <2>1. pollfd[k] \in Entry /\ ~pollfd[k].revents
    BY <1>3
  <2>2. /\ pollfd[k].task \in Client
        /\ <<pollfd[k].fd, pollfd[k].events>> \in Fd \X Mode
    BY <2>1 DEF Entry
  <2>3. seenWaiting[pollfd[k].task] = <<pollfd[k].fd, pollfd[k].events>>
    BY <1>3, <2>1, WaitingIs DEF seenWaiting
  <2>4. <<pollfd[k].fd, pollfd[k].events>> # NoTask
    BY <2>2
  <2>5. seenWaiting[pollfd[k].task][1] = pollfd[k].fd
    BY <2>3
  <2> QED BY <2>2, <2>3, <2>4, <2>5 DEF Contract!Reported, Reported
<1>7. ASSUME NEW t \in Client, \A k \in DOMAIN pollfd : pollfd[k].task # t
      PROVE  seenWaiting[t] = NoTask /\ t \notin woken
  <2>1. seenWaiting[t] = NoTask
    BY <1>7, SeenFacts DEF Pollers
  <2> QED BY <2>1 DEF Contract!Reported
<1>8. woken = Woken(pollfd')
  <2>1. ASSUME NEW t \in woken PROVE t \in Woken(pollfd')
    <3>1. PICK k \in DOMAIN pollfd : pollfd[k].task = t
      BY <1>7, <2>1
    <3>2. Reported(pollfd[k])
      BY <1>6, <2>1, <3>1
    <3> QED BY <1>3, <1>4, <3>1, <3>2 DEF Woken
  <2>2. ASSUME NEW t \in Woken(pollfd') PROVE t \in woken
    <3>1. PICK k \in DOMAIN pollfd' : pollfd'[k].revents /\ pollfd'[k].task = t
      BY <2>2 DEF Woken
    <3> QED BY <1>3, <1>4, <1>6, <3>1
  <2> HIDE DEF woken
  <2> QED BY <2>1, <2>2
<1>9. seenReady = {} /\ seenReady' = woken
  <2>1. Range(<<>>) = {} /\ Woken(pollfd) = {}
    BY <1>3 DEF Range, Woken
  <2> HIDE DEF woken
  <2> QED BY <1>2, <1>8, <2>1 DEF seenReady
<1>10. ASSUME NEW t \in Client
       PROVE  seenWaiting'[t] = IF t \in woken THEN NoTask ELSE seenWaiting[t]
  <2>1. CASE \A k \in DOMAIN pollfd : pollfd[k].task # t
    <3>1. \A k \in DOMAIN pollfd' : pollfd'[k].task = t => pollfd'[k].revents
      BY <1>3, <1>4, <2>1
    <3>2. seenWaiting'[t] = NoTask
      BY <1>3, <1>5, <3>1, WaitingIs DEF seenWaiting
    <3> QED BY <1>7, <2>1, <3>2
  <2>2. CASE \E k \in DOMAIN pollfd : pollfd[k].task = t
    <3>1. PICK k \in DOMAIN pollfd : pollfd[k].task = t
      BY <2>2
    <3>2. t \in woken <=> pollfd'[k].revents
      BY <1>4, <1>6, <3>1
    <3>3. pollfd'[k].task = t /\ k \in DOMAIN pollfd'
      BY <1>3, <1>4, <3>1
    <3> HIDE DEF woken
    <3>4. CASE pollfd'[k].revents
      <4>1. \A j \in DOMAIN pollfd' : pollfd'[j].task = t => pollfd'[j].revents
        BY <1>5, <3>3, <3>4
      <4>2. seenWaiting'[t] = NoTask
        BY <1>3, <1>5, <4>1, WaitingIs DEF seenWaiting
      <4> QED BY <3>2, <3>4, <4>2
    <3>5. CASE ~pollfd'[k].revents
      <4>1. \A j \in DOMAIN pollfd' : ~pollfd'[j].revents =>
              seenWaiting'[pollfd'[j].task] = <<pollfd'[j].fd, pollfd'[j].events>>
        BY <1>3, <1>5, WaitingIs DEF seenWaiting
      <4>2. seenWaiting'[t] = <<pollfd'[k].fd, pollfd'[k].events>>
        BY <3>3, <3>5, <4>1
      <4> QED BY <1>4, <1>6, <3>1, <3>2, <3>5, <4>2
    <3> QED BY <3>4, <3>5
  <2> QED BY <2>1, <2>2
<1>11. seenWaiting' = [t \in Client |-> IF t \in woken THEN NoTask ELSE seenWaiting[t]]
  <2>1. seenWaiting' = [t \in Client |-> seenWaiting'[t]]
    BY DEF seenWaiting, Waiting
  <2> HIDE DEF woken
  <2> QED BY <1>10, <2>1
<1>12. CASE woken # {}
  <2>1. Contract!PollRound
    BY <1>2, <1>9, <1>11, <1>12 DEF Contract!PollRound
  <2> QED BY <2>1 DEF Contract!WaitNext
<1>13. CASE woken = {}
  <2>1. seenWaiting = [t \in Client |-> seenWaiting[t]]
    BY DEF seenWaiting, Waiting
  <2> HIDE DEF woken
  <2>2. seenWaiting' = seenWaiting
    BY <1>11, <1>13, <2>1
  <2> QED BY <1>2, <1>9, <1>13, <2>2 DEF Contract!waitVars
<1> QED BY <1>12, <1>13

(* The scan moves a task that poll() reported from the poll array to the   *)
(* run queue, which the contract does not see.                             *)
LEMMA ScanSeen ==
  ASSUME IInv, IInv', Scans
  PROVE  UNCHANGED Contract!waitVars
<1> DEFINE i == fdt.i
           n == Len(pollfd)
<1>1. Running(FdT) /\ fdt.pc = "scan" /\ i <= n /\ running' = running
  BY DEF Scans, At, Wake, coopVars
<1>2. /\ i \in Nat /\ i >= 1 /\ n \in Nat /\ DOMAIN pollfd = 1..n
      /\ pollfd \in Seq(Entry) /\ pollfd' \in Seq(Entry)
      /\ \A j, k \in DOMAIN pollfd : pollfd[j].task = pollfd[k].task => j = k
      /\ FdT # NoTask
  <2>1. i \in Nat /\ i >= 1
    BY <1>1 DEF IInv, Typed, FdtInv
  <2>2. pollfd' \in Seq(Entry) /\ pollfd \in Seq(Entry)
    BY DEF IInv, Typed
  <2> QED BY <2>1, <2>2, SeenFacts, CoopAssumption, FdTaskAssumption
<1>3. seenRunning' = seenRunning
  BY <1>1 DEF seenRunning
<1>4. CASE ~pollfd[i].revents
  <2>1. UNCHANGED <<coopVars, pollfd>>
    BY <1>4 DEF Scans
  <2> QED BY <1>3, <2>1, Unseen DEF coopVars
<1>5. CASE pollfd[i].revents
  <2> DEFINE u == pollfd[i].task
  <2>1. pollfd' = Removed(i) /\ runqueue' = runqueue \o <<u>>
    BY <1>5 DEF Scans, Wake
  <2>2. i \in 1..n
    <3> HIDE DEF i, n
    <3> QED BY <1>1, <1>2
  <2>3. u \in Client
    <3>1. pollfd[i] \in Entry
      <4> HIDE DEF i
      <4> QED BY <1>2, <2>2
    <3> QED BY <3>1 DEF Entry
  <2>4. Range(runqueue') = Range(runqueue) \cup {u}
    <3> DEFINE e == <<u>>
    <3>1. Range(e) = {u} /\ e \in Seq(Task) /\ runqueue \in Seq(Task)
      <4>1. u \in Task
        BY <2>3 DEF Client
      <4>2. Range(e) = {u} /\ e \in Seq(Task)
        BY <4>1, QueueOfOne
      <4> QED BY <4>2 DEF IInv, CoopOK
    <3> HIDE DEF e
    <3>2. Range(runqueue \o e) = Range(runqueue) \cup Range(e)
      BY <3>1, RangeConcatenation
    <3> QED BY <2>1, <3>1, <3>2 DEF e
  <2>5. \A j, k \in DOMAIN pollfd' : pollfd'[j].task = pollfd'[k].task => j = k
    <3>1. IsInjective([k \in 1..Len(pollfd') |-> pollfd'[k].task])
      BY DEF IInv, WaitersInv, PollTasks
    <3> QED BY <1>2, <3>1, DistinctTasks
  <2>6. /\ DOMAIN pollfd' = 1..(n - 1)
        /\ \A k \in 1..(n - 1) : pollfd'[k] = IF k = i THEN pollfd[n] ELSE pollfd[k]
    BY <2>1 DEF Removed
  <2> HIDE DEF u, i, n
  <2>7. ASSUME NEW k \in DOMAIN pollfd'
        PROVE  \E j \in DOMAIN pollfd : j # i /\ pollfd'[k] = pollfd[j]
    <3>1. CASE k = i
      <4>1. n \in DOMAIN pollfd /\ n # i
        BY <1>2, <2>2, <2>6, <3>1
      <4> QED BY <2>6, <3>1, <4>1
    <3>2. CASE k # i
      <4>1. k \in DOMAIN pollfd
        BY <1>2, <2>6
      <4> QED BY <2>6, <3>2, <4>1
    <3> QED BY <3>1, <3>2
  <2>8. ASSUME NEW j \in DOMAIN pollfd, j # i
        PROVE  \E k \in DOMAIN pollfd' : pollfd'[k] = pollfd[j]
    <3>1. CASE j = n
      <4>1. i \in DOMAIN pollfd' /\ pollfd'[i] = pollfd[n]
        BY <1>2, <2>2, <2>6, <2>8, <3>1
      <4> QED BY <3>1, <4>1
    <3>2. CASE j # n
      <4>1. j \in DOMAIN pollfd' /\ pollfd'[j] = pollfd[j]
        BY <1>2, <2>6, <2>8, <3>2
      <4> QED BY <4>1
    <3> QED BY <3>1, <3>2
  <2>9. i \in DOMAIN pollfd /\ pollfd[i].task = u /\ pollfd[i].revents
    BY <1>2, <1>5, <2>2 DEF u
  <2>10. Woken(pollfd) = Woken(pollfd') \cup {u}
    <3>1. ASSUME NEW x \in Woken(pollfd) PROVE x \in Woken(pollfd') \cup {u}
      <4>1. PICK j \in DOMAIN pollfd : pollfd[j].revents /\ x = pollfd[j].task
        BY <3>1 DEF Woken
      <4>2. CASE j # i
        <5>1. PICK k \in DOMAIN pollfd' : pollfd'[k] = pollfd[j]
          BY <2>8, <4>2
        <5> QED BY <4>1, <5>1 DEF Woken
      <4> QED BY <2>9, <4>1, <4>2
    <3>2. ASSUME NEW x \in Woken(pollfd') PROVE x \in Woken(pollfd)
      <4>1. PICK k \in DOMAIN pollfd' : pollfd'[k].revents /\ x = pollfd'[k].task
        BY <3>2 DEF Woken
      <4>2. PICK j \in DOMAIN pollfd : j # i /\ pollfd'[k] = pollfd[j]
        BY <2>7
      <4> QED BY <4>1, <4>2 DEF Woken
    <3>3. u \in Woken(pollfd)
      BY <2>9 DEF Woken
    <3> QED BY <3>1, <3>2, <3>3
  <2>11. u \notin Woken(pollfd')
    <3> SUFFICES ASSUME u \in Woken(pollfd') PROVE FALSE
      OBVIOUS
    <3>1. PICK k \in DOMAIN pollfd' : u = pollfd'[k].task
      BY DEF Woken
    <3>2. PICK j \in DOMAIN pollfd : j # i /\ pollfd'[k] = pollfd[j]
      BY <2>7
    <3> QED BY <1>2, <2>9, <3>1, <3>2
  <2>12. seenReady' = seenReady
    <3>1. u # FdT
      BY <2>3 DEF Client
    <3> QED BY <2>4, <2>10, <3>1 DEF seenReady
  <2>13. ASSUME NEW t \in Client PROVE seenWaiting'[t] = seenWaiting[t]
    <3>1. CASE \E j \in DOMAIN pollfd : pollfd[j].task = t /\ ~pollfd[j].revents
      <4>1. PICK j \in DOMAIN pollfd : pollfd[j].task = t /\ ~pollfd[j].revents
        BY <3>1
      <4>2. PICK k \in DOMAIN pollfd' : pollfd'[k] = pollfd[j]
        BY <2>8, <2>9, <4>1
      <4>3. seenWaiting[t] = <<pollfd[j].fd, pollfd[j].events>>
        BY <1>2, <4>1, WaitingIs DEF seenWaiting
      <4>4. \A m \in DOMAIN pollfd' : ~pollfd'[m].revents =>
              seenWaiting'[pollfd'[m].task] = <<pollfd'[m].fd, pollfd'[m].events>>
        BY <1>2, <2>5, WaitingIs DEF seenWaiting
      <4> QED BY <4>1, <4>2, <4>3, <4>4
    <3>2. CASE \A j \in DOMAIN pollfd : pollfd[j].task = t => pollfd[j].revents
      <4>1. seenWaiting[t] = NoTask
        BY <1>2, <3>2, WaitingIs DEF seenWaiting
      <4>2. \A k \in DOMAIN pollfd' : pollfd'[k].task = t => pollfd'[k].revents
        BY <2>7, <3>2
      <4>3. seenWaiting'[t] = NoTask
        BY <1>2, <2>5, <4>2, WaitingIs DEF seenWaiting
      <4> QED BY <4>1, <4>3
    <3> QED BY <3>1, <3>2
  <2>14. seenWaiting' = seenWaiting
    <3>1. seenWaiting' = [t \in Client |-> seenWaiting'[t]]
          /\ seenWaiting = [t \in Client |-> seenWaiting[t]]
      BY DEF seenWaiting, Waiting
    <3> QED BY <2>13, <3>1
  <2> QED BY <1>3, <2>12, <2>14 DEF Contract!waitVars
<1> QED BY <1>4, <1>5

(* fdtask wakes a sleeper.                                                 *)
LEMMA TimerSeen ==
  ASSUME IInv, TimerWakes
  PROVE  Contract!WaitNext
<1> DEFINE t == Head(sleeping)
<1>1. /\ running = FdT /\ running' = FdT /\ sleeping # <<>> /\ runqueue' = runqueue \o <<t>>
      /\ pollfd' = pollfd
  BY DEF TimerWakes, At, Expired, Wake, Running
<1>2. t \in Sleepers /\ t \in Client
  <2>1. sleeping \in Seq(Client) /\ IsInjective(sleeping)
    BY DEF IInv, Typed, WaitersInv
  <2> QED BY <1>1, <2>1, PopQueue, RangeOfQueue DEF Sleepers
<1> HIDE DEF t
<1>3. t \notin Pollers /\ t \notin Range(runqueue) /\ t # FdT /\ t # NoTask /\ t \in Task
  <2>1. t \in Parked /\ t \notin Range(PollTasks)
    BY <1>2 DEF IInv, WaitersInv
  <2>2. Parked \cap Range(runqueue) = {}
    BY ParkedFacts DEF IInv
  <2> QED BY <1>2, <2>1, <2>2, SeenFacts, CoopAssumption DEF Client
<1>4. Range(runqueue') = Range(runqueue) \cup {t}
  <2> DEFINE e == <<t>>
  <2>1. Range(e) = {t} /\ e \in Seq(Task) /\ runqueue \in Seq(Task)
    BY <1>3, QueueOfOne DEF IInv, CoopOK
  <2> HIDE DEF e
  <2>2. Range(runqueue \o e) = Range(runqueue) \cup Range(e)
    BY <2>1, RangeConcatenation
  <2> QED BY <1>1, <2>1, <2>2 DEF e
<1>5. seenRunning = NoTask /\ seenRunning' = NoTask /\ seenWaiting' = seenWaiting
  BY <1>1 DEF seenRunning, seenWaiting
<1>6. seenWaiting[t] = NoTask /\ t \notin Woken(pollfd)
  BY <1>2, <1>3, SeenFacts
<1>7. t \notin seenReady /\ seenReady' = seenReady \cup {t}
  BY <1>1, <1>3, <1>4, <1>6 DEF seenReady
<1>8. Contract!Join(t)
  BY <1>3, <1>5, <1>6, <1>7 DEF Contract!Join
<1> QED BY <1>2, <1>8 DEF Contract!WaitNext

(* Every step of fd.c is one of the contract, or none.                     *)
LEMMA StepSeen ==
  ASSUME NoTask \notin Fd \X Mode, IInv, IInv', RevInv, [Next]_vars
  PROVE  [Contract!WaitNext]_(Contract!waitVars)
<1>1. CASE Scheduler
  BY <1>1, SchedulerSeen
<1>2. CASE PollReturns
  BY <1>2, PollSeen
<1>3. CASE Scans
  BY <1>3, ScanSeen
<1>4. CASE TimerWakes
  BY <1>4, TimerSeen
<1>5. CASE FdYields
  <2>1. running = FdT /\ running' = NoTask /\ runqueue' = Append(runqueue, FdT) /\ pollfd' = pollfd
    BY <1>5 DEF FdYields, Yield, Running, fdVars
  <2>2. FdT \in Task /\ FdT # NoTask /\ FdT \notin Range(runqueue)
    <3>1. Running(FdT)
      BY <1>5 DEF FdYields, Yield
    <3> QED BY <3>1, FdtFacts
  <2>3. Range(runqueue') = Range(runqueue) \cup {FdT}
    <3>1. runqueue \in Seq(Task) /\ IsInjective(runqueue)
      BY DEF IInv, CoopOK
    <3>2. Range(Append(runqueue, FdT)) = Range(runqueue) \cup {FdT}
      BY <2>2, <3>1, AppendToQueue
    <3> QED BY <2>1, <3>2
  <2>4. Range(runqueue') \ {FdT} = Range(runqueue) \ {FdT}
    BY <2>3
  <2>5. seenRunning' = seenRunning
    BY <2>1, <2>2 DEF seenRunning
  <2> QED BY <2>1, <2>4, <2>5, Unseen
<1>6. CASE \/ FdStarts \/ FdPolls \/ PollFails \/ ScanEnds \/ TimersEnd
           \/ Tick \/ World \/ UNCHANGED vars
  <2>1. UNCHANGED <<running, runqueue, pollfd>>
    BY <1>6 DEF FdStarts, SetSystem, FdPolls, PollFails, ExitAll, ScanEnds, TimersEnd, Tick,
                World, vars, coopVars, fdVars
  <2> QED BY <2>1, Unseen DEF seenRunning
<1>7. ASSUME NEW t \in Client, ClientStep(t) PROVE [Contract!WaitNext]_(Contract!waitVars)
  BY <1>7, DelaySeen, WaitSeen, ClientSeen DEF ClientStep
<1> QED BY <1>1, <1>2, <1>3, <1>4, <1>5, <1>6, <1>7 DEF Next, FdStep

(* fd.c implements the contract FdWait that FdIO and Net are built on: who *)
(* waits for a descriptor is readied when, and only when, poll() reports   *)
(* it, with everybody else it reports, at a moment when nobody can run.    *)
(* (Having no task is not the same as waiting for a descriptor.)           *)
THEOREM DescriptorsImplementWait ==
  ASSUME NoTask \notin Fd \X Mode
  PROVE  Spec => WaitContract
<1>1. ASSUME Init PROVE RevInv /\ Contract!WaitInit
  <2>1. /\ pollfd = <<>> /\ running = NoTask
        /\ runqueue \in Injection(1..Cardinality(Client), Client)
    BY <1>1 DEF Init
  <2>2. DOMAIN pollfd = {}
    BY <2>1
  <2>3. Range(runqueue) \subseteq Client
    BY <2>1 DEF Injection, Range
  <2>4. seenReady \subseteq Client /\ seenRunning = NoTask
    BY <2>1, <2>2, <2>3 DEF seenReady, Woken, seenRunning
  <2>5. seenWaiting = [t \in Client |-> NoTask]
    BY <2>2 DEF seenWaiting, Waiting
  <2> QED BY <2>2, <2>4, <2>5 DEF RevInv, Contract!WaitInit
<1>2. Init => RevInv /\ Contract!WaitInit
  BY <1>1
<1>3. IInv /\ RevInv /\ [Next]_vars => RevInv'
  BY RevKeeps
<1>4. IInv /\ IInv' /\ RevInv /\ [Next]_vars => [Contract!WaitNext]_(Contract!waitVars)
  BY StepSeen
<1> QED BY <1>2, <1>3, <1>4, Invariance, PTL DEF Spec, WaitContract, Contract!WaitSpec
=============================================================================
