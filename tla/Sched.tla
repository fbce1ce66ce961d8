-------------------------------- MODULE Sched --------------------------------
(***************************************************************************)
(* The scheduler of task.c: the table of all tasks, the run queue, the     *)
(* count of non-system tasks and the scheduler loop.                       *)
(*                                                                         *)
(* One action per call the running task can make and per half of the       *)
(* scheduler loop.  Between two taskswitch() calls the running task has    *)
(* the CPU to itself, so a whole call is one step.  The blocking           *)
(* primitives of channel.c, qlock.c, rendez.c and fd.c use the scheduler   *)
(* through taskready() and taskswitch() only; here they are Wake and       *)
(* Block, in which the caller readies some tasks and keeps or gives up     *)
(* the CPU.                                                                *)
(*                                                                         *)
(* The doubly linked Tasklist of the run queue is a sequence here.         *)
(***************************************************************************)
EXTENDS Integers, Sequences, FiniteSets, Functions

CONSTANTS
  Task,       \* the Task blocks malloc can return
  NoTask,     \* the nil Task pointer
  Status,     \* exit values a program uses
  Chunk,      \* slots alltask grows by: 64 in task.c
  IntRange    \* values of the int tasknswitch: 2^32, the build wraps

ASSUME SchedAssumption ==
  /\ IsFiniteSet(Task) /\ NoTask \notin Task
  /\ 0 \in Status /\ Status \subseteq Int
  /\ Chunk \in Nat \ {0}
  /\ IntRange \in Nat /\ IntRange > 2 * Cardinality(Task)

VARIABLES
  alltask,      \* alltask[0 .. nalltask-1]; slot i of the C array is alltask[i+1]
  allcap,       \* slots alltask has room for
  alltaskslot,  \* Task.alltaskslot
  system,       \* Task.system
  exiting,      \* Task.exiting
  ready,        \* Task.ready
  runqueue,     \* taskrunqueue, head first
  taskrunning,  \* taskrunning
  oncpu,        \* whose context is on the CPU: "sched" or "task"
  taskcount,    \* taskcount
  tasknswitch,  \* tasknswitch, as an unsigned residue
  yieldn,       \* the local n of a taskyield() in progress, or NoYield
  taskexitval,  \* taskexitval
  ended         \* "no", or why the program called exit()

taskVars  == <<alltask, allcap, alltaskslot, system, exiting>>
schedVars == <<alltask, allcap, alltaskslot, system, exiting, ready, runqueue,
               taskrunning, oncpu, taskcount, tasknswitch, yieldn,
               taskexitval, ended>>

NoYield == -1

-----------------------------------------------------------------------------
(* Helpers *)

Live   == Range(alltask)
Users  == {t \in Live : ~system[t]}
Parked == {t \in Live : ~ready[t] /\ t # taskrunning}

(* The sequences of distinct tasks of S: what one call may make ready.     *)
WakeLists(S) == UNION {Injection(1..n, S) : n \in 0..Cardinality(S)}

(* Mutants of MakeReady: a lost flag; a stack for a queue.                 *)
MakeReadyUnflagged(ws) == ready' = ready /\ runqueue' = runqueue \o ws
MakeReadyFirst(ws) ==
  /\ ready' = [t \in Task |-> ready[t] \/ t \in Range(ws)]
  /\ runqueue' = ws \o runqueue

(* taskready() applied to the tasks of ws, in order.                       *)
MakeReady(ws) ==
  /\ ready' = [t \in Task |-> ready[t] \/ t \in Range(ws)]
  /\ runqueue' = runqueue \o ws

(* taskswitch(): the scheduler's context is back on the CPU.               *)
SwitchOut == oncpu' = "sched"

(* t is executing its own code, not inside taskyield().                    *)
Running(t) ==
  ended = "no" /\ oncpu = "task" /\ taskrunning = t /\ yieldn[t] = NoYield

(* A residue read as the int it stands for.                                *)
AsInt(x) == IF 2 * x < IntRange THEN x ELSE x - IntRange

YieldResultInclusive(t) == AsInt((tasknswitch - yieldn[t]) % IntRange)

(* What the taskyield() in progress in t is about to return.               *)
YieldResult(t) == AsInt((tasknswitch - yieldn[t] - 1) % IntRange)

-----------------------------------------------------------------------------
(* Tasks *)

GrowOffByOne == IF Len(alltask) % Chunk = 1 THEN Len(alltask) + Chunk ELSE allcap

(* realloc of alltask whenever the number of tasks is a multiple of Chunk. *)
Grow == IF Len(alltask) % Chunk = 0 THEN Len(alltask) + Chunk ELSE allcap

TaskCreate(t, u) ==
  /\ Running(t)
  /\ u \notin Live
  /\ alltask' = Append(alltask, u)
  /\ allcap' = Grow
  /\ alltaskslot' = [alltaskslot EXCEPT ![u] = Len(alltask)]
  /\ system' = [system EXCEPT ![u] = FALSE]
  /\ exiting' = [exiting EXCEPT ![u] = FALSE]
  /\ taskcount' = taskcount + 1
  /\ MakeReady(<<u>>)
  /\ UNCHANGED <<taskrunning, oncpu, tasknswitch, yieldn, taskexitval, ended>>

(* Mutant of TaskSystem: a second call counts again.                       *)
TaskSystemRecount(t) ==
  /\ Running(t)
  /\ system' = [system EXCEPT ![t] = TRUE]
  /\ taskcount' = taskcount - 1
  /\ UNCHANGED <<alltask, allcap, alltaskslot, exiting, ready, runqueue,
                 taskrunning, oncpu, tasknswitch, yieldn, taskexitval, ended>>

TaskSystem(t) ==
  /\ Running(t)
  /\ ~system[t]
  /\ system' = [system EXCEPT ![t] = TRUE]
  /\ taskcount' = taskcount - 1
  /\ UNCHANGED <<alltask, allcap, alltaskslot, exiting, ready, runqueue,
                 taskrunning, oncpu, tasknswitch, yieldn, taskexitval, ended>>

TaskYield(t) ==
  /\ Running(t)
  /\ yieldn' = [yieldn EXCEPT ![t] = tasknswitch]
  /\ MakeReady(<<t>>)
  /\ SwitchOut
  /\ UNCHANGED <<taskVars, taskrunning, taskcount, tasknswitch, taskexitval,
                 ended>>

(* taskyield() returns YieldResult(t) to its caller.                       *)
YieldReturn(t) ==
  /\ ended = "no" /\ oncpu = "task" /\ taskrunning = t
  /\ yieldn[t] # NoYield
  /\ yieldn' = [yieldn EXCEPT ![t] = NoYield]
  /\ UNCHANGED <<taskVars, ready, runqueue, taskrunning, oncpu, taskcount,
                 tasknswitch, taskexitval, ended>>

(* taskexit(v), also reached with 0 when the start function returns.       *)
TaskExit(t, v) ==
  /\ Running(t)
  /\ taskexitval' = v
  /\ exiting' = [exiting EXCEPT ![t] = TRUE]
  /\ SwitchOut
  /\ UNCHANGED <<alltask, allcap, alltaskslot, system, ready, runqueue,
                 taskrunning, taskcount, tasknswitch, yieldn, ended>>

TaskExitAll(t) ==
  /\ Running(t)
  /\ ended' = "exitall"
  /\ UNCHANGED <<taskVars, ready, runqueue, taskrunning, oncpu, taskcount,
                 tasknswitch, yieldn, taskexitval>>

(* A primitive readies the tasks ws and returns to t.                      *)
Wake(t, ws) ==
  /\ Running(t)
  /\ MakeReady(ws)
  /\ UNCHANGED <<taskVars, taskrunning, oncpu, taskcount, tasknswitch, yieldn,
                 taskexitval, ended>>

(* A primitive readies the tasks ws and then waits in taskswitch().        *)
Block(t, ws) ==
  /\ Running(t)
  /\ MakeReady(ws)
  /\ SwitchOut
  /\ UNCHANGED <<taskVars, taskrunning, taskcount, tasknswitch, yieldn,
                 taskexitval, ended>>

-----------------------------------------------------------------------------
(* The scheduler loop *)

(* The loop is at its top: no task is being switched out.                  *)
AtTop == ended = "no" /\ oncpu = "sched" /\ taskrunning = NoTask

NoneLeftEarly == taskcount <= 1
NoneLeftLate  == taskcount = 0 /\ runqueue = <<>>

(* The scheduler's first test: is the program over?                        *)
NoneLeft == taskcount = 0

NextSwitch == (tasknswitch + 1) % IntRange

WithoutLast(i) == SubSeq(alltask, 1, Len(alltask) - 1)

(* The table without slot i: the last entry takes its place.               *)
WithoutSlot(i) ==
  [k \in 1..(Len(alltask) - 1) |->
     IF k = i + 1 THEN alltask[Len(alltask)] ELSE alltask[k]]

(* Back in the scheduler: drop taskrunning, free the task if it exited.    *)
SwitchedOut ==
  /\ ended = "no" /\ oncpu = "sched" /\ taskrunning # NoTask
  /\ taskrunning' = NoTask
  /\ LET t    == taskrunning
         i    == alltaskslot[t]
         last == alltask[Len(alltask)]
     IN  IF exiting[t]
         THEN /\ taskcount' = IF system[t] THEN taskcount ELSE taskcount - 1
              /\ alltask' = WithoutSlot(i)
              /\ alltaskslot' = [alltaskslot EXCEPT ![last] = i]
         ELSE UNCHANGED <<taskcount, alltask, alltaskslot>>
  /\ UNCHANGED <<allcap, system, exiting, ready, runqueue, oncpu, tasknswitch,
                 yieldn, taskexitval, ended>>

Dispatch ==
  /\ AtTop
  /\ ~NoneLeft
  /\ runqueue # <<>>
  /\ taskrunning' = Head(runqueue)
  /\ runqueue' = Tail(runqueue)
  /\ ready' = [ready EXCEPT ![Head(runqueue)] = FALSE]
  /\ tasknswitch' = NextSwitch
  /\ oncpu' = "task"
  /\ UNCHANGED <<taskVars, taskcount, yieldn, taskexitval, ended>>

(* exit(taskexitval): the last non-system task is gone.                    *)
Done ==
  /\ AtTop
  /\ NoneLeft
  /\ ended' = "done"
  /\ UNCHANGED <<taskVars, ready, runqueue, taskrunning, oncpu, taskcount,
                 tasknswitch, yieldn, taskexitval>>

(* exit(1) with "no runnable tasks!".                                      *)
Stalled ==
  /\ AtTop
  /\ ~NoneLeft
  /\ runqueue = <<>>
  /\ ended' = "stalled"
  /\ UNCHANGED <<taskVars, ready, runqueue, taskrunning, oncpu, taskcount,
                 tasknswitch, yieldn, taskexitval>>

Scheduler == SwitchedOut \/ Dispatch \/ Done \/ Stalled
-----------------------------------------------------------------------------
(* The program starts in main(), which creates the task of taskmain().     *)
Init ==
  /\ \E t \in Task :
       /\ alltask = <<t>>
       /\ alltaskslot = [u \in Task |-> 0]
       /\ ready = [u \in Task |-> u = t]
       /\ runqueue = <<t>>
  /\ allcap = Chunk
  /\ system = [u \in Task |-> FALSE]
  /\ exiting = [u \in Task |-> FALSE]
  /\ taskrunning = NoTask
  /\ oncpu = "sched"
  /\ taskcount = 1
  /\ tasknswitch = 0
  /\ yieldn = [u \in Task |-> NoYield]
  /\ taskexitval = 0
  /\ ended = "no"

Terminated == ended # "no" /\ UNCHANGED schedVars

TaskStep(t) ==
  \/ \E u \in Task : TaskCreate(t, u)
  \/ TaskSystem(t) \/ TaskYield(t) \/ YieldReturn(t) \/ TaskExitAll(t)
  \/ \E v \in Status : TaskExit(t, v)
  \/ \E ws \in WakeLists(Parked) : Wake(t, ws) \/ Block(t, ws)

Next == Scheduler \/ (\E t \in Task : TaskStep(t)) \/ Terminated

Spec == Init /\ [][Next]_schedVars

(* Cooperative scheduling leaves it to the program that a task gives up    *)
(* the CPU; the scheduler itself never stops (README:9-11).                *)
GiveUp(t) ==
  \/ TaskYield(t) \/ YieldReturn(t)
  \/ \E v \in Status : TaskExit(t, v)
  \/ \E ws \in WakeLists(Parked) : Block(t, ws)

Fairness ==
  WF_schedVars(Scheduler) /\ WF_schedVars(\E t \in Task : GiveUp(t))

FairSpec == Spec /\ Fairness
-----------------------------------------------------------------------------
(* Safety *)

(* The types of the variables of task.c.                                   *)
TypeOK ==
  /\ alltask \in Seq(Task)
  /\ allcap \in Nat
  /\ alltaskslot \in [Task -> Nat]
  /\ system \in [Task -> BOOLEAN]
  /\ exiting \in [Task -> BOOLEAN]
  /\ ready \in [Task -> BOOLEAN]
  /\ runqueue \in Seq(Task)
  /\ taskrunning \in Task \cup {NoTask}
  /\ oncpu \in {"sched", "task"}
  /\ taskcount \in Int
  /\ tasknswitch \in 0..(IntRange - 1)
  /\ yieldn \in [Task -> 0..(IntRange - 1) \cup {NoYield}]
  /\ taskexitval \in Status
  /\ ended \in {"no", "done", "stalled", "exitall"}

(* taskready() and the scheduler keep the run queue consistent: a task is  *)
(* queued at most once, exactly when its ready flag is set, never after it *)
(* called taskexit() and never while its code runs; the task on the CPU is *)
(* in the table; a task that called taskexit() is the one being switched   *)
(* out, so the clean-up frees nothing that is still linked anywhere.       *)
RunQueueInv ==
  /\ IsInjective(runqueue)
  /\ \A t \in Live : ready[t] <=> t \in Range(runqueue)
  /\ \A t \in Range(runqueue) : t \in Live /\ ~exiting[t]
  /\ oncpu = "task" => taskrunning \in Live \ Range(runqueue)
  /\ taskrunning # NoTask => taskrunning \in Live
  /\ \A t \in Live : exiting[t] => t = taskrunning /\ oncpu = "sched"

(* taskcreate() and the clean-up in the scheduler keep alltask a table of  *)
(* distinct tasks within its allocation, each knowing its slot.  The       *)
(* allocation is a multiple of Chunk: that is why it is large enough       *)
(* whenever taskcreate() does not call realloc().                          *)
TableInv ==
  /\ Len(alltask) <= allcap
  /\ allcap % Chunk = 0
  /\ IsInjective(alltask)
  /\ \A i \in DOMAIN alltask : alltaskslot[alltask[i]] = i - 1

(* taskcount is the number of non-system tasks, an exiting one included    *)
(* until the scheduler has cleaned it up.                                  *)
CountInv == taskcount = Cardinality(Users)

(* The scheduler ends the program with taskexitval only when no non-system *)
(* task is left, and reports a stall only when every task is parked and a  *)
(* non-system task is among them.                                          *)
EndInv ==
  /\ ended = "done" => Users = {}
  /\ ended = "stalled" => Users # {} /\ Parked = Live

(* Only a task that called taskexit() leaves alltask, and the clean-up     *)
(* frees the task that was switched out.                                   *)
OnlyExitFrees ==
  [][\A t \in Live : t \notin Range(alltask') =>
       exiting[t] /\ taskrunning = t]_schedVars

(* The scheduler of task.c implements the contract of module Coop: an      *)
(* exiting task is gone as soon as it switches out, the clean-up of its    *)
(* table slot is invisible.                                                *)
Contract == INSTANCE Coop WITH
  live <- {t \in Live : ~exiting[t]},
  system <- {t \in Live : system[t] /\ ~exiting[t]},
  runqueue <- runqueue,
  running <- IF oncpu = "task" THEN taskrunning ELSE NoTask,
  ended <- (ended # "no")

ContractSpec == Contract!CoopSpec
-----------------------------------------------------------------------------
(* Liveness *)

(* A ready task eventually runs, or the program ends: taskyield() and      *)
(* taskready() only ever append to the run queue.                          *)
ReadyRuns ==
  \A t \in Task : (t \in Range(runqueue)) ~> (taskrunning = t \/ ended # "no")

(* Once there are no non-system tasks any more the program ends, however   *)
(* long system tasks keep readying each other (README:22-25).              *)
NoUsersEnds == <>[]({t \in Users : ~exiting[t]} = {}) => <>(ended # "no")
=============================================================================
