-------------------------------- MODULE Coop --------------------------------
(***************************************************************************)
(* The contract of libtask's cooperative scheduler, as the rest of the     *)
(* library relies on it: one task runs at a time, it keeps the CPU until   *)
(* it gives it up, ready tasks wait in one FIFO queue, and the program     *)
(* ends when no non-system task is left or when nothing can run.           *)
(*                                                                         *)
(* The module hides how task.c keeps count of the tasks (alltask, its      *)
(* slots, taskcount, the exiting flag): module Sched models that and is    *)
(* shown to implement this contract.  The blocking primitives (channels,   *)
(* locks, rendezvous) are built on it: they park the running task with     *)
(* taskswitch() and hand parked tasks back with taskready().               *)
(***************************************************************************)
EXTENDS Integers, Sequences, FiniteSets, Functions

CONSTANTS
  Task,     \* the Task blocks malloc can return
  NoTask    \* the nil Task pointer

ASSUME CoopAssumption == IsFiniteSet(Task) /\ NoTask \notin Task

VARIABLES
  live,      \* tasks created and not yet exited
  system,    \* those marked with tasksystem()
  runqueue,  \* taskrunqueue, head first
  running,   \* the task on the CPU, NoTask while the scheduler is on it
  ended      \* the program has called exit()

coopVars == <<live, system, runqueue, running, ended>>

-----------------------------------------------------------------------------
(* Tasks that gave up the CPU without queueing themselves: only another    *)
(* task's taskready() can bring them back.                                 *)
Parked == live \ (Range(runqueue) \cup {running})

Users == live \ system

(* The sequences of distinct tasks of S: what one call may make ready.     *)
WakeLists(S) == UNION {Injection(1..n, S) : n \in 0..Cardinality(S)}

Running(t) == ~ended /\ running = t

-----------------------------------------------------------------------------
(* main() creates the task that runs taskmain().                           *)
CoopInit ==
  /\ \E t \in Task : live = {t} /\ runqueue = <<t>>
  /\ system = {}
  /\ running = NoTask
  /\ ended = FALSE

Create(t, u) ==
  /\ Running(t)
  /\ u \notin live
  /\ live' = live \cup {u}
  /\ runqueue' = Append(runqueue, u)
  /\ UNCHANGED <<system, running, ended>>

SetSystem(t) ==
  /\ Running(t)
  /\ system' = system \cup {t}
  /\ UNCHANGED <<live, runqueue, running, ended>>

Yield(t) ==
  /\ Running(t)
  /\ runqueue' = Append(runqueue, t)
  /\ running' = NoTask
  /\ UNCHANGED <<live, system, ended>>

(* t readies the tasks ws in this order and keeps the CPU.                 *)
Wake(t, ws) ==
  /\ Running(t)
  /\ runqueue' = runqueue \o ws
  /\ UNCHANGED <<live, system, running, ended>>

(* t readies the tasks ws and then gives up the CPU without queueing.      *)
Block(t, ws) ==
  /\ Running(t)
  /\ runqueue' = runqueue \o ws
  /\ running' = NoTask
  /\ UNCHANGED <<live, system, ended>>

Exit(t) ==
  /\ Running(t)
  /\ live' = live \ {t}
  /\ system' = system \ {t}
  /\ running' = NoTask
  /\ UNCHANGED <<runqueue, ended>>

ExitAll(t) ==
  /\ Running(t)
  /\ ended' = TRUE
  /\ UNCHANGED <<live, system, runqueue, running>>

Dispatch ==
  /\ ~ended /\ running = NoTask
  /\ Users # {} /\ runqueue # <<>>
  /\ running' = Head(runqueue)
  /\ runqueue' = Tail(runqueue)
  /\ UNCHANGED <<live, system, ended>>

(* No non-system task is left, or no task can run.                         *)
End ==
  /\ ~ended /\ running = NoTask
  /\ Users = {} \/ runqueue = <<>>
  /\ ended' = TRUE
  /\ UNCHANGED <<live, system, runqueue, running>>

CoopNext ==
  \/ \E t \in Task :
       \/ \E u \in Task : Create(t, u)
       \/ SetSystem(t) \/ Yield(t) \/ Exit(t) \/ ExitAll(t)
       \/ \E ws \in WakeLists(Parked) : Wake(t, ws) \/ Block(t, ws)
  \/ Dispatch
  \/ End

CoopSpec == CoopInit /\ [][CoopNext]_coopVars

(* The tasks of a program that does not create more: taskmain() has made   *)
(* them and has exited, and none of them has run yet.                      *)
AllReady ==
  /\ live = Task /\ system = {} /\ running = NoTask /\ ended = FALSE
  /\ runqueue \in Injection(1..Cardinality(Task), Task)

(* abort(): the end of the program with the task still running.            *)
Abort(t) == ExitAll(t)
-----------------------------------------------------------------------------
(* The blocking calls of channel.c, qlock.c and rendez.c ready only parked *)
(* tasks, each once, and give up the CPU only to be readied by others:     *)
(* taskready() of a task that is already in the run queue would corrupt    *)
(* both lists, for a Task has one pair of links.                           *)
KernelSteps == [][CoopNext]_coopVars
=============================================================================
