------------------------------- MODULE FdWait -------------------------------
(***************************************************************************)
(* What fd.c promises to the tasks that wait for descriptors: a task in    *)
(* fdwait() stays parked until poll() reports its descriptor; poll() is    *)
(* called only when no task can run, and then everybody it reports is      *)
(* readied at once.  Which of the ready tasks runs next is left open.      *)
(*                                                                         *)
(* Module FdTask is shown to implement this contract.  Modules FdIO and    *)
(* Net are built on it, with able derived from the state of their sockets. *)
(***************************************************************************)
CONSTANTS
  Client,   \* the tasks of the program
  NoTask,   \* no task runs
  Io,       \* <<descriptor, kind of I/O>>
  NoIo,     \* not in fdwait()
  Exc       \* the exceptional conditions of a descriptor, as a kind of I/O

VARIABLES
  ready,    \* tasks on the run queue
  running,  \* the task on the CPU, NoTask while the scheduler or fdtask is
  waiting,  \* <<descriptor, kind of I/O>> of the tasks in fdwait(), or NoIo
  able      \* the <<descriptor, kind of I/O>> that would not block

waitVars == <<ready, running, waiting>>

(* poll() reports the I/O asked for and, unasked, exceptional conditions.  *)
Reported(t) ==
  /\ waiting[t] # NoIo
  /\ waiting[t] \in able \/ <<waiting[t][1], Exc>> \in able

Dispatch(t) ==
  /\ running = NoTask /\ t \in ready
  /\ running' = t
  /\ ready' = ready \ {t}
  /\ UNCHANGED waiting

fdwait(t, x) ==
  /\ running = t
  /\ waiting' = [waiting EXCEPT ![t] = x]
  /\ running' = NoTask
  /\ UNCHANGED ready

(* One round of fdtask: everybody whom poll() reports is readied.          *)
PollRound ==
  LET woken == {t \in Client : Reported(t)} IN
  /\ running = NoTask /\ ready = {} /\ woken # {}
  /\ ready' = woken
  /\ waiting' = [t \in Client |-> IF t \in woken THEN NoIo ELSE waiting[t]]
  /\ UNCHANGED running

Yield(t) ==
  /\ running = t
  /\ running' = NoTask
  /\ ready' = ready \cup {t}
  /\ UNCHANGED waiting

(* t exits, or parks in another primitive.                                 *)
Leave(t) ==
  /\ running = t
  /\ running' = NoTask
  /\ UNCHANGED <<ready, waiting>>

(* t is readied by something other than its descriptor.                    *)
Join(t) ==
  /\ t # running /\ t \notin ready /\ waiting[t] = NoIo
  /\ ready' = ready \cup {t}
  /\ UNCHANGED <<running, waiting>>

WaitInit ==
  /\ ready \subseteq Client
  /\ running = NoTask
  /\ waiting = [t \in Client |-> NoIo]

WaitNext ==
  \/ PollRound
  \/ \E t \in Client :
       \/ Dispatch(t) \/ Yield(t) \/ Leave(t) \/ Join(t)
       \/ \E x \in Io : fdwait(t, x)

WaitSpec == WaitInit /\ [][WaitNext]_waitVars
=============================================================================
