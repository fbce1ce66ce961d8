-------------------------------- MODULE Locks --------------------------------
(***************************************************************************)
(* Tasks that use the locks, the Rendezes and a reader-writer lock of      *)
(* qlock.c and rendez.c together, in any order.                            *)
(***************************************************************************)
EXTENDS Rendez, RWLock

sleepVars == <<sleepers, asleep, awakened>>
vars == <<rendezVars, rwVars>>

-----------------------------------------------------------------------------
(* What a task has, and what it waits for inside qlock.c or rendez.c.      *)
Holds(t) == held[t] # {} \/ mode[t] \in {"reading", "writing"}
Waits(t) == wants[t] # NoLock \/ asleep[t] # NoRdz \/ mode[t] \in {"rwait", "wwait"}

(* A step of one file leaves the state of the others alone; a task that is *)
(* in one call is not in another.                                          *)
MutexStep(t) == Calling(t) /\ RendezStep(t) /\ UNCHANGED rwVars
SharedStep(t) == AtWork(t) /\ RWStep(t) /\ UNCHANGED <<lockVars, sleepVars>>

(* What a task does between calls.                                         *)
OutsideLocks(t) ==
  /\ Running(t) /\ ~Waits(t)
  /\ Yield(t) \/ (~Holds(t) /\ Exit(t))
  /\ UNCHANGED <<lockVars, sleepVars, rwVars>>

Scheduler == Kernel /\ UNCHANGED rwVars

LocksInit == RendezInit /\ RWInit

LocksNext ==
  \/ \E t \in Task : MutexStep(t) \/ SharedStep(t) \/ OutsideLocks(t)
  \/ Scheduler
  \/ ended /\ UNCHANGED vars

LocksSpec == LocksInit /\ [][LocksNext]_vars

(* The scheduler and the calls themselves never stop, and no task keeps    *)
(* the CPU.  Of the clients it is assumed that a lock whose holders keep   *)
(* getting the CPU is given back again and again, by an unlock or by       *)
(* tasksleep().                                                            *)
Proceeds(t) ==
  \/ Calling(t) /\ (tasksleepWakes(t) \/ LockReturns(t)) /\ UNCHANGED rwVars
  \/ AtWork(t) /\ rwlockReturns(t) /\ UNCHANGED <<lockVars, sleepVars>>
  \/ OutsideLocks(t)

GivesBack(t, l) ==
  /\ Calling(t) /\ AtWork(t)
  /\ \/ qunlock(t, l) /\ UNCHANGED sleepVars
     \/ \E r \in Rdz : Guard[r] = l /\ tasksleep(t, r)
  /\ UNCHANGED rwVars

GivesBackShared(t) ==
  AtWork(t) /\ (runlock(t) \/ wunlock(t)) /\ UNCHANGED <<lockVars, sleepVars>>

LocksFairness ==
  /\ WF_vars(Scheduler)
  /\ WF_vars(\E t \in Task : Proceeds(t))
  /\ \A l \in Lock : SF_vars(\E t \in Task : GivesBack(t, l))
  /\ SF_vars(\E t \in Task : GivesBackShared(t))

LocksFairSpec == LocksSpec /\ LocksFairness
-----------------------------------------------------------------------------
(* The number of lists that t is on.                                       *)
Lists(t) ==
  Cardinality({l \in Lock : t \in Range(waiting[l])})
  + Cardinality({r \in Rdz : t \in Range(sleepers[r])})
  + Cardinality({q \in {1, 2, 3} : t \in Range(<<rwaiting, wwaiting, runqueue>>[q])})

(* A Task has one pair of links (task.h:39-40), used for the run queue and *)
(* for every wait list: a task that gave up the CPU in qlock(), rlock(),   *)
(* wlock() or tasksleep() is on exactly one list, also when it is moved    *)
(* from the list of a Rendez to that of its lock; and each list holds the  *)
(* tasks that wait for what it is the list of, none of them in vain.       *)
ListsInv ==
  /\ TypeOK /\ RWTypeOK
  /\ WaitInv /\ SleepInv /\ RWWaitInv
  /\ \A t \in live \ {running} : Lists(t) = 1

(* Some task waits, or sleeps, with a lock in its hands: only then may     *)
(* others wait for it in vain.                                             *)
HoldAndWait == \E t \in Task : Holds(t) /\ Waits(t)

(* Every caller of qlock() gets the lock in the end, since the lock goes   *)
(* to the first waiter and not to whoever asks next; unless the program    *)
(* ends or some task waits with a lock in its hands.                       *)
WaiterServed ==
  \A t \in Task : wants[t] # NoLock ~> wants[t] = NoLock \/ ended \/ []HoldAndWait

(* Neither readers nor writers starve: a waiting writer stops new readers, *)
(* and after a writer all readers that wait by then go first.              *)
RWWaiterServed ==
  \A t \in Task :
    mode[t] \in {"rwait", "wwait"} ~>
      mode[t] \in {"reading", "writing"} \/ ended \/ []HoldAndWait

(* A sleeper that was woken returns from tasksleep(), however many tasks   *)
(* were woken with it and contend for the lock of the Rendez.              *)
WokenReturns ==
  \A t \in Task :
    (asleep[t] # NoRdz /\ t \notin Range(sleepers[asleep[t]])) ~>
      asleep[t] = NoRdz \/ ended \/ []HoldAndWait

(* No caller of qlock(), rlock(), wlock() or tasksleep() starves, when     *)
(* locks are given back and nobody waits with a lock in its hands.         *)
AllServed == WaiterServed /\ RWWaiterServed /\ WokenReturns
=============================================================================
