-------------------------------- MODULE Rendez --------------------------------
(***************************************************************************)
(* rendez.c: condition variables.  tasksleep() puts the caller on the wait *)
(* list, releases the lock of the Rendez and switches out in one           *)
(* uninterrupted step; when it runs again it takes the lock back, for      *)
(* which it may have to wait a second time.                                *)
(***************************************************************************)
EXTENDS QLock

CONSTANTS
  Rdz,       \* the Rendezes
  NoRdz,     \* not asleep
  Guard      \* Rendez.l of each, NoLock for nil

ASSUME RendezAssumption ==
  NoRdz \notin Rdz /\ Guard \in [Rdz -> Lock \cup {NoLock}]

VARIABLES
  sleepers,  \* Rendez.waiting, head first
  asleep,    \* the Rendez a task is asleep on inside tasksleep()
  awakened   \* what the last taskwakeup() or taskwakeupall() returned

rendezVars == <<qlockVars, sleepers, asleep, awakened>>

NoCount == -1

-----------------------------------------------------------------------------
(* t runs its own code.                                                    *)
AtWork(t) == Free(t) /\ asleep[t] = NoRdz

(* Mutant of SleepUnlocked: the lock goes over but nobody is readied.      *)
SleepLost(t, r) ==
  /\ IF Guard[r] = NoLock THEN UNCHANGED <<owner, waiting, held>>
     ELSE Handover(t, Guard[r])
  /\ Block(t, <<>>)

(* qunlock() by a task that goes on to sleep.                              *)
SleepUnlocked(t, r) ==
  IF Guard[r] = NoLock
  THEN UNCHANGED <<owner, waiting, held>> /\ Block(t, <<>>)
  ELSE /\ Handover(t, Guard[r])
       /\ IF owner[Guard[r]] = NoTask THEN Abort(t) ELSE Block(t, NewOwner(Guard[r]))

(* tasksleep() up to taskswitch(); the guard is locked by its caller.      *)
tasksleep(t, r) ==
  /\ AtWork(t)
  /\ Guard[r] = NoLock \/ Guard[r] \in held[t]
  /\ sleepers' = [sleepers EXCEPT ![r] = Append(@, t)]
  /\ asleep' = [asleep EXCEPT ![t] = r]
  /\ SleepUnlocked(t, r)
  /\ UNCHANGED <<wants, awakened>>

(* Mutant of tasksleepWakes: the sleeper goes on without its lock.         *)
tasksleepUnlocked(t) ==
  /\ Free(t) /\ asleep[t] # NoRdz
  /\ UNCHANGED qlockVars
  /\ asleep' = [asleep EXCEPT ![t] = NoRdz]
  /\ UNCHANGED <<sleepers, awakened>>

(* The rest of tasksleep(), when the task has been woken: qlock() of the   *)
(* guard, in which the task may be parked once more.                       *)
tasksleepWakes(t) ==
  /\ Free(t) /\ asleep[t] # NoRdz
  /\ LET l == Guard[asleep[t]]
         up == asleep' = [asleep EXCEPT ![t] = NoRdz]
     IN  \/ l = NoLock /\ up /\ UNCHANGED qlockVars
         \/ l # NoLock /\ Acquire(t, l) /\ up
         \/ l # NoLock /\ Enqueue(t, l) /\ UNCHANGED asleep
  /\ UNCHANGED <<sleepers, awakened>>

(* _taskwakeup() of the first n sleepers.                                  *)
Wakeup(t, r, n) ==
  /\ sleepers' = [sleepers EXCEPT ![r] = SubSeq(@, n + 1, Len(@))]
  /\ Wake(t, SubSeq(sleepers[r], 1, n))
  /\ UNCHANGED <<lockVars, asleep>>

taskwakeup(t, r) ==
  LET n == IF sleepers[r] = <<>> THEN 0 ELSE 1
  IN  AtWork(t) /\ Wakeup(t, r, n) /\ awakened' = n

taskwakeupall(t, r) ==
  AtWork(t) /\ Wakeup(t, r, Len(sleepers[r])) /\ awakened' = NoCount

-----------------------------------------------------------------------------
RendezInit ==
  /\ Init
  /\ sleepers = [r \in Rdz |-> <<>>]
  /\ asleep = [t \in Task |-> NoRdz]
  /\ awakened = NoCount

(* The calls of qlock.c.                                                   *)
Locking(t, l) ==
  /\ AtWork(t)
  /\ qlock(t, l) \/ canqlockFails(t, l) \/ qunlock(t, l)
  /\ UNCHANGED <<sleepers, asleep, awakened>>

(* _qlock() returns to its caller, which may be tasksleep().               *)
LockReturns(t) ==
  /\ qlockReturns(t)
  /\ asleep' = [asleep EXCEPT ![t] = NoRdz]
  /\ UNCHANGED <<sleepers, awakened>>

BetweenCalls(t) ==
  AtWork(t) /\ Elsewhere(t) /\ UNCHANGED <<sleepers, asleep, awakened>>

Kernel ==
  /\ Dispatch \/ End
  /\ awakened' = NoCount
  /\ UNCHANGED <<lockVars, sleepers, asleep>>

(* A step of t inside qlock.c or rendez.c.                                 *)
RendezStep(t) ==
  \/ \E l \in Lock : Locking(t, l)
  \/ \E r \in Rdz : tasksleep(t, r) \/ taskwakeup(t, r) \/ taskwakeupall(t, r)
  \/ tasksleepWakes(t) \/ LockReturns(t)

RendezNext ==
  \/ \E t \in Task : RendezStep(t) \/ BetweenCalls(t)
  \/ Kernel
  \/ ended /\ UNCHANGED rendezVars

RendezSpec == RendezInit /\ [][RendezNext]_rendezVars
-----------------------------------------------------------------------------
(* A wait list of a Rendez holds the parked tasks asleep on it, each once. *)
(* A sleeper has let go of the lock of its Rendez.                         *)
SleepInv ==
  /\ \A r \in Rdz :
       /\ IsInjective(sleepers[r])
       /\ Range(sleepers[r]) =
            {t \in Parked : asleep[t] = r /\ wants[t] = NoLock}
  /\ \A t \in Task : asleep[t] # NoRdz => Guard[asleep[t]] \notin held[t]

(* tasksleep() returns with the lock of its Rendez held again, however     *)
(* many tasks were woken with it.                                          *)
Relocked ==
  [][\A t \in Task :
       asleep[t] # NoRdz /\ asleep'[t] = NoRdz /\ Guard[asleep[t]] # NoLock
         => Guard[asleep[t]] \in held'[t]]_rendezVars

(* The comment of taskwakeup() (rendez.c:57): the number of tasks woken is *)
(* always 1.                                                               *)
WakesOne == awakened \in {NoCount, 1}
=============================================================================
