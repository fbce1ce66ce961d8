-------------------------------- MODULE QLock --------------------------------
(***************************************************************************)
(* The queuing locks of qlock.c.  qunlock() hands the lock to the first    *)
(* waiter and readies it; the waiter owns the lock before it runs again.   *)
(*                                                                         *)
(* Clients are assumed to unlock only what they have locked and not to     *)
(* exit with a lock: qunlock() does not check its caller.                  *)
(***************************************************************************)
EXTENDS Coop

CONSTANTS
  Lock,    \* the QLocks
  NoLock   \* no QLock: not waiting for any; the nil l of a Rendez

ASSUME QLockAssumption == NoLock \notin Lock

VARIABLES
  owner,    \* QLock.owner
  waiting,  \* QLock.waiting, head first
  wants,    \* the lock a task is waiting for inside _qlock()
  held      \* the locks a task has obtained from qlock() and not released

lockVars  == <<owner, waiting, wants, held>>
qlockVars == <<coopVars, lockVars>>

-----------------------------------------------------------------------------
(* t runs its own code.                                                    *)
Free(t) == Running(t) /\ wants[t] = NoLock

(* _qlock() of a free lock.                                                *)
Acquire(t, l) ==
  /\ owner[l] = NoTask
  /\ owner' = [owner EXCEPT ![l] = t]
  /\ held' = [held EXCEPT ![t] = @ \cup {l}]
  /\ UNCHANGED <<waiting, wants, coopVars>>

(* _qlock() of a busy lock, up to taskswitch(); the owner may be t itself. *)
Enqueue(t, l) ==
  /\ owner[l] # NoTask
  /\ waiting' = [waiting EXCEPT ![l] = Append(@, t)]
  /\ wants' = [wants EXCEPT ![t] = l]
  /\ Block(t, <<>>)
  /\ UNCHANGED <<owner, held>>

(* Mutant of Handover: the lock is freed although the waiter is readied.   *)
HandoverFree(t, l) ==
  /\ owner' = [owner EXCEPT ![l] = NoTask]
  /\ waiting' = [waiting EXCEPT ![l] = IF @ = <<>> THEN @ ELSE Tail(@)]
  /\ held' = [held EXCEPT ![t] = @ \ {l}]

(* Mutant of Handover: the waiter gets the lock and stays in the list.     *)
HandoverKeep(t, l) ==
  /\ owner' = [owner EXCEPT ![l] = IF waiting[l] = <<>> THEN NoTask
                                   ELSE Head(waiting[l])]
  /\ held' = [held EXCEPT ![t] = @ \ {l}]
  /\ UNCHANGED waiting

(* qunlock(): the first waiter, if any, is the new owner.                  *)
Handover(t, l) ==
  /\ owner' = [owner EXCEPT ![l] = IF waiting[l] = <<>> THEN NoTask
                                   ELSE Head(waiting[l])]
  /\ waiting' = [waiting EXCEPT ![l] = IF @ = <<>> THEN @ ELSE Tail(@)]
  /\ held' = [held EXCEPT ![t] = @ \ {l}]

(* The task qunlock() readies.                                             *)
NewOwner(l) == IF waiting[l] = <<>> THEN <<>> ELSE <<Head(waiting[l])>>

(* qlock(), and canqlock() of a free lock.                                 *)
qlock(t, l) == Free(t) /\ (Acquire(t, l) \/ Enqueue(t, l))

(* canqlock() of a busy lock returns 0 and changes nothing.                *)
canqlockFails(t, l) == Free(t) /\ owner[l] # NoTask /\ UNCHANGED qlockVars

(* A waiter runs again after taskswitch() in _qlock().                     *)
qlockReturns(t) ==
  /\ Running(t) /\ wants[t] # NoLock
  /\ wants' = [wants EXCEPT ![t] = NoLock]
  /\ held' = [held EXCEPT ![t] = @ \cup {wants[t]}]
  /\ IF owner[wants[t]] = t THEN UNCHANGED coopVars ELSE Abort(t)
  /\ UNCHANGED <<owner, waiting>>

qunlock(t, l) ==
  /\ Free(t) /\ l \in held[t]
  /\ Handover(t, l)
  /\ IF owner[l] = NoTask THEN Abort(t) ELSE Wake(t, NewOwner(l))
  /\ UNCHANGED wants

(* What a task does between calls.                                         *)
Elsewhere(t) ==
  /\ Free(t)
  /\ Yield(t) \/ (held[t] = {} /\ Exit(t))
  /\ UNCHANGED lockVars

-----------------------------------------------------------------------------
(* Locks are zeroed memory.                                                *)
Init ==
  /\ AllReady
  /\ owner = [l \in Lock |-> NoTask]
  /\ waiting = [l \in Lock |-> <<>>]
  /\ wants = [t \in Task |-> NoLock]
  /\ held = [t \in Task |-> {}]

(* A step of t inside qlock.c.                                             *)
QLockStep(t) ==
  \/ \E l \in Lock : qlock(t, l) \/ canqlockFails(t, l) \/ qunlock(t, l)
  \/ qlockReturns(t)

Next ==
  \/ \E t \in Task : QLockStep(t) \/ Elsewhere(t)
  \/ (Dispatch \/ End) /\ UNCHANGED lockVars
  \/ ended /\ UNCHANGED qlockVars

Spec == Init /\ [][Next]_qlockVars

-----------------------------------------------------------------------------
(* The types of the variables.                                             *)
TypeOK ==
  /\ owner \in [Lock -> Task \cup {NoTask}]
  /\ waiting \in [Lock -> Seq(Task)]
  /\ wants \in [Task -> Lock \cup {NoLock}]
  /\ held \in [Task -> SUBSET Lock]

(* Mutual exclusion (README:213-214): who has returned from qlock() is the *)
(* owner until it unlocks, so no two tasks hold a lock; and the "oops" and *)
(* "owner=0" aborts of qlock.c are never reached.                          *)
MutexInv ==
  /\ \A t \in Task : \A l \in held[t] : owner[l] = t
  /\ ended => running = NoTask

(* The wait list of a lock holds the parked callers of qlock(), each once; *)
(* nobody waits for a free lock, and an owner that has not returned from   *)
(* qlock() yet is on its way (a Task has one pair of list links, so it     *)
(* must never be on two lists).                                            *)
WaitInv ==
  \A l \in Lock :
    /\ IsInjective(waiting[l])
    /\ Range(waiting[l]) = {t \in Parked : wants[t] = l}
    /\ waiting[l] # <<>> => owner[l] # NoTask
    /\ owner[l] # NoTask =>
         l \in held[owner[l]] \/ (wants[owner[l]] = l /\ owner[l] \notin Parked)
=============================================================================
