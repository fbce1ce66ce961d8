----------------------------- MODULE LocksProofs -----------------------------
(***************************************************************************)
(* Theorems about the locks of qlock.c and the Rendezes of rendez.c used   *)
(* together (module Locks), for every set of tasks, locks and Rendezes.    *)
(*                                                                         *)
(* The inductive invariant is IInv.  Mutual exclusion alone is not         *)
(* inductive: qunlock() makes the head of the wait list the owner, so the  *)
(* list must hold parked tasks that want this lock and nothing else, and a *)
(* task that was readied must find itself the owner (GrantInv).  A task    *)
(* waits for one thing at a time (OneWait): this is why a step of one      *)
(* primitive cannot touch the waiters of another.                          *)
(***************************************************************************)
EXTENDS Locks, CoopFacts

(* A task that was readied inside _qlock() already owns the lock.          *)
GrantInv ==
  \A t \in Task : wants[t] # NoLock /\ t \notin Parked => owner[wants[t]] = t

(* A sleeper that waits for a lock waits for the one of its Rendez.        *)
AsleepInv ==
  /\ sleepers \in [Rdz -> Seq(Task)]
  /\ asleep \in [Task -> Rdz \cup {NoRdz}]
  /\ \A t \in Task :
       asleep[t] # NoRdz /\ wants[t] # NoLock => wants[t] = Guard[asleep[t]]

(* Every parked task waits inside qlock.c or rendez.c, and a task waits    *)
(* for the reader-writer lock or for something else, never for both.       *)
OneWait ==
  /\ \A t \in Parked : Waits(t)
  /\ \A t \in Task :
       mode[t] \in {"rwait", "wwait"} => wants[t] = NoLock /\ asleep[t] = NoRdz

QLockPart == TypeOK /\ MutexInv /\ WaitInv /\ GrantInv
SleepPart == AsleepInv /\ SleepInv
RWPart    == RWTypeOK /\ ExclusionInv /\ RWWaitInv

IInv == CoopOK /\ QLockPart /\ SleepPart /\ RWPart /\ OneWait

-----------------------------------------------------------------------------
(* Taking a free lock.                                                     *)
LEMMA AcquireKeeps ==
  ASSUME CoopOK, QLockPart, NEW t \in Task, NEW l \in Lock, Acquire(t, l)
  PROVE  CoopOK' /\ Parked' = Parked /\ QLockPart'
<1> USE DEF QLockPart
<1>1. /\ owner[l] = NoTask /\ owner' = [owner EXCEPT ![l] = t]
      /\ held' = [held EXCEPT ![t] = @ \cup {l}]
      /\ waiting' = waiting /\ wants' = wants /\ UNCHANGED coopVars
  BY DEF Acquire
<1>2. CoopOK' /\ Parked' = Parked
  BY <1>1, IdleEffect
<1>3. TypeOK'
  BY <1>1 DEF TypeOK
<1>4. MutexInv'
  <2>1. ended' => running' = NoTask
    BY <1>1 DEF MutexInv, coopVars
  <2>2. ASSUME NEW u \in Task, NEW k \in held'[u] PROVE owner'[k] = u
    <3>1. CASE k = l
      <4>1. l \notin held[u]
        BY <1>1, CoopAssumption DEF MutexInv
      <4> QED BY <1>1, <3>1, <4>1, <2>2 DEF TypeOK
    <3>2. CASE k # l
      BY <1>1, <3>2, <2>2 DEF TypeOK, MutexInv
    <3> QED BY <3>1, <3>2
  <2> QED BY <2>1, <2>2 DEF MutexInv
<1>5. WaitInv'
  BY <1>1, <1>2 DEF WaitInv, TypeOK
<1>6. GrantInv'
  BY <1>1, <1>2, CoopAssumption DEF GrantInv, TypeOK
<1> QED BY <1>2, <1>3, <1>4, <1>5, <1>6

(* Queueing for a busy lock.                                               *)
LEMMA EnqueueKeeps ==
  ASSUME CoopOK, QLockPart, NEW t \in Task, NEW l \in Lock, wants[t] = NoLock,
         Enqueue(t, l)
  PROVE  /\ CoopOK' /\ Parked' = Parked \cup {t} /\ t \notin Parked /\ CoopNext
         /\ QLockPart'
<1> USE DEF QLockPart
<1>1. /\ owner[l] # NoTask /\ waiting' = [waiting EXCEPT ![l] = Append(@, t)]
      /\ wants' = [wants EXCEPT ![t] = l] /\ Block(t, <<>>)
      /\ owner' = owner /\ held' = held
  BY DEF Enqueue
<1>2. /\ CoopOK' /\ Parked' = Parked \cup {t} /\ t \notin Parked /\ CoopNext
      /\ ~ended'
  BY <1>1, MayWakeOne, BlockEffect
<1>3. /\ Append(waiting[l], t) \in Seq(Task)
      /\ Range(Append(waiting[l], t)) = Range(waiting[l]) \cup {t}
      /\ IsInjective(Append(waiting[l], t))
  BY <1>2, AppendToQueue DEF TypeOK, WaitInv
<1>4. TypeOK'
  BY <1>1, <1>3 DEF TypeOK
<1>5. MutexInv'
  BY <1>1, <1>2 DEF MutexInv
<1>6. WaitInv'
  <2> SUFFICES ASSUME NEW k \in Lock
               PROVE  /\ IsInjective(waiting'[k])
                      /\ Range(waiting'[k]) = {u \in Parked' : wants'[u] = k}
                      /\ waiting'[k] # <<>> => owner'[k] # NoTask
                      /\ owner'[k] # NoTask =>
                           \/ k \in held'[owner'[k]]
                           \/ wants'[owner'[k]] = k /\ owner'[k] \notin Parked'
    BY DEF WaitInv
  <2>1. owner'[k] # NoTask =>
          \/ k \in held'[owner'[k]]
          \/ wants'[owner'[k]] = k /\ owner'[k] \notin Parked'
    <3>1. owner'[k] # NoTask =>
            \/ k \in held[owner[k]]
            \/ wants[owner[k]] = k /\ owner[k] \notin Parked
      BY <1>1 DEF WaitInv
    <3>2. wants[owner[k]] = k => owner[k] # t
      BY QLockAssumption
    <3> QED BY <1>1, <1>2, <3>1, <3>2 DEF TypeOK
  <2>2. waiting'[k] # <<>> => owner'[k] # NoTask
    BY <1>1 DEF WaitInv, TypeOK
  <2>3. CASE k = l
    <3>1. {u \in Parked' : wants'[u] = l} = {u \in Parked : wants[u] = l} \cup {t}
      BY <1>1, <1>2, ParkedFacts DEF TypeOK
    <3>2. waiting'[k] = Append(waiting[l], t)
      BY <1>1, <2>3 DEF TypeOK
    <3>3. Range(waiting[l]) = {u \in Parked : wants[u] = l}
      BY DEF WaitInv
    <3> QED BY <1>3, <2>1, <2>2, <2>3, <3>1, <3>2, <3>3
  <2>4. CASE k # l
    <3>1. {u \in Parked' : wants'[u] = k} = {u \in Parked : wants[u] = k}
      BY <1>1, <1>2, <2>4, ParkedFacts, QLockAssumption DEF TypeOK
    <3>2. waiting'[k] = waiting[k]
      BY <1>1, <2>4 DEF TypeOK
    <3> QED BY <2>1, <2>2, <3>1, <3>2 DEF WaitInv
  <2> QED BY <2>3, <2>4
<1>7. GrantInv'
  BY <1>1, <1>2 DEF GrantInv, TypeOK
<1> QED BY <1>2, <1>4, <1>5, <1>6, <1>7

(* The task that qunlock() readies is parked and waits for this lock.      *)
LEMMA NewOwnerFacts ==
  ASSUME CoopOK, QLockPart, NEW l \in Lock
  PROVE  /\ MayWake(NewOwner(l))
         /\ \A u \in Range(NewOwner(l)) : wants[u] = l /\ u \in Parked
         /\ waiting[l] = <<>> => Range(NewOwner(l)) = {}
         /\ waiting[l] # <<>> => Range(NewOwner(l)) = {Head(waiting[l])}
<1> USE DEF QLockPart
<1>1. CASE waiting[l] = <<>>
  BY <1>1, MayWakeOne DEF NewOwner
<1>2. CASE waiting[l] # <<>>
  <2>1. Head(waiting[l]) \in Range(waiting[l])
    BY <1>2, PopQueue DEF TypeOK, WaitInv
  <2>2. Head(waiting[l]) \in Parked /\ wants[Head(waiting[l])] = l
    BY <2>1 DEF WaitInv
  <2> QED BY <1>2, <2>2, MayWakeOne DEF NewOwner
<1> QED BY <1>1, <1>2

(* Handing a lock over to the first waiter, which is readied.              *)
LEMMA HandoverKeeps ==
  ASSUME CoopOK, QLockPart, NEW t \in Task, NEW l \in Lock, l \in held[t],
         wants[t] = NoLock, t \notin Parked, Handover(t, l), wants' = wants,
         CoopOK', ended' => running' = NoTask,
         \A u \in Task : wants[u] # NoLock =>
           (u \in Parked' <=> u \in Parked /\ u \notin Range(NewOwner(l)))
  PROVE  QLockPart'
<1> USE DEF QLockPart
<1> DEFINE h == Head(waiting[l])
<1>1. /\ owner' = [owner EXCEPT ![l] = IF waiting[l] = <<>> THEN NoTask ELSE h]
      /\ waiting' = [waiting EXCEPT ![l] = IF @ = <<>> THEN @ ELSE Tail(@)]
      /\ held' = [held EXCEPT ![t] = @ \ {l}]
  BY DEF Handover
<1>2. owner[l] = t /\ NoTask \notin Task
  BY CoopAssumption DEF MutexInv
<1>3. ASSUME waiting[l] # <<>>
      PROVE  /\ h \in Parked /\ h \in Task /\ wants[h] = l /\ h # t
             /\ Tail(waiting[l]) \in Seq(Task) /\ IsInjective(Tail(waiting[l]))
             /\ Range(Tail(waiting[l])) = Range(waiting[l]) \ {h}
             /\ h \notin Parked'
  <2>1. /\ h \in Range(waiting[l])
        /\ Tail(waiting[l]) \in Seq(Task) /\ IsInjective(Tail(waiting[l]))
        /\ Range(Tail(waiting[l])) = Range(waiting[l]) \ {h}
    BY <1>3, PopQueue DEF TypeOK, WaitInv
  <2>2. h \in Parked /\ wants[h] = l /\ h \in Task
    BY <2>1, ParkedFacts DEF WaitInv
  <2>3. h \notin Parked'
    BY <1>3, <2>2, NewOwnerFacts, QLockAssumption
  <2> QED BY <2>1, <2>2, <2>3
<1>4. TypeOK'
  <2>1. (IF waiting[l] = <<>> THEN NoTask ELSE h) \in Task \cup {NoTask}
    BY <1>3
  <2>2. (IF waiting[l] = <<>> THEN waiting[l] ELSE Tail(waiting[l])) \in Seq(Task)
    BY <1>3 DEF TypeOK
  <2> QED BY <1>1, <2>1, <2>2 DEF TypeOK
<1>5. MutexInv'
  <2>1. ASSUME NEW u \in Task, NEW k \in held'[u] PROVE owner'[k] = u
    <3>1. k \in held[u] /\ owner[k] = u /\ k \in Lock
      BY <1>1, <2>1 DEF TypeOK, MutexInv
    <3>2. k # l
      BY <1>1, <1>2, <2>1, <3>1 DEF TypeOK
    <3> QED BY <1>1, <3>1, <3>2 DEF TypeOK
  <2> QED BY <2>1 DEF MutexInv
<1>6. ASSUME NEW k \in Lock
      PROVE  /\ IsInjective(waiting'[k])
             /\ Range(waiting'[k]) = {u \in Parked' : wants'[u] = k}
             /\ waiting'[k] # <<>> => owner'[k] # NoTask
             /\ owner'[k] # NoTask =>
                  \/ k \in held'[owner'[k]]
                  \/ wants'[owner'[k]] = k /\ owner'[k] \notin Parked'
  <2>1. Parked \subseteq Task /\ Parked' \subseteq Task
    BY ParkedFacts DEF CoopOK, Parked
  <2>2. CASE k # l
    <3>1. waiting'[k] = waiting[k] /\ owner'[k] = owner[k]
      BY <1>1, <2>2 DEF TypeOK
    <3>2. \A u \in Task : k \in held[u] => k \in held'[u]
      BY <1>1, <2>2 DEF TypeOK
    <3>3. \A u \in Task : wants[u] = k => (u \in Parked' <=> u \in Parked)
      BY <2>2, NewOwnerFacts, QLockAssumption
    <3>4. {u \in Parked' : wants'[u] = k} = {u \in Parked : wants[u] = k}
      BY <2>1, <3>3
    <3>5. owner[k] # NoTask => owner[k] \in Task
      BY DEF TypeOK
    <3> QED BY <3>1, <3>2, <3>3, <3>4, <3>5 DEF WaitInv
  <2>3. CASE k = l /\ waiting[l] = <<>>
    <3>1. waiting'[k] = waiting[l] /\ owner'[k] = NoTask
      BY <1>1, <2>3 DEF TypeOK
    <3>2. \A u \in Task : wants[u] = k => (u \in Parked' <=> u \in Parked)
      BY <2>3, NewOwnerFacts, QLockAssumption
    <3>3. {u \in Parked' : wants'[u] = k} = {u \in Parked : wants[u] = k}
      BY <2>1, <3>2
    <3> QED BY <2>3, <3>1, <3>3 DEF WaitInv
  <2>4. CASE k = l /\ waiting[l] # <<>>
    <3>1. waiting'[k] = Tail(waiting[l]) /\ owner'[k] = h
      BY <1>1, <2>4 DEF TypeOK
    <3>2. Range(NewOwner(l)) = {h}
      BY <2>4, NewOwnerFacts
    <3>3. {u \in Parked' : wants'[u] = k} = {u \in Parked : wants[u] = k} \ {h}
      BY <2>1, <2>4, <3>2, QLockAssumption
    <3>4. Range(waiting[l]) = {u \in Parked : wants[u] = l}
      BY DEF WaitInv
    <3>5. h \in Task /\ wants[h] = l /\ h \notin Parked' /\ IsInjective(Tail(waiting[l]))
          /\ Range(Tail(waiting[l])) = Range(waiting[l]) \ {h}
      BY <1>3, <2>4
    <3> HIDE DEF h
    <3> QED BY <1>2, <2>4, <3>1, <3>3, <3>4, <3>5
  <2> QED BY <2>2, <2>3, <2>4
<1>7. WaitInv'
  BY <1>6 DEF WaitInv
<1>8. GrantInv'
  <2> SUFFICES ASSUME NEW u \in Task, wants[u] # NoLock, u \notin Parked'
               PROVE  owner'[wants[u]] = u
    BY DEF GrantInv
  <2>1. CASE u \in Parked
    <3>1. u \in Range(NewOwner(l)) /\ wants[u] = l
      BY <2>1, NewOwnerFacts
    <3>2. waiting[l] # <<>> /\ u = h
      BY <3>1, NewOwnerFacts
    <3> QED BY <1>1, <3>1, <3>2 DEF TypeOK
  <2>2. CASE u \notin Parked
    <3>1. owner[wants[u]] = u /\ wants[u] \in Lock
      BY <2>2 DEF GrantInv, TypeOK
    <3>2. wants[u] # l
      BY <1>2, <3>1
    <3> QED BY <1>1, <3>1, <3>2 DEF TypeOK
  <2> QED BY <2>1, <2>2
<1> QED BY <1>4, <1>5, <1>7, <1>8

(* A task that was handed a lock runs again: it finds itself the owner.    *)
LEMMA ReturnKeeps ==
  ASSUME CoopOK, QLockPart, NEW t \in Task, qlockReturns(t)
  PROVE  /\ CoopOK' /\ UNCHANGED coopVars /\ QLockPart' /\ t \notin Parked
         /\ wants[t] \in Lock
<1> USE DEF QLockPart
<1>1. /\ Running(t) /\ wants[t] # NoLock /\ owner' = owner /\ waiting' = waiting
      /\ wants' = [wants EXCEPT ![t] = NoLock]
      /\ held' = [held EXCEPT ![t] = @ \cup {wants[t]}]
      /\ IF owner[wants[t]] = t THEN UNCHANGED coopVars ELSE Abort(t)
  BY DEF qlockReturns
<1>2. t \notin Parked /\ wants[t] \in Lock
  BY <1>1, ParkedFacts DEF Running, TypeOK
<1>3. owner[wants[t]] = t
  BY <1>1, <1>2 DEF GrantInv
<1>4. UNCHANGED coopVars /\ CoopOK' /\ Parked' = Parked
  BY <1>1, <1>3, IdleEffect
<1>5. TypeOK'
  BY <1>1, <1>2 DEF TypeOK
<1>6. MutexInv'
  <2>1. ended' => running' = NoTask
    BY <1>4 DEF MutexInv, coopVars
  <2>2. ASSUME NEW u \in Task, NEW k \in held'[u] PROVE owner[k] = u
    BY <1>1, <1>3, <2>2 DEF TypeOK, MutexInv
  <2> QED BY <1>1, <2>1, <2>2 DEF MutexInv
<1>7. WaitInv'
  <2> SUFFICES ASSUME NEW k \in Lock
               PROVE  /\ Range(waiting[k]) = {u \in Parked : wants'[u] = k}
                      /\ owner[k] # NoTask =>
                           \/ k \in held'[owner[k]]
                           \/ wants'[owner[k]] = k /\ owner[k] \notin Parked
    BY <1>1, <1>4 DEF WaitInv
  <2>1. {u \in Parked : wants'[u] = k} = {u \in Parked : wants[u] = k}
    BY <1>1, <1>2, ParkedFacts DEF TypeOK
  <2>2. owner[k] # NoTask =>
                           \/ k \in held'[owner[k]]
                           \/ wants'[owner[k]] = k /\ owner[k] \notin Parked
    <3>1. CASE owner[k] = t
      BY <1>1, <3>1 DEF WaitInv, TypeOK
    <3>2. CASE owner[k] # t
      BY <1>1, <3>2 DEF WaitInv, TypeOK
    <3> QED BY <3>1, <3>2
  <2> QED BY <2>1, <2>2 DEF WaitInv
<1>8. GrantInv'
  BY <1>1, <1>4 DEF GrantInv, TypeOK
<1> QED BY <1>2, <1>4, <1>5, <1>6, <1>7, <1>8

-----------------------------------------------------------------------------
(* A step that neither puts a task on the list of a Rendez nor takes one   *)
(* off, and after which the tasks still asleep are as they were, except    *)
(* that one of them may have come to wait for the lock of its Rendez.      *)
LEMMA SleepFrame ==
  ASSUME CoopOK, CoopOK', SleepPart, sleepers' = sleepers,
         asleep' \in [Task -> Rdz \cup {NoRdz}],
         \A u \in Task : asleep'[u] # NoRdz =>
           /\ asleep'[u] = asleep[u] /\ held'[u] = held[u]
           /\ wants'[u] # NoLock => wants'[u] = Guard[asleep[u]],
         \A u \in Task : \A r \in Rdz :
           (u \in Parked' /\ asleep'[u] = r /\ wants'[u] = NoLock) <=>
           (u \in Parked /\ asleep[u] = r /\ wants[u] = NoLock)
  PROVE  SleepPart'
<1> USE DEF SleepPart
<1>0. Parked \subseteq Task /\ Parked' \subseteq Task
  BY ParkedFacts DEF CoopOK, Parked
<1>1. AsleepInv'
  BY DEF AsleepInv
<1>2. ASSUME NEW r \in Rdz
      PROVE  {u \in Parked' : asleep'[u] = r /\ wants'[u] = NoLock} =
             {u \in Parked : asleep[u] = r /\ wants[u] = NoLock}
  BY <1>0
<1>3. SleepInv'
  BY <1>2 DEF SleepInv
<1> QED BY <1>1, <1>3

(* A task goes to sleep: it is put on the list, parked, without the lock.  *)
LEMMA FallAsleep ==
  ASSUME CoopOK, CoopOK', TypeOK, SleepPart, NEW t \in Task, NEW r \in Rdz,
         asleep[t] = NoRdz, wants[t] = NoLock, wants' = wants,
         t \notin Parked, t \in Parked',
         sleepers' = [sleepers EXCEPT ![r] = Append(@, t)],
         asleep' = [asleep EXCEPT ![t] = r],
         Guard[r] \notin held'[t],
         \A u \in Task \ {t} : held'[u] = held[u],
         \A u \in Task \ {t} : wants[u] = NoLock => (u \in Parked' <=> u \in Parked)
  PROVE  SleepPart'
<1> USE DEF SleepPart
<1>0. Parked \subseteq Task /\ Parked' \subseteq Task
  BY ParkedFacts DEF CoopOK, Parked
<1>1. /\ Append(sleepers[r], t) \in Seq(Task) /\ IsInjective(Append(sleepers[r], t))
      /\ Range(Append(sleepers[r], t)) = Range(sleepers[r]) \cup {t}
  BY AppendToQueue DEF AsleepInv, SleepInv
<1>2. AsleepInv'
  BY <1>1 DEF AsleepInv
<1>3. ASSUME NEW k \in Rdz
      PROVE  /\ IsInjective(sleepers'[k])
             /\ Range(sleepers'[k]) =
                  {u \in Parked' : asleep'[u] = k /\ wants'[u] = NoLock}
  <2>1. Range(sleepers[k]) = {u \in Parked : asleep[u] = k /\ wants[u] = NoLock}
    BY DEF SleepInv
  <2>2. CASE k = r
    <3>1. sleepers'[k] = Append(sleepers[r], t)
      BY <2>2 DEF AsleepInv
    <3>2. {u \in Parked' : asleep'[u] = k /\ wants'[u] = NoLock} =
          {u \in Parked : asleep[u] = k /\ wants[u] = NoLock} \cup {t}
      BY <1>0, <2>2 DEF AsleepInv
    <3> QED BY <1>1, <2>1, <2>2, <3>1, <3>2
  <2>3. CASE k # r
    <3>1. sleepers'[k] = sleepers[k]
      BY <2>3 DEF AsleepInv
    <3>2. {u \in Parked' : asleep'[u] = k /\ wants'[u] = NoLock} =
          {u \in Parked : asleep[u] = k /\ wants[u] = NoLock}
      BY <1>0, <2>3, RendezAssumption DEF AsleepInv
    <3> QED BY <3>1, <3>2 DEF SleepInv
  <2> QED BY <2>2, <2>3
<1>4. ASSUME NEW u \in Task, asleep'[u] # NoRdz PROVE Guard[asleep'[u]] \notin held'[u]
  <2>1. CASE u = t
    BY <2>1 DEF AsleepInv
  <2>2. CASE u # t
    BY <1>4, <2>2 DEF AsleepInv, SleepInv
  <2> QED BY <2>1, <2>2
<1>5. SleepInv'
  BY <1>3, <1>4 DEF SleepInv
<1> QED BY <1>2, <1>5

(* The first n sleepers of a Rendez are tasks that may be woken.           *)
LEMMA SleepersFacts ==
  ASSUME CoopOK, SleepPart, NEW r \in Rdz, NEW n \in 0..Len(sleepers[r])
  PROVE  LET ws == SubSeq(sleepers[r], 1, n)
         IN  /\ MayWake(ws)
             /\ \A u \in Range(ws) : asleep[u] = r /\ wants[u] = NoLock /\ u \in Parked
<1> USE DEF SleepPart
<1> DEFINE ws == SubSeq(sleepers[r], 1, n)
<1>1. sleepers[r] \in Seq(Task) /\ IsInjective(sleepers[r])
  BY DEF AsleepInv, SleepInv
<1>2. ws \in Seq(Task) /\ IsInjective(ws) /\ Range(ws) \subseteq Range(sleepers[r])
  BY <1>1, SplitQueue
<1>3. Range(sleepers[r]) = {u \in Parked : asleep[u] = r /\ wants[u] = NoLock}
  BY DEF SleepInv
<1> HIDE DEF ws
<1>4. MayWake(ws)
  BY <1>2, <1>3 DEF MayWake
<1>5. \A u \in Range(ws) : asleep[u] = r /\ wants[u] = NoLock /\ u \in Parked
  BY <1>2, <1>3
<1> QED BY <1>4, <1>5 DEF ws

(* Waking the first n sleepers takes them, and only them, off the list.    *)
LEMMA WakeupKeeps ==
  ASSUME CoopOK, QLockPart, SleepPart, NEW t \in Task, NEW r \in Rdz,
         NEW n \in 0..Len(sleepers[r]), Wakeup(t, r, n)
  PROVE  /\ CoopOK' /\ CoopNext /\ QLockPart' /\ SleepPart'
         /\ \A u \in Task : u \in Parked' <=>
              u \in Parked /\ u \notin Range(SubSeq(sleepers[r], 1, n))
<1> DEFINE ws == SubSeq(sleepers[r], 1, n)
           rest == SubSeq(sleepers[r], n + 1, Len(sleepers[r]))
<1>1. /\ sleepers' = [sleepers EXCEPT ![r] = rest]
      /\ Wake(t, ws) /\ asleep' = asleep
      /\ owner' = owner /\ waiting' = waiting /\ wants' = wants /\ held' = held
  BY DEF Wakeup, lockVars
<1>2. /\ MayWake(ws)
      /\ \A u \in Range(ws) : asleep[u] = r /\ wants[u] = NoLock /\ u \in Parked
  BY SleepersFacts
<1>3. /\ rest \in Seq(Task) /\ IsInjective(rest)
      /\ Range(rest) = Range(sleepers[r]) \ Range(ws)
  BY SplitQueue DEF SleepPart, AsleepInv, SleepInv
<1> HIDE DEF ws, rest
<1>4. CoopOK' /\ Parked' = Parked \ Range(ws) /\ CoopNext /\ ~ended'
  BY <1>1, <1>2, WakeEffect
<1>5. QLockPart'
  <2> USE DEF QLockPart
  <2>1. TypeOK' /\ MutexInv'
    BY <1>1, <1>4 DEF TypeOK, MutexInv
  <2>2. ASSUME NEW k \in Lock
        PROVE  {u \in Parked' : wants[u] = k} = {u \in Parked : wants[u] = k}
    BY <1>2, <1>4, QLockAssumption
  <2>3. WaitInv'
    BY <1>1, <1>4, <2>2 DEF WaitInv
  <2>4. GrantInv'
    BY <1>1, <1>2, <1>4 DEF GrantInv
  <2> QED BY <2>1, <2>3, <2>4
<1>6. SleepPart'
  <2> USE DEF SleepPart
  <2>1. AsleepInv'
    BY <1>1, <1>3 DEF AsleepInv
  <2>2. ASSUME NEW k \in Rdz
        PROVE  /\ IsInjective(sleepers'[k])
               /\ Range(sleepers'[k]) =
                    {u \in Parked' : asleep[u] = k /\ wants[u] = NoLock}
    <3>1. Range(sleepers[k]) = {u \in Parked : asleep[u] = k /\ wants[u] = NoLock}
      BY DEF SleepInv
    <3>2. CASE k = r
      <4>1. sleepers'[k] = rest
        BY <1>1, <3>2 DEF AsleepInv
      <4> QED BY <1>3, <1>4, <3>1, <3>2, <4>1
    <3>3. CASE k # r
      <4>1. sleepers'[k] = sleepers[k]
        BY <1>1, <3>3 DEF AsleepInv
      <4>2. {u \in Parked' : asleep[u] = k /\ wants[u] = NoLock} =
            {u \in Parked : asleep[u] = k /\ wants[u] = NoLock}
        BY <1>2, <1>4, <3>3
      <4> QED BY <3>1, <4>1, <4>2 DEF SleepInv
    <3> QED BY <3>2, <3>3
  <2>3. SleepInv'
    BY <1>1, <2>2 DEF SleepInv
  <2> QED BY <2>1, <2>3
<1> QED BY <1>4, <1>5, <1>6 DEF ws

-----------------------------------------------------------------------------
(* The tasks that have the reader-writer lock.                             *)
Readers == Has("reading", "rwait")
Writers == Has("writing", "wwait")

(* There are finitely many readers to count.                               *)
LEMMA ReadersFinite == IsFiniteSet(Readers) /\ Cardinality(Readers) \in Nat
<1>1. Readers \in SUBSET Task
  BY DEF Readers, Has
<1> QED BY <1>1, CoopAssumption, FS_Subset, FS_CardinalityType

(* RWPart in terms of Readers and Writers.                                 *)
LEMMA RWPartIs ==
  RWPart <=> /\ RWTypeOK /\ RWWaitInv
             /\ readers = Cardinality(Readers) /\ Writers = {writer} \ {NoTask}
             /\ writer # NoTask => readers = 0
             /\ ended => running = NoTask
BY DEF RWPart, ExclusionInv, Readers, Writers

(* A step that leaves the lock, and who waits for it, alone.               *)
LEMMA RWFrame ==
  ASSUME CoopOK, CoopOK', RWPart, UNCHANGED rwVars, ended' => running' = NoTask,
         \A u \in Task : mode[u] \in {"rwait", "wwait"} =>
           (u \in Parked' <=> u \in Parked)
  PROVE  RWPart'
<1>0. Parked \subseteq Task /\ Parked' \subseteq Task
  BY ParkedFacts DEF CoopOK, Parked
<1>1. /\ readers' = readers /\ writer' = writer /\ rwaiting' = rwaiting
      /\ wwaiting' = wwaiting /\ mode' = mode
  BY DEF rwVars
<1>2. Readers' = Readers /\ Writers' = Writers
  BY <1>1 DEF Readers, Writers, Has
<1>3. /\ {u \in Parked' : mode[u] = "rwait"} = {u \in Parked : mode[u] = "rwait"}
      /\ {u \in Parked' : mode[u] = "wwait"} = {u \in Parked : mode[u] = "wwait"}
  BY <1>0
<1>4. RWTypeOK' /\ RWWaitInv'
  BY <1>1, <1>3 DEF RWPart, RWTypeOK, RWWaitInv
<1>5. /\ RWPart => /\ readers = Cardinality(Readers) /\ Writers = {writer} \ {NoTask}
                   /\ writer # NoTask => readers = 0
      /\ RWPart' <=> /\ RWTypeOK' /\ RWWaitInv'
                     /\ readers' = Cardinality(Readers')
                     /\ Writers' = {writer'} \ {NoTask}
                     /\ writer' # NoTask => readers' = 0
                     /\ ended' => running' = NoTask
  BY RWPartIs DEF RWPart, ExclusionInv, Readers, Writers
<1> QED BY <1>1, <1>2, <1>4, <1>5

(* rlock() of a lock that is to be had.                                    *)
LEMMA rlockKeeps ==
  ASSUME CoopOK, RWPart, NEW t \in Task, rlock(t)
  PROVE  UNCHANGED coopVars /\ mode' = [mode EXCEPT ![t] = "reading"] /\ RWPart'
<1>1. /\ mode[t] = "free" /\ writer = NoTask /\ wwaiting = <<>>
      /\ readers' = readers + 1 /\ mode' = [mode EXCEPT ![t] = "reading"]
      /\ writer' = writer /\ rwaiting' = rwaiting /\ wwaiting' = wwaiting
      /\ UNCHANGED coopVars
  BY DEF rlock, CanRead
<1>2. CoopOK' /\ Parked' = Parked /\ ended' = ended /\ running' = running
  BY <1>1, IdleEffect DEF coopVars
<1>3. mode \in [Task -> Mode] /\ readers \in Nat
  BY DEF RWPart, RWTypeOK
<1>4. Readers' = Readers \cup {t} /\ t \notin Readers /\ Writers' = Writers
  BY <1>1, <1>2, <1>3 DEF Readers, Writers, Has
<1>5. Cardinality(Readers') = Cardinality(Readers) + 1
  BY <1>4, ReadersFinite, FS_AddElement
<1>6. RWTypeOK'
  BY <1>1 DEF RWPart, RWTypeOK, Mode
<1>7. RWWaitInv'
  <2>1. /\ {u \in Parked : mode'[u] = "rwait"} = {u \in Parked : mode[u] = "rwait"}
        /\ {u \in Parked : mode'[u] = "wwait"} = {u \in Parked : mode[u] = "wwait"}
    BY <1>1, <1>3, ParkedFacts
  <2> QED BY <1>1, <1>2, <2>1 DEF RWPart, RWWaitInv
<1>8. ExclusionInv'
  BY <1>1, <1>2, <1>4, <1>5 DEF RWPart, ExclusionInv, Readers, Writers
<1> QED BY <1>1, <1>6, <1>7, <1>8 DEF RWPart

(* wlock() of a lock that is to be had.                                    *)
LEMMA wlockKeeps ==
  ASSUME CoopOK, RWPart, NEW t \in Task, wlock(t)
  PROVE  UNCHANGED coopVars /\ mode' = [mode EXCEPT ![t] = "writing"] /\ RWPart'
<1>1. /\ mode[t] = "free" /\ writer = NoTask /\ readers = 0
      /\ writer' = t /\ mode' = [mode EXCEPT ![t] = "writing"]
      /\ readers' = readers /\ rwaiting' = rwaiting /\ wwaiting' = wwaiting
      /\ UNCHANGED coopVars
  BY DEF wlock, CanWrite
<1>2. CoopOK' /\ Parked' = Parked /\ ended' = ended /\ running' = running
  BY <1>1, IdleEffect DEF coopVars
<1>3. mode \in [Task -> Mode] /\ t # NoTask
  BY CoopAssumption DEF RWPart, RWTypeOK
<1>4. Readers' = Readers /\ Writers' = Writers \cup {t}
  BY <1>1, <1>2, <1>3 DEF Readers, Writers, Has
<1>5. RWTypeOK'
  BY <1>1 DEF RWPart, RWTypeOK, Mode
<1>6. RWWaitInv'
  <2>1. /\ {u \in Parked : mode'[u] = "rwait"} = {u \in Parked : mode[u] = "rwait"}
        /\ {u \in Parked : mode'[u] = "wwait"} = {u \in Parked : mode[u] = "wwait"}
    BY <1>1, <1>3, ParkedFacts
  <2> QED BY <1>1, <1>2, <1>3, <2>1 DEF RWPart, RWWaitInv
<1>7. ExclusionInv'
  <2>1. Writers = {}
    BY <1>1 DEF RWPart, ExclusionInv, Writers
  <2> QED BY <1>1, <1>2, <1>3, <1>4, <2>1 DEF RWPart, ExclusionInv, Readers, Writers
<1> QED BY <1>1, <1>5, <1>6, <1>7 DEF RWPart

(* rlock() of a lock that is not to be had.                                *)
LEMMA rlockWaitsKeeps ==
  ASSUME CoopOK, RWPart, NEW t \in Task, rlockWaits(t)
  PROVE  /\ CoopOK' /\ CoopNext /\ Parked' = Parked \cup {t}
         /\ mode' = [mode EXCEPT ![t] = "rwait"] /\ RWPart'
<1>1. /\ mode[t] = "free" /\ (writer # NoTask \/ wwaiting # <<>>)
      /\ rwaiting' = Append(rwaiting, t) /\ mode' = [mode EXCEPT ![t] = "rwait"]
      /\ readers' = readers /\ writer' = writer /\ wwaiting' = wwaiting
      /\ Block(t, <<>>)
  BY DEF rlockWaits, CanRead
<1>2. /\ CoopOK' /\ Parked' = Parked \cup {t} /\ CoopNext /\ ~ended'
      /\ t \notin Parked /\ Parked \subseteq Task
  BY <1>1, MayWakeOne, BlockEffect, ParkedFacts
<1>3. mode \in [Task -> Mode]
  BY DEF RWPart, RWTypeOK
<1>4. Readers' = Readers /\ Writers' = Writers
  <2>1. ASSUME NEW u \in Task
        PROVE  (u \in Readers' <=> u \in Readers) /\ (u \in Writers' <=> u \in Writers)
    <3>1. CASE u = t
      BY <1>1, <1>2, <1>3, <3>1 DEF Readers, Writers, Has
    <3>2. CASE u # t
      BY <1>1, <1>2, <1>3, <3>2 DEF Readers, Writers, Has
    <3> QED BY <3>1, <3>2
  <2> QED BY <2>1 DEF Readers, Writers, Has
<1>5. /\ rwaiting' \in Seq(Task) /\ IsInjective(rwaiting')
      /\ Range(rwaiting') = Range(rwaiting) \cup {t}
  BY <1>1, <1>2, AppendToQueue DEF RWPart, RWTypeOK, RWWaitInv
<1>6. RWTypeOK'
  BY <1>1, <1>5 DEF RWPart, RWTypeOK, Mode
<1>7. RWWaitInv'
  <2>1. /\ {u \in Parked' : mode'[u] = "rwait"} =
             {u \in Parked : mode[u] = "rwait"} \cup {t}
        /\ {u \in Parked' : mode'[u] = "wwait"} = {u \in Parked : mode[u] = "wwait"}
    BY <1>1, <1>2, <1>3
  <2> QED BY <1>1, <1>5, <2>1 DEF RWPart, RWWaitInv
<1>8. ExclusionInv'
  BY <1>1, <1>2, <1>4 DEF RWPart, ExclusionInv, Readers, Writers
<1> QED BY <1>1, <1>2, <1>6, <1>7, <1>8 DEF RWPart

(* wlock() of a lock that is not to be had.                                *)
LEMMA wlockWaitsKeeps ==
  ASSUME CoopOK, RWPart, NEW t \in Task, wlockWaits(t)
  PROVE  /\ CoopOK' /\ CoopNext /\ Parked' = Parked \cup {t}
         /\ mode' = [mode EXCEPT ![t] = "wwait"] /\ RWPart'
<1>1. /\ mode[t] = "free" /\ (writer # NoTask \/ readers # 0)
      /\ wwaiting' = Append(wwaiting, t) /\ mode' = [mode EXCEPT ![t] = "wwait"]
      /\ readers' = readers /\ writer' = writer /\ rwaiting' = rwaiting
      /\ Block(t, <<>>)
  BY DEF wlockWaits, CanWrite
<1>2. /\ CoopOK' /\ Parked' = Parked \cup {t} /\ CoopNext /\ ~ended'
      /\ t \notin Parked /\ Parked \subseteq Task
  BY <1>1, MayWakeOne, BlockEffect, ParkedFacts
<1>3. mode \in [Task -> Mode] /\ readers \in Nat
  BY DEF RWPart, RWTypeOK
<1>4. Readers' = Readers /\ Writers' = Writers
  <2>1. ASSUME NEW u \in Task
        PROVE  (u \in Readers' <=> u \in Readers) /\ (u \in Writers' <=> u \in Writers)
    <3>1. CASE u = t
      BY <1>1, <1>2, <1>3, <3>1 DEF Readers, Writers, Has
    <3>2. CASE u # t
      BY <1>1, <1>2, <1>3, <3>2 DEF Readers, Writers, Has
    <3> QED BY <3>1, <3>2
  <2> QED BY <2>1 DEF Readers, Writers, Has
<1>5. /\ wwaiting' \in Seq(Task) /\ IsInjective(wwaiting')
      /\ Range(wwaiting') = Range(wwaiting) \cup {t}
  BY <1>1, <1>2, AppendToQueue DEF RWPart, RWTypeOK, RWWaitInv
<1>6. RWTypeOK'
  BY <1>1, <1>5 DEF RWPart, RWTypeOK, Mode
<1>7. RWWaitInv'
  <2>1. /\ {u \in Parked' : mode'[u] = "wwait"} =
             {u \in Parked : mode[u] = "wwait"} \cup {t}
        /\ {u \in Parked' : mode'[u] = "rwait"} = {u \in Parked : mode[u] = "rwait"}
    BY <1>1, <1>2, <1>3
  <2>2. wwaiting' # <<>>
    BY <1>5, EmptyQueue
  <2> QED BY <1>1, <1>3, <1>5, <2>1, <2>2 DEF RWPart, RWWaitInv
<1>8. ExclusionInv'
  BY <1>1, <1>2, <1>4 DEF RWPart, ExclusionInv, Readers, Writers
<1> QED BY <1>1, <1>2, <1>6, <1>7, <1>8 DEF RWPart

(* A task that was handed the lock runs again: it has had it all along.    *)
LEMMA rwReturnKeeps ==
  ASSUME CoopOK, RWPart, NEW t \in Task, rwlockReturns(t)
  PROVE  /\ UNCHANGED coopVars /\ RWPart'
         /\ \A u \in Task \ {t} : mode'[u] = mode[u]
         /\ mode'[t] \in {"reading", "writing"}
<1> DEFINE m == IF mode[t] = "rwait" THEN "reading" ELSE "writing"
<1>1. /\ Running(t) /\ mode[t] \in {"rwait", "wwait"} /\ mode' = [mode EXCEPT ![t] = m]
      /\ readers' = readers /\ writer' = writer /\ rwaiting' = rwaiting
      /\ wwaiting' = wwaiting /\ UNCHANGED coopVars
  BY DEF rwlockReturns
<1>2. /\ Parked' = Parked /\ ended' = ended /\ running' = running
      /\ t \notin Parked /\ Parked \subseteq Task
  BY <1>1, IdleEffect, ParkedFacts DEF coopVars, Running
<1>3. mode \in [Task -> Mode]
  BY DEF RWPart, RWTypeOK
<1>4. Readers' = Readers /\ Writers' = Writers
  <2>1. ASSUME NEW u \in Task
        PROVE  (u \in Readers' <=> u \in Readers) /\ (u \in Writers' <=> u \in Writers)
    <3>1. CASE u = t
      BY <1>1, <1>2, <1>3, <3>1 DEF Readers, Writers, Has
    <3>2. CASE u # t
      BY <1>1, <1>2, <1>3, <3>2 DEF Readers, Writers, Has
    <3> QED BY <3>1, <3>2
  <2> QED BY <2>1 DEF Readers, Writers, Has
<1>5. RWTypeOK'
  BY <1>1 DEF RWPart, RWTypeOK, Mode
<1>6. RWWaitInv'
  <2>1. /\ {u \in Parked : mode'[u] = "rwait"} = {u \in Parked : mode[u] = "rwait"}
        /\ {u \in Parked : mode'[u] = "wwait"} = {u \in Parked : mode[u] = "wwait"}
    BY <1>1, <1>2, <1>3
  <2> QED BY <1>1, <1>2, <2>1 DEF RWPart, RWWaitInv
<1>7. ExclusionInv'
  BY <1>1, <1>2, <1>4 DEF RWPart, ExclusionInv, Readers, Writers
<1> QED BY <1>1, <1>3, <1>5, <1>6, <1>7 DEF RWPart

(* The first waiting writer is parked and waits as a writer.               *)
LEMMA FirstWriter ==
  ASSUME CoopOK, RWPart, wwaiting # <<>>
  PROVE  LET h == Head(wwaiting)
         IN  /\ h \in Parked /\ h \in Task /\ mode[h] = "wwait" /\ h # NoTask
             /\ MayWake(<<h>>) /\ Range(<<h>>) = {h}
             /\ Tail(wwaiting) \in Seq(Task) /\ IsInjective(Tail(wwaiting))
             /\ Range(Tail(wwaiting)) = Range(wwaiting) \ {h}
<1>1. /\ Head(wwaiting) \in Range(wwaiting)
      /\ Tail(wwaiting) \in Seq(Task) /\ IsInjective(Tail(wwaiting))
      /\ Range(Tail(wwaiting)) = Range(wwaiting) \ {Head(wwaiting)}
  BY PopQueue DEF RWPart, RWTypeOK, RWWaitInv
<1>2. Head(wwaiting) \in Parked /\ mode[Head(wwaiting)] = "wwait"
  BY <1>1 DEF RWPart, RWWaitInv
<1> QED BY <1>1, <1>2, ParkedFacts, MayWakeOne

(* runlock(): the last reader hands the lock to the first waiting writer.  *)
LEMMA runlockKeeps ==
  ASSUME CoopOK, RWPart, NEW t \in Task, runlock(t)
  PROVE  /\ CoopOK' /\ CoopNext /\ RWPart' /\ mode' = [mode EXCEPT ![t] = "free"]
         /\ Parked' \subseteq Parked
         /\ \A u \in Parked \ Parked' : mode[u] = "wwait"
<1>1. /\ mode[t] = "reading" /\ Running(t) /\ HandToWriter(t, readers - 1, writer, <<>>)
      /\ mode' = [mode EXCEPT ![t] = "free"] /\ rwaiting' = rwaiting
  BY DEF runlock, Calling
<1>2. mode \in [Task -> Mode] /\ readers \in Nat /\ Parked \subseteq Task /\ t \notin Parked
  BY <1>1, ParkedFacts DEF RWPart, RWTypeOK, Running
<1>3. t \in Readers /\ readers = Cardinality(Readers)
  BY <1>1 DEF RWPart, ExclusionInv, Readers, Has
<1>4. readers # 0
  <2>1. Readers # {}
    BY <1>3
  <2> QED BY <1>3, <2>1, ReadersFinite, FS_EmptySet
<1>5. writer = NoTask /\ Writers = {} /\ readers - 1 \in Nat
  BY <1>2, <1>4 DEF RWPart, ExclusionInv, Writers
<1>6. Cardinality(Readers \ {t}) = readers - 1
  BY <1>3, ReadersFinite, FS_RemoveElement
<1>7. /\ IsInjective(rwaiting) /\ IsInjective(wwaiting)
      /\ Range(rwaiting) = {u \in Parked : mode[u] = "rwait"}
      /\ Range(wwaiting) = {u \in Parked : mode[u] = "wwait"}
      /\ rwaiting # <<>> => wwaiting # <<>>
      /\ rwaiting \in Seq(Task) /\ wwaiting \in Seq(Task)
  BY <1>5 DEF RWPart, RWWaitInv, RWTypeOK
<1>8. CASE readers - 1 = 0 /\ wwaiting # <<>>
  <2> DEFINE h == Head(wwaiting)
  <2>1. /\ readers' = 0 /\ writer' = h /\ wwaiting' = Tail(wwaiting)
        /\ Wake(t, <<>> \o <<h>>)
    BY <1>1, <1>8 DEF HandToWriter
  <2>2. /\ h \in Parked /\ h \in Task /\ mode[h] = "wwait" /\ h # NoTask
        /\ MayWake(<<h>>) /\ Range(<<h>>) = {h}
        /\ Tail(wwaiting) \in Seq(Task) /\ IsInjective(Tail(wwaiting))
        /\ Range(Tail(wwaiting)) = Range(wwaiting) \ {h}
    BY <1>8, FirstWriter
  <2>3. <<>> \o <<h>> = <<h>>
    BY <2>2
  <2> HIDE DEF h
  <2>4. /\ CoopOK' /\ Parked' = Parked \ {h} /\ CoopNext /\ ~ended'
    BY <2>1, <2>2, <2>3, WakeEffect
  <2>5. Readers' = Readers \ {t} /\ Writers' = {h}
    <3>1. ASSUME NEW u \in Task
          PROVE  /\ u \in Readers' <=> u \in Readers /\ u # t
                 /\ u \in Writers' <=> u = h
      <4>1. CASE u = t
        BY <1>1, <1>2, <2>2, <4>1 DEF Readers, Writers, Has
      <4>2. CASE u = h
        BY <1>1, <1>2, <2>2, <2>4, <4>2 DEF Readers, Writers, Has
      <4>3. CASE u # t /\ u # h
        BY <1>1, <1>2, <1>5, <2>2, <2>4, <4>3 DEF Readers, Writers, Has
      <4> QED BY <4>1, <4>2, <4>3
    <3> QED BY <2>2, <3>1 DEF Readers, Writers, Has
  <2>6. RWTypeOK'
    BY <1>1, <1>7, <2>1, <2>2 DEF RWPart, RWTypeOK, Mode
  <2>7. RWWaitInv'
    <3>1. /\ {u \in Parked' : mode'[u] = "rwait"} = {u \in Parked : mode[u] = "rwait"}
          /\ {u \in Parked' : mode'[u] = "wwait"} =
               {u \in Parked : mode[u] = "wwait"} \ {h}
      BY <1>1, <1>2, <2>2, <2>4
    <3> QED BY <1>1, <1>7, <2>1, <2>2, <3>1 DEF RWWaitInv
  <2>8. ExclusionInv'
    BY <1>6, <1>8, <2>1, <2>2, <2>4, <2>5 DEF ExclusionInv, Readers, Writers
  <2> QED BY <1>1, <2>2, <2>4, <2>6, <2>7, <2>8 DEF RWPart
<1>9. CASE ~(readers - 1 = 0 /\ wwaiting # <<>>)
  <2>1. /\ readers' = readers - 1 /\ writer' = writer /\ wwaiting' = wwaiting
        /\ Wake(t, <<>>)
    BY <1>1, <1>9 DEF HandToWriter
  <2>2. CoopOK' /\ Parked' = Parked /\ CoopNext /\ ~ended'
    BY <2>1, MayWakeOne, WakeEffect
  <2>3. Readers' = Readers \ {t} /\ Writers' = {}
    <3>1. ASSUME NEW u \in Task
          PROVE  (u \in Readers' <=> u \in Readers /\ u # t) /\ u \notin Writers'
      <4>1. CASE u = t
        BY <1>1, <1>2, <4>1 DEF Readers, Writers, Has
      <4>2. CASE u # t
        BY <1>1, <1>2, <1>5, <2>2, <4>2 DEF Readers, Writers, Has
      <4> QED BY <4>1, <4>2
    <3> QED BY <3>1 DEF Readers, Writers, Has
  <2>4. RWTypeOK'
    BY <1>1, <1>5, <2>1 DEF RWPart, RWTypeOK, Mode
  <2>5. RWWaitInv'
    <3>1. /\ {u \in Parked : mode'[u] = "rwait"} = {u \in Parked : mode[u] = "rwait"}
          /\ {u \in Parked : mode'[u] = "wwait"} = {u \in Parked : mode[u] = "wwait"}
      BY <1>1, <1>2
    <3> QED BY <1>1, <1>2, <1>4, <1>7, <1>9, <2>1, <2>2, <3>1 DEF RWWaitInv
  <2>6. ExclusionInv'
    BY <1>5, <1>6, <2>1, <2>2, <2>3 DEF ExclusionInv, Readers, Writers
  <2> QED BY <1>1, <2>2, <2>4, <2>5, <2>6 DEF RWPart
<1> QED BY <1>8, <1>9

(* wunlock(): all waiting readers get the lock, a writer only if there is  *)
(* no such reader; its tests for a writer and for readers never fail.      *)
LEMMA wunlockKeeps ==
  ASSUME CoopOK, RWPart, NEW t \in Task, wunlock(t)
  PROVE  /\ CoopOK' /\ CoopNext /\ RWPart' /\ mode' = [mode EXCEPT ![t] = "free"]
         /\ Parked' \subseteq Parked
         /\ \A u \in Parked \ Parked' : mode[u] \in {"rwait", "wwait"}
<1>1. mode[t] = "writing" /\ Running(t) /\ mode' = [mode EXCEPT ![t] = "free"]
  BY DEF wunlock, Calling
<1>2. mode \in [Task -> Mode] /\ readers \in Nat /\ Parked \subseteq Task /\ t \notin Parked
  BY <1>1, ParkedFacts DEF RWPart, RWTypeOK, Running
<1>3. writer = t /\ Writers = {t} /\ t # NoTask /\ readers = 0
  <2>1. t \in Writers /\ Writers = {writer} \ {NoTask}
    BY <1>1 DEF RWPart, ExclusionInv, Writers, Has
  <2> QED BY <2>1, CoopAssumption DEF RWPart, ExclusionInv
<1>4. Readers = {}
  BY <1>3, ReadersFinite, FS_EmptySet DEF RWPart, ExclusionInv, Readers
<1>5. rwaiting' = <<>> /\ HandToWriter(t, Len(rwaiting), NoTask, rwaiting)
  BY <1>3 DEF wunlock
<1>6. /\ IsInjective(rwaiting) /\ IsInjective(wwaiting)
      /\ Range(rwaiting) = {u \in Parked : mode[u] = "rwait"}
      /\ Range(wwaiting) = {u \in Parked : mode[u] = "wwait"}
      /\ rwaiting \in Seq(Task) /\ wwaiting \in Seq(Task)
  BY DEF RWPart, RWWaitInv, RWTypeOK
<1>7. /\ Len(rwaiting) \in Nat /\ Cardinality(Range(rwaiting)) = Len(rwaiting)
      /\ Len(rwaiting) = 0 => rwaiting = <<>>
  <2>1. Len(rwaiting) \in Nat /\ (Len(rwaiting) = 0 => rwaiting = <<>>)
    BY <1>6
  <2>2. Cardinality(Range(rwaiting)) = Len(rwaiting)
    BY <1>6, QueueLength
  <2> QED BY <2>1, <2>2
<1>8. IsInjective(<<>>) /\ Range(<<>>) = {} /\ <<>> \in Seq(Task)
  BY MayWakeOne DEF MayWake
<1>9. CASE Len(rwaiting) = 0 /\ wwaiting # <<>>
  <2> DEFINE h == Head(wwaiting)
  <2>1. /\ readers' = 0 /\ writer' = h /\ wwaiting' = Tail(wwaiting)
        /\ Wake(t, rwaiting \o <<h>>)
    BY <1>5, <1>9 DEF HandToWriter
  <2>2. /\ h \in Parked /\ h \in Task /\ mode[h] = "wwait" /\ h # NoTask
        /\ MayWake(<<h>>) /\ Range(<<h>>) = {h}
        /\ Tail(wwaiting) \in Seq(Task) /\ IsInjective(Tail(wwaiting))
        /\ Range(Tail(wwaiting)) = Range(wwaiting) \ {h}
    BY <1>9, FirstWriter
  <2>3. rwaiting \o <<h>> = <<h>>
    BY <1>7, <1>9, <2>2
  <2> HIDE DEF h
  <2>4. CoopOK' /\ Parked' = Parked \ {h} /\ CoopNext /\ ~ended'
    BY <2>1, <2>2, <2>3, WakeEffect
  <2>5. Readers' = {} /\ Writers' = {h}
    <3>1. ASSUME NEW u \in Task PROVE u \notin Readers' /\ (u \in Writers' <=> u = h)
      <4>1. CASE u = t
        BY <1>1, <1>2, <2>2, <4>1 DEF Readers, Writers, Has
      <4>2. CASE u = h
        BY <1>1, <1>2, <2>2, <2>4, <4>2 DEF Readers, Writers, Has
      <4>3. CASE u # t /\ u # h
        BY <1>1, <1>2, <1>3, <1>4, <2>4, <4>3 DEF Readers, Writers, Has
      <4> QED BY <4>1, <4>2, <4>3
    <3> QED BY <2>2, <3>1 DEF Readers, Writers, Has
  <2>6. RWTypeOK'
    BY <1>1, <1>5, <1>8, <2>1, <2>2 DEF RWPart, RWTypeOK, Mode
  <2>7. RWWaitInv'
    <3>1. /\ {u \in Parked' : mode'[u] = "rwait"} = {u \in Parked : mode[u] = "rwait"}
          /\ {u \in Parked' : mode'[u] = "wwait"} =
               {u \in Parked : mode[u] = "wwait"} \ {h}
      BY <1>1, <1>2, <2>2, <2>4
    <3>2. Range(rwaiting') = Range(rwaiting)
      BY <1>5, <1>7, <1>9
    <3> QED BY <1>5, <1>6, <1>8, <2>1, <2>2, <3>1, <3>2 DEF RWWaitInv
  <2>8. ExclusionInv'
    BY <2>1, <2>2, <2>4, <2>5, FS_EmptySet DEF ExclusionInv, Readers, Writers
  <2> QED BY <1>1, <2>2, <2>4, <2>6, <2>7, <2>8 DEF RWPart
<1>10. CASE ~(Len(rwaiting) = 0 /\ wwaiting # <<>>)
  <2>1. /\ readers' = Len(rwaiting) /\ writer' = NoTask /\ wwaiting' = wwaiting
        /\ Wake(t, rwaiting)
    BY <1>5, <1>10 DEF HandToWriter
  <2>2. MayWake(rwaiting)
    BY <1>6 DEF MayWake
  <2>3. CoopOK' /\ Parked' = Parked \ Range(rwaiting) /\ CoopNext /\ ~ended'
    BY <2>1, <2>2, WakeEffect
  <2>4. Readers' = Range(rwaiting) /\ Writers' = {}
    <3>1. ASSUME NEW u \in Task
          PROVE  (u \in Readers' <=> u \in Range(rwaiting)) /\ u \notin Writers'
      <4>1. CASE u = t
        BY <1>1, <1>2, <1>6, <4>1 DEF Readers, Writers, Has
      <4>2. CASE u # t /\ u \in Range(rwaiting)
        BY <1>1, <1>2, <1>6, <2>3, <4>2 DEF Readers, Writers, Has
      <4>3. CASE u # t /\ u \notin Range(rwaiting)
        BY <1>1, <1>2, <1>3, <1>4, <2>3, <4>3 DEF Readers, Writers, Has
      <4> QED BY <4>1, <4>2, <4>3
    <3> QED BY <1>2, <1>6, <3>1 DEF Readers, Writers, Has
  <2>5. RWTypeOK'
    BY <1>1, <1>5, <1>6, <1>7, <1>8, <2>1 DEF RWPart, RWTypeOK, Mode
  <2>6. RWWaitInv'
    <3>1. /\ {u \in Parked' : mode'[u] = "rwait"} = {}
          /\ {u \in Parked' : mode'[u] = "wwait"} = {u \in Parked : mode[u] = "wwait"}
      BY <1>1, <1>2, <1>6, <2>3
    <3> QED BY <1>5, <1>6, <1>7, <1>8, <1>10, <2>1, <3>1 DEF RWWaitInv
  <2>7. ExclusionInv'
    BY <1>7, <2>1, <2>3, <2>4 DEF ExclusionInv, Readers, Writers
  <2> QED BY <1>1, <1>6, <2>3, <2>5, <2>6, <2>7 DEF RWPart
<1> QED BY <1>9, <1>10

-----------------------------------------------------------------------------
(* The tasks that wait for the reader-writer lock are parked and not       *)
(* involved in a step of a task inside qlock() or rendez.c.                *)
LEMMA QLockStepRest ==
  ASSUME IInv, NEW t \in Task, mode[t] \notin {"rwait", "wwait"}, UNCHANGED rwVars,
         CoopOK', QLockPart', SleepPart',
         \A u \in Task \ {t} : wants'[u] = wants[u] /\ asleep'[u] = asleep[u],
         \A u \in Task \ {t} : ~(u \in Parked' <=> u \in Parked) =>
           u \in Parked /\ (wants[u] # NoLock \/ asleep[u] # NoRdz),
         t \in Parked' => wants'[t] # NoLock \/ asleep'[t] # NoRdz
  PROVE  IInv'
<1> USE DEF IInv
<1>1. mode' = mode
  BY DEF rwVars
<1>2. OneWait'
  <2>1. Parked' \subseteq Task
    BY DEF CoopOK, Parked
  <2>2. ASSUME NEW u \in Parked' PROVE Waits(u)'
    BY <1>1, <2>1, <2>2 DEF OneWait, Waits
  <2> QED BY <1>1, <2>2 DEF OneWait
<1>3. \A u \in Task : mode[u] \in {"rwait", "wwait"} => (u \in Parked' <=> u \in Parked)
  BY DEF OneWait
<1>4. RWPart'
  BY <1>3, RWFrame DEF QLockPart, MutexInv
<1> QED BY <1>2, <1>4

(* A step that leaves the locks and the Rendezes, and who waits for them,  *)
(* alone.                                                                  *)
LEMMA QLockFrame ==
  ASSUME CoopOK, CoopOK', QLockPart, SleepPart, UNCHANGED <<lockVars, sleepVars>>,
         ended' => running' = NoTask,
         \A u \in Task : wants[u] # NoLock \/ asleep[u] # NoRdz =>
           (u \in Parked' <=> u \in Parked)
  PROVE  QLockPart' /\ SleepPart'
<1>0. Parked \subseteq Task /\ Parked' \subseteq Task
  BY ParkedFacts DEF CoopOK, Parked
<1>1. /\ owner' = owner /\ waiting' = waiting /\ wants' = wants /\ held' = held
      /\ sleepers' = sleepers /\ asleep' = asleep
  BY DEF lockVars, sleepVars
<1>2. TypeOK' /\ MutexInv'
  BY <1>1 DEF QLockPart, TypeOK, MutexInv
<1>3. ASSUME NEW k \in Lock
      PROVE  {u \in Parked' : wants[u] = k} = {u \in Parked : wants[u] = k}
  BY <1>0, QLockAssumption
<1>4. WaitInv'
  <2> SUFFICES ASSUME NEW k \in Lock, owner[k] # NoTask
               PROVE  k \in held[owner[k]] \/ (wants[owner[k]] = k /\ owner[k] \notin Parked')
    BY <1>1, <1>3 DEF QLockPart, WaitInv
  <2> QED BY QLockAssumption DEF QLockPart, WaitInv, TypeOK
<1>5. GrantInv'
  BY <1>1 DEF QLockPart, GrantInv
<1>6. SleepPart'
  BY <1>1, SleepFrame, RendezAssumption DEF SleepPart, AsleepInv
<1> QED BY <1>2, <1>4, <1>5, <1>6 DEF QLockPart

(* A sleeper that gets up has the lock of its Rendez.                      *)
Relocks ==
  \A t \in Task :
    asleep[t] # NoRdz /\ asleep'[t] = NoRdz /\ Guard[asleep[t]] # NoLock
      => Guard[asleep[t]] \in held'[t]

(* qlock(), canqlock() and qunlock().                                      *)
LEMMA LockingKeeps ==
  ASSUME IInv, NEW t \in Task, NEW l \in Lock, Calling(t), Locking(t, l),
         UNCHANGED rwVars
  PROVE  IInv' /\ [CoopNext]_coopVars /\ Relocks
<1> USE DEF IInv
<1>1. /\ wants[t] = NoLock /\ asleep[t] = NoRdz /\ Running(t)
      /\ mode[t] \notin {"rwait", "wwait"}
      /\ sleepers' = sleepers /\ asleep' = asleep
  BY DEF Locking, AtWork, Free, Calling
<1>2. /\ asleep \in [Task -> Rdz \cup {NoRdz}] /\ t \notin Parked
      /\ \A u \in Task : asleep[u] # NoRdz /\ wants[u] # NoLock => wants[u] = Guard[asleep[u]]
  BY <1>1, ParkedFacts DEF SleepPart, AsleepInv, Running
<1>3. Relocks
  BY <1>1 DEF Relocks
<1>4. CASE Acquire(t, l)
  <2>1. /\ wants' = wants /\ UNCHANGED coopVars
        /\ \A u \in Task \ {t} : held'[u] = held[u]
    BY <1>4 DEF Acquire, QLockPart, TypeOK
  <2>2. CoopOK' /\ Parked' = Parked /\ QLockPart'
    BY <1>4, AcquireKeeps
  <2>3. SleepPart'
    BY <1>1, <1>2, <2>1, <2>2, SleepFrame, RendezAssumption
  <2> QED BY <1>1, <1>2, <1>3, <2>1, <2>2, <2>3, QLockStepRest
<1>5. CASE Enqueue(t, l)
  <2>1. /\ wants' = [wants EXCEPT ![t] = l] /\ held' = held /\ wants \in [Task -> Lock \cup {NoLock}]
    BY <1>5 DEF Enqueue, QLockPart, TypeOK
  <2>2. /\ CoopOK' /\ Parked' = Parked \cup {t} /\ CoopNext /\ QLockPart'
    BY <1>1, <1>5, EnqueueKeeps
  <2>3. \A u \in Task \ {t} : wants'[u] = wants[u]
    BY <2>1
  <2>4. wants'[t] # NoLock
    BY <2>1, QLockAssumption
  <2>5. SleepPart'
    BY <1>1, <1>2, <2>1, <2>2, <2>3, SleepFrame, RendezAssumption
  <2> QED BY <1>1, <1>2, <1>3, <2>2, <2>3, <2>4, <2>5, QLockStepRest
<1>6. CASE canqlockFails(t, l)
  <2>1. UNCHANGED <<coopVars, lockVars>>
    BY <1>6 DEF canqlockFails, qlockVars
  <2>2. CoopOK' /\ Parked' = Parked /\ wants' = wants /\ held' = held
    BY <2>1, IdleEffect DEF lockVars
  <2>3. QLockPart'
    <3>1. owner' = owner /\ waiting' = waiting /\ ended' = ended /\ running' = running
      BY <2>1 DEF lockVars, coopVars
    <3> QED BY <2>2, <3>1 DEF QLockPart, TypeOK, MutexInv, WaitInv, GrantInv
  <2>4. SleepPart'
    BY <1>1, <1>2, <2>2, SleepFrame, RendezAssumption
  <2> QED BY <1>1, <1>2, <1>3, <2>1, <2>2, <2>3, <2>4, QLockStepRest
<1>7. CASE qunlock(t, l)
  <2>1. l \in held[t] /\ Handover(t, l) /\ wants' = wants
    BY <1>7 DEF qunlock
  <2>2. owner[l] # NoTask
    BY <2>1, CoopAssumption DEF QLockPart, MutexInv
  <2>3. Wake(t, NewOwner(l))
    BY <1>7, <2>2 DEF qunlock
  <2>4. /\ MayWake(NewOwner(l))
        /\ \A u \in Range(NewOwner(l)) : wants[u] = l /\ u \in Parked
    BY NewOwnerFacts
  <2>5. CoopOK' /\ Parked' = Parked \ Range(NewOwner(l)) /\ CoopNext /\ ~ended'
    BY <2>3, <2>4, WakeEffect
  <2>6. QLockPart'
    BY <1>1, <1>2, <2>1, <2>5, HandoverKeeps
  <2>7. \A u \in Task \ {t} : held'[u] = held[u]
    BY <2>1 DEF Handover, QLockPart, TypeOK
  <2>8. \A u \in Task : wants[u] = NoLock => (u \in Parked' <=> u \in Parked)
    BY <2>4, <2>5, QLockAssumption
  <2>9. SleepPart'
    BY <1>1, <1>2, <2>1, <2>5, <2>7, <2>8, SleepFrame, RendezAssumption
  <2>10. \A u \in Task \ {t} : ~(u \in Parked' <=> u \in Parked) =>
           u \in Parked /\ (wants[u] # NoLock \/ asleep[u] # NoRdz)
    BY <2>5, <2>8
  <2> QED BY <1>1, <1>2, <1>3, <2>1, <2>5, <2>6, <2>9, <2>10, QLockStepRest
<1> QED BY <1>4, <1>5, <1>6, <1>7 DEF Locking, qlock

(* tasksleep(), up to the switch.                                          *)
LEMMA SleepKeeps ==
  ASSUME IInv, NEW t \in Task, NEW r \in Rdz, Calling(t), tasksleep(t, r),
         UNCHANGED rwVars
  PROVE  IInv' /\ [CoopNext]_coopVars /\ Relocks
<1> USE DEF IInv
<1>1. /\ wants[t] = NoLock /\ asleep[t] = NoRdz /\ Running(t) /\ SleepUnlocked(t, r)
      /\ mode[t] \notin {"rwait", "wwait"} /\ wants' = wants
      /\ sleepers' = [sleepers EXCEPT ![r] = Append(@, t)]
      /\ asleep' = [asleep EXCEPT ![t] = r]
      /\ Guard[r] = NoLock \/ Guard[r] \in held[t]
  BY DEF tasksleep, AtWork, Free, Calling
<1>2. /\ asleep \in [Task -> Rdz \cup {NoRdz}] /\ t \notin Parked /\ TypeOK
  BY <1>1, ParkedFacts DEF SleepPart, AsleepInv, Running, QLockPart
<1>3. /\ asleep'[t] = r /\ r # NoRdz /\ Guard[r] \in Lock \cup {NoLock}
      /\ \A u \in Task \ {t} : asleep'[u] = asleep[u]
  BY <1>1, <1>2, RendezAssumption
<1>4. Relocks
  BY <1>1, <1>3 DEF Relocks
<1>5. CASE Guard[r] = NoLock
  <2>1. owner' = owner /\ waiting' = waiting /\ held' = held /\ Block(t, <<>>)
    BY <1>1, <1>5 DEF SleepUnlocked
  <2>2. CoopOK' /\ Parked' = Parked \cup {t} /\ CoopNext /\ ~ended'
    BY <2>1, MayWakeOne, BlockEffect
  <2>3. QLockPart'
    <3>1. TypeOK' /\ MutexInv'
      BY <1>1, <2>1, <2>2 DEF QLockPart, TypeOK, MutexInv
    <3>2. ASSUME NEW k \in Lock
          PROVE  {u \in Parked' : wants[u] = k} = {u \in Parked : wants[u] = k}
      BY <1>1, <2>2, QLockAssumption
    <3>3. WaitInv'
      BY <1>1, <2>1, <2>2, <3>2, QLockAssumption DEF QLockPart, WaitInv
    <3>4. GrantInv'
      BY <1>1, <2>1, <2>2 DEF QLockPart, GrantInv
    <3> QED BY <3>1, <3>3, <3>4 DEF QLockPart
  <2>4. Guard[r] \notin held'[t]
    BY <1>2, <1>5, <2>1, QLockAssumption DEF TypeOK
  <2>5. SleepPart'
    BY <1>1, <1>2, <2>1, <2>2, <2>4, FallAsleep
  <2> QED BY <1>1, <1>2, <1>3, <1>4, <2>2, <2>3, <2>5, QLockStepRest
<1>6. CASE Guard[r] # NoLock
  <2> DEFINE l == Guard[r]
  <2>0. l \in Lock /\ l \in held[t]
    BY <1>1, <1>3, <1>6
  <2>1. owner[l] # NoTask
    BY <2>0, CoopAssumption DEF QLockPart, MutexInv
  <2>2. Handover(t, l) /\ Block(t, NewOwner(l))
    BY <1>1, <1>6, <2>1 DEF SleepUnlocked
  <2> HIDE DEF l
  <2>3. /\ MayWake(NewOwner(l))
        /\ \A u \in Range(NewOwner(l)) : wants[u] = l /\ u \in Parked
    BY <2>0, NewOwnerFacts
  <2>4. /\ CoopOK' /\ Parked' = (Parked \ Range(NewOwner(l))) \cup {t} /\ CoopNext
        /\ ~ended'
    BY <2>2, <2>3, BlockEffect
  <2>5. QLockPart'
    BY <1>1, <1>2, <2>0, <2>2, <2>4, HandoverKeeps
  <2>6. l \notin held'[t] /\ \A u \in Task \ {t} : held'[u] = held[u]
    BY <1>2, <2>2 DEF Handover, TypeOK
  <2>7. \A u \in Task \ {t} : wants[u] = NoLock => (u \in Parked' <=> u \in Parked)
    BY <2>0, <2>3, <2>4, QLockAssumption
  <2>8. SleepPart'
    BY <1>1, <1>2, <2>4, <2>6, <2>7, FallAsleep DEF l
  <2>9. \A u \in Task \ {t} : ~(u \in Parked' <=> u \in Parked) =>
          u \in Parked /\ (wants[u] # NoLock \/ asleep[u] # NoRdz)
    BY <2>4, <2>7
  <2> QED BY <1>1, <1>3, <1>4, <2>4, <2>5, <2>8, <2>9, QLockStepRest
<1> QED BY <1>5, <1>6

(* A sleeper runs again and takes the lock of its Rendez back.             *)
LEMMA SleepReturnKeeps ==
  ASSUME IInv, NEW t \in Task, Calling(t), tasksleepWakes(t), UNCHANGED rwVars
  PROVE  IInv' /\ [CoopNext]_coopVars /\ Relocks
<1> USE DEF IInv
<1> DEFINE l == Guard[asleep[t]]
           up == asleep' = [asleep EXCEPT ![t] = NoRdz]
<1>1. /\ wants[t] = NoLock /\ asleep[t] # NoRdz /\ Running(t) /\ sleepers' = sleepers
      /\ mode[t] \notin {"rwait", "wwait"}
      /\ \/ l = NoLock /\ up /\ UNCHANGED qlockVars
         \/ l # NoLock /\ Acquire(t, l) /\ up
         \/ l # NoLock /\ Enqueue(t, l) /\ UNCHANGED asleep
  BY DEF tasksleepWakes, Free, Calling
<1>2. /\ asleep \in [Task -> Rdz \cup {NoRdz}] /\ t \notin Parked
      /\ \A u \in Task : asleep[u] # NoRdz /\ wants[u] # NoLock => wants[u] = Guard[asleep[u]]
  BY <1>1, ParkedFacts DEF SleepPart, AsleepInv, Running
<1>3. asleep[t] \in Rdz /\ l \in Lock \cup {NoLock}
  BY <1>1, <1>2, RendezAssumption
<1>4. ASSUME up
      PROVE  /\ asleep' \in [Task -> Rdz \cup {NoRdz}] /\ asleep'[t] = NoRdz
             /\ \A u \in Task \ {t} : asleep'[u] = asleep[u]
  BY <1>2, <1>4
<1>5. CASE l = NoLock /\ up /\ UNCHANGED qlockVars
  <2>1. UNCHANGED <<coopVars, lockVars>>
    BY <1>5 DEF qlockVars
  <2>2. CoopOK' /\ Parked' = Parked /\ wants' = wants /\ held' = held
    BY <2>1, IdleEffect DEF lockVars
  <2>3. QLockPart'
    <3>1. owner' = owner /\ waiting' = waiting /\ ended' = ended /\ running' = running
      BY <2>1 DEF lockVars, coopVars
    <3> QED BY <2>2, <3>1 DEF QLockPart, TypeOK, MutexInv, WaitInv, GrantInv
  <2>4. SleepPart'
    BY <1>1, <1>2, <1>4, <1>5, <2>2, SleepFrame, RendezAssumption
  <2>5. Relocks
    BY <1>4, <1>5 DEF Relocks
  <2> QED BY <1>1, <1>2, <1>4, <1>5, <2>1, <2>2, <2>3, <2>4, <2>5, QLockStepRest
<1>6. CASE l # NoLock /\ Acquire(t, l) /\ up
  <2>0. l \in Lock
    BY <1>3, <1>6
  <2>1. /\ wants' = wants /\ UNCHANGED coopVars
        /\ l \in held'[t] /\ \A u \in Task \ {t} : held'[u] = held[u]
    BY <1>6 DEF Acquire, QLockPart, TypeOK
  <2>2. CoopOK' /\ Parked' = Parked /\ QLockPart'
    BY <1>6, <2>0, AcquireKeeps
  <2>3. SleepPart'
    BY <1>1, <1>2, <1>4, <1>6, <2>1, <2>2, SleepFrame, RendezAssumption
  <2>4. Relocks
    BY <1>4, <1>6, <2>1 DEF Relocks
  <2> QED BY <1>1, <1>2, <1>4, <1>6, <2>1, <2>2, <2>3, <2>4, QLockStepRest
<1>7. CASE l # NoLock /\ Enqueue(t, l) /\ UNCHANGED asleep
  <2>0. l \in Lock
    BY <1>3, <1>7
  <2>1. /\ wants' = [wants EXCEPT ![t] = l] /\ held' = held
        /\ wants \in [Task -> Lock \cup {NoLock}]
    BY <1>7 DEF Enqueue, QLockPart, TypeOK
  <2>2. CoopOK' /\ Parked' = Parked \cup {t} /\ CoopNext /\ QLockPart'
    BY <1>1, <1>7, <2>0, EnqueueKeeps
  <2>3. \A u \in Task \ {t} : wants'[u] = wants[u]
    BY <2>1
  <2>4. wants'[t] = l /\ l # NoLock
    BY <1>7, <2>1
  <2>5. SleepPart'
    BY <1>1, <1>2, <1>7, <2>1, <2>2, <2>3, <2>4, SleepFrame, RendezAssumption
  <2>6. Relocks
    BY <1>7 DEF Relocks
  <2> QED BY <1>1, <1>2, <1>7, <2>2, <2>3, <2>4, <2>5, <2>6, QLockStepRest
<1> QED BY <1>1, <1>5, <1>6, <1>7

(* _qlock() returns after the switch, to its caller or to tasksleep().     *)
LEMMA LockReturnsKeeps ==
  ASSUME IInv, NEW t \in Task, Calling(t), LockReturns(t), UNCHANGED rwVars
  PROVE  IInv' /\ [CoopNext]_coopVars /\ Relocks
<1> USE DEF IInv
<1>1. /\ qlockReturns(t) /\ mode[t] \notin {"rwait", "wwait"} /\ sleepers' = sleepers
      /\ asleep' = [asleep EXCEPT ![t] = NoRdz]
      /\ wants[t] # NoLock /\ wants' = [wants EXCEPT ![t] = NoLock]
      /\ held' = [held EXCEPT ![t] = @ \cup {wants[t]}]
  BY DEF LockReturns, qlockReturns, Calling
<1>2. CoopOK' /\ UNCHANGED coopVars /\ QLockPart' /\ t \notin Parked
  BY <1>1, ReturnKeeps
<1>3. Parked' = Parked
  BY <1>2, IdleEffect
<1>4. /\ asleep \in [Task -> Rdz \cup {NoRdz}] /\ TypeOK
      /\ \A u \in Task : asleep[u] # NoRdz /\ wants[u] # NoLock => wants[u] = Guard[asleep[u]]
  BY DEF SleepPart, AsleepInv, QLockPart
<1>5. /\ asleep' \in [Task -> Rdz \cup {NoRdz}] /\ asleep'[t] = NoRdz
      /\ wants[t] \in held'[t]
      /\ \A u \in Task \ {t} : /\ asleep'[u] = asleep[u] /\ wants'[u] = wants[u]
                               /\ held'[u] = held[u]
  BY <1>1, <1>4 DEF TypeOK
<1>6. SleepPart'
  BY <1>1, <1>2, <1>3, <1>4, <1>5, SleepFrame, RendezAssumption
<1>7. Relocks
  BY <1>1, <1>4, <1>5 DEF Relocks
<1> QED BY <1>1, <1>2, <1>3, <1>5, <1>6, <1>7, QLockStepRest

(* taskwakeup() and taskwakeupall().                                       *)
LEMMA WakeupsKeep ==
  ASSUME IInv, NEW t \in Task, NEW r \in Rdz, Calling(t), UNCHANGED rwVars,
         taskwakeup(t, r) \/ taskwakeupall(t, r)
  PROVE  IInv' /\ [CoopNext]_coopVars /\ Relocks
<1> USE DEF IInv
<1>1. sleepers[r] \in Seq(Task)
  BY DEF SleepPart, AsleepInv
<1>2. PICK n \in 0..Len(sleepers[r]) : Wakeup(t, r, n)
  <2>1. CASE taskwakeupall(t, r)
    BY <1>1, <2>1 DEF taskwakeupall
  <2>2. CASE taskwakeup(t, r) /\ sleepers[r] = <<>>
    BY <1>1, <2>2 DEF taskwakeup
  <2>3. CASE taskwakeup(t, r) /\ sleepers[r] # <<>>
    <3>1. 1 \in 0..Len(sleepers[r])
      BY <1>1, <2>3
    <3> QED BY <2>3, <3>1 DEF taskwakeup
  <2> QED BY <2>1, <2>2, <2>3
<1>3. /\ mode[t] \notin {"rwait", "wwait"} /\ t \notin Parked
      /\ wants' = wants /\ asleep' = asleep
  BY <1>2, ParkedFacts DEF Calling, Running, Wakeup, lockVars
<1>4. /\ CoopOK' /\ CoopNext /\ QLockPart' /\ SleepPart'
      /\ \A u \in Task : u \in Parked' <=>
           u \in Parked /\ u \notin Range(SubSeq(sleepers[r], 1, n))
  BY <1>2, WakeupKeeps
<1>5. \A u \in Range(SubSeq(sleepers[r], 1, n)) : asleep[u] # NoRdz
  BY SleepersFacts, RendezAssumption
<1>6. Relocks
  BY <1>3 DEF Relocks
<1> QED BY <1>3, <1>4, <1>5, <1>6, QLockStepRest

(* The calls on the reader-writer lock.                                    *)
LEMMA SharedKeeps ==
  ASSUME IInv, NEW t \in Task, SharedStep(t)
  PROVE  IInv' /\ [CoopNext]_coopVars /\ Relocks
<1> USE DEF IInv
<1> DEFINE RWW == {"rwait", "wwait"}
<1>1. /\ RWStep(t) /\ UNCHANGED <<lockVars, sleepVars>> /\ Running(t)
      /\ wants[t] = NoLock /\ asleep[t] = NoRdz
  BY DEF SharedStep, AtWork, Free
<1>2. wants' = wants /\ asleep' = asleep /\ mode \in [Task -> Mode] /\ t \notin Parked
  BY <1>1, ParkedFacts DEF lockVars, sleepVars, RWPart, RWTypeOK, Running
<1>3. /\ CoopOK' /\ RWPart' /\ [CoopNext]_coopVars
      /\ \A u \in Task \ {t} : mode'[u] = mode[u]
      /\ \A u \in Task : u \in Parked' /\ u \notin Parked => u = t /\ mode'[t] \in RWW
      /\ \A u \in Task : u \in Parked /\ u \notin Parked' => mode[u] \in RWW
  <2>1. CASE rlock(t)
    BY <1>2, <2>1, rlockKeeps, IdleEffect
  <2>2. CASE wlock(t)
    BY <1>2, <2>2, wlockKeeps, IdleEffect
  <2>3. CASE rlockWaits(t)
    BY <1>2, <2>3, rlockWaitsKeeps
  <2>4. CASE wlockWaits(t)
    BY <1>2, <2>4, wlockWaitsKeeps
  <2>5. CASE canlockFails(t)
    <3>1. UNCHANGED <<coopVars, rwVars>>
      BY <2>5 DEF canlockFails, rwlockVars
    <3>2. CoopOK' /\ Parked' = Parked /\ ended' = ended /\ running' = running /\ mode' = mode
      BY <3>1, IdleEffect DEF coopVars, rwVars
    <3>3. RWPart'
      BY <3>1, <3>2, RWFrame DEF QLockPart, MutexInv
    <3> QED BY <3>1, <3>2, <3>3
  <2>6. CASE rwlockReturns(t)
    BY <1>2, <2>6, rwReturnKeeps, IdleEffect
  <2>7. CASE runlock(t)
    BY <1>2, <2>7, runlockKeeps
  <2>8. CASE wunlock(t)
    BY <1>2, <2>8, wunlockKeeps
  <2> QED BY <1>1, <2>1, <2>2, <2>3, <2>4, <2>5, <2>6, <2>7, <2>8 DEF RWStep
<1>4. \A u \in Task : wants[u] # NoLock \/ asleep[u] # NoRdz => (u \in Parked' <=> u \in Parked)
  BY <1>1, <1>3 DEF OneWait
<1>5. QLockPart' /\ SleepPart'
  BY <1>1, <1>3, <1>4, QLockFrame DEF RWPart, ExclusionInv
<1>6. OneWait'
  <2>1. Parked' \subseteq Task
    BY <1>3 DEF CoopOK, Parked
  <2>2. ASSUME NEW u \in Parked' PROVE Waits(u)'
    <3>1. CASE u = t
      BY <1>2, <1>3, <2>1, <3>1 DEF Waits
    <3>2. CASE u # t
      BY <1>2, <1>3, <2>1, <2>2, <3>2 DEF OneWait, Waits
    <3> QED BY <3>1, <3>2
  <2>3. ASSUME NEW u \in Task, mode'[u] \in RWW PROVE wants'[u] = NoLock /\ asleep'[u] = NoRdz
    BY <1>1, <1>2, <1>3, <2>3 DEF OneWait
  <2> QED BY <2>2, <2>3 DEF OneWait
<1>7. Relocks
  BY <1>2 DEF Relocks
<1> QED BY <1>3, <1>5, <1>6, <1>7

(* What a task does between the calls, and the turns of the scheduler:     *)
(* nobody starts or stops waiting.                                         *)
LEMMA NeutralKeeps ==
  ASSUME IInv, CoopOK', Parked' = Parked, ended' => running' = NoTask,
         UNCHANGED <<lockVars, sleepers, asleep, rwVars>>
  PROVE  IInv' /\ Relocks
<1> USE DEF IInv
<1>1. /\ owner' = owner /\ waiting' = waiting /\ wants' = wants /\ held' = held
      /\ sleepers' = sleepers /\ asleep' = asleep /\ mode' = mode
  BY DEF lockVars, rwVars
<1>2. QLockPart'
  BY <1>1 DEF QLockPart, TypeOK, MutexInv, WaitInv, GrantInv
<1>3. SleepPart'
  BY <1>1, SleepFrame, RendezAssumption DEF SleepPart, AsleepInv
<1>4. RWPart'
  BY RWFrame
<1>5. OneWait'
  BY <1>1 DEF OneWait, Waits
<1> QED BY <1>1, <1>2, <1>3, <1>4, <1>5 DEF Relocks

(* Every step keeps the invariant, is a step the scheduler allows, and     *)
(* lets no sleeper up without its lock.                                    *)
LEMMA StepKeeps ==
  ASSUME IInv, [LocksNext]_vars
  PROVE  IInv' /\ [CoopNext]_coopVars /\ [Relocks]_rendezVars
<1>1. ASSUME NEW t \in Task, MutexStep(t)
      PROVE  IInv' /\ [CoopNext]_coopVars /\ Relocks
  <2>1. Calling(t) /\ RendezStep(t) /\ UNCHANGED rwVars
    BY <1>1 DEF MutexStep
  <2>2. ASSUME NEW l \in Lock, Locking(t, l)
        PROVE  IInv' /\ [CoopNext]_coopVars /\ Relocks
    BY <2>1, <2>2, LockingKeeps
  <2>3. ASSUME NEW r \in Rdz, tasksleep(t, r)
        PROVE  IInv' /\ [CoopNext]_coopVars /\ Relocks
    BY <2>1, <2>3, SleepKeeps
  <2>4. ASSUME NEW r \in Rdz, taskwakeup(t, r) \/ taskwakeupall(t, r)
        PROVE  IInv' /\ [CoopNext]_coopVars /\ Relocks
    BY <2>1, <2>4, WakeupsKeep
  <2>5. CASE tasksleepWakes(t)
    BY <2>1, <2>5, SleepReturnKeeps
  <2>6. CASE LockReturns(t)
    BY <2>1, <2>6, LockReturnsKeeps
  <2> QED BY <2>1, <2>2, <2>3, <2>4, <2>5, <2>6 DEF RendezStep
<1>2. ASSUME NEW t \in Task, SharedStep(t)
      PROVE  IInv' /\ [CoopNext]_coopVars /\ Relocks
  BY <1>2, SharedKeeps
<1>3. ASSUME NEW t \in Task, OutsideLocks(t)
      PROVE  IInv' /\ [CoopNext]_coopVars /\ Relocks
  <2>1. UNCHANGED <<lockVars, sleepers, asleep, rwVars>>
    BY <1>3 DEF OutsideLocks, sleepVars
  <2>2. CoopOK' /\ Parked' = Parked /\ ~ended' /\ CoopNext
    BY <1>3, YieldEffect, ExitEffect DEF OutsideLocks, IInv
  <2> QED BY <2>1, <2>2, NeutralKeeps
<1>4. CASE Scheduler
  <2>1. UNCHANGED <<lockVars, sleepers, asleep, rwVars>>
    BY <1>4 DEF Scheduler, Kernel
  <2>2. CoopOK' /\ Parked' = Parked /\ (ended' => running' = NoTask) /\ CoopNext
    BY <1>4, DispatchEffect, EndEffect DEF Scheduler, Kernel, IInv
  <2> QED BY <2>1, <2>2, NeutralKeeps
<1>5. CASE UNCHANGED vars
  <2>1. UNCHANGED <<coopVars, lockVars, sleepers, asleep, rwVars>> /\ UNCHANGED rendezVars
    BY <1>5 DEF vars, rendezVars, qlockVars
  <2>2. /\ CoopOK' /\ Parked' = Parked /\ (ended' => running' = NoTask)
    BY <2>1, IdleEffect DEF IInv, QLockPart, MutexInv, coopVars
  <2> QED BY <2>1, <2>2, NeutralKeeps
<1> QED BY <1>1, <1>2, <1>3, <1>4, <1>5 DEF LocksNext

(* The invariant holds of zeroed locks and Rendezes.                       *)
LEMMA LocksInitOK == LocksInit => IInv
<1> SUFFICES ASSUME LocksInit PROVE IInv
  OBVIOUS
<1>1. /\ AllReady /\ owner = [l \in Lock |-> NoTask] /\ waiting = [l \in Lock |-> <<>>]
      /\ wants = [t \in Task |-> NoLock] /\ held = [t \in Task |-> {}]
      /\ sleepers = [r \in Rdz |-> <<>>] /\ asleep = [t \in Task |-> NoRdz]
      /\ readers = 0 /\ writer = NoTask /\ rwaiting = <<>> /\ wwaiting = <<>>
      /\ mode = [t \in Task |-> "free"]
  BY DEF LocksInit, RendezInit, Init, RWInit
<1>2. CoopOK /\ Parked = {} /\ ~ended
  BY <1>1, AllReadyFacts
<1>3. <<>> \in Seq(Task) /\ Range(<<>>) = {} /\ IsInjective(<<>>)
  BY <1>2, MayWakeOne DEF MayWake
<1>4. QLockPart
  BY <1>1, <1>2, <1>3 DEF QLockPart, TypeOK, MutexInv, WaitInv, GrantInv
<1>5. SleepPart
  BY <1>1, <1>2, <1>3 DEF SleepPart, AsleepInv, SleepInv
<1>6. RWPart
  <2>1. Readers = {} /\ Writers = {}
    BY <1>1 DEF Readers, Writers, Has
  <2>2. ExclusionInv
    BY <1>1, <1>2, <2>1, FS_EmptySet DEF ExclusionInv, Readers, Writers
  <2> QED BY <1>1, <1>2, <1>3, <2>2 DEF RWPart, RWTypeOK, RWWaitInv, Mode
<1>7. OneWait
  BY <1>1, <1>2 DEF OneWait
<1> QED BY <1>2, <1>4, <1>5, <1>6, <1>7 DEF IInv

-----------------------------------------------------------------------------
(* A task that is off the CPU is on one list, by what it waits for.        *)
LEMMA OneList ==
  ASSUME IInv, NEW t \in live, t # running
  PROVE  Lists(t) = 1
<1> DEFINE A == {l \in Lock : t \in Range(waiting[l])}
           B == {r \in Rdz : t \in Range(sleepers[r])}
           C == {q \in {1, 2, 3} : t \in Range(<<rwaiting, wwaiting, runqueue>>[q])}
<1> USE DEF IInv
<1>1. t \in Task /\ (t \in Parked <=> t \notin Range(runqueue))
  BY DEF CoopOK, Parked
<1>2. A = {l \in Lock : t \in Parked /\ wants[t] = l}
  BY DEF QLockPart, WaitInv
<1>3. B = {r \in Rdz : t \in Parked /\ asleep[t] = r /\ wants[t] = NoLock}
  BY DEF SleepPart, SleepInv
<1>4. /\ t \in Range(rwaiting) <=> t \in Parked /\ mode[t] = "rwait"
      /\ t \in Range(wwaiting) <=> t \in Parked /\ mode[t] = "wwait"
  BY DEF RWPart, RWWaitInv
<1>5. C = {q \in {1, 2, 3} : \/ q = 1 /\ t \in Range(rwaiting)
                             \/ q = 2 /\ t \in Range(wwaiting)
                             \/ q = 3 /\ t \in Range(runqueue)}
  <2>1. /\ <<rwaiting, wwaiting, runqueue>>[1] = rwaiting
        /\ <<rwaiting, wwaiting, runqueue>>[2] = wwaiting
        /\ <<rwaiting, wwaiting, runqueue>>[3] = runqueue
    OBVIOUS
  <2> QED BY <2>1
<1>6. Lists(t) = Cardinality(A) + Cardinality(B) + Cardinality(C)
  BY DEF Lists
<1>7. wants[t] \in Lock \cup {NoLock} /\ asleep[t] \in Rdz \cup {NoRdz}
  BY <1>1 DEF QLockPart, TypeOK, SleepPart, AsleepInv
<1> HIDE DEF A, B, C
<1>8. Cardinality({}) = 0 /\ \A x : Cardinality({x}) = 1
  BY FS_EmptySet, FS_Singleton
<1>9. CASE t \notin Parked
  <2>1. A = {} /\ B = {} /\ C = {3}
    BY <1>1, <1>2, <1>3, <1>4, <1>5, <1>9
  <2>3. Cardinality(A) = 0 /\ Cardinality(B) = 0 /\ Cardinality(C) = 1
    BY <1>8, <2>1
  <2> QED BY <1>6, <2>3
<1>10. CASE t \in Parked /\ wants[t] # NoLock
  <2>1. mode[t] \notin {"rwait", "wwait"}
    BY <1>1, <1>10 DEF OneWait
  <2>2. A = {wants[t]} /\ B = {} /\ C = {}
    BY <1>1, <1>2, <1>3, <1>4, <1>5, <1>7, <1>10, <2>1
  <2>3. Cardinality(A) = 1 /\ Cardinality(B) = 0 /\ Cardinality(C) = 0
    BY <1>8, <2>2
  <2> QED BY <1>6, <2>3
<1>11. CASE t \in Parked /\ wants[t] = NoLock /\ asleep[t] # NoRdz
  <2>1. mode[t] \notin {"rwait", "wwait"}
    BY <1>1, <1>11 DEF OneWait
  <2>2. A = {} /\ B = {asleep[t]} /\ C = {}
    BY <1>1, <1>2, <1>3, <1>4, <1>5, <1>7, <1>11, <2>1, QLockAssumption
  <2>3. Cardinality(A) = 0 /\ Cardinality(B) = 1 /\ Cardinality(C) = 0
    BY <1>8, <2>2
  <2> QED BY <1>6, <2>3
<1>12. CASE t \in Parked /\ wants[t] = NoLock /\ asleep[t] = NoRdz
  <2>1. mode[t] \in {"rwait", "wwait"}
    BY <1>12 DEF OneWait, Waits
  <2>2. A = {} /\ B = {}
    BY <1>2, <1>3, <1>12, QLockAssumption, RendezAssumption
  <2>3. C = {1} \/ C = {2}
    BY <1>1, <1>4, <1>5, <1>12, <2>1
  <2>4. Cardinality(A) = 0 /\ Cardinality(B) = 0 /\ Cardinality(C) = 1
    BY <1>8, <2>2, <2>3
  <2> QED BY <1>6, <2>4
<1> QED BY <1>9, <1>10, <1>11, <1>12

-----------------------------------------------------------------------------
(* All parts of the invariant at once: they lean on each other.            *)
THEOREM Invariance == LocksSpec => []IInv
<1>1. IInv /\ [LocksNext]_vars => IInv'
  BY StepKeeps
<1> QED BY <1>1, LocksInitOK, PTL DEF LocksSpec

(* Mutual exclusion of the queuing locks, for any tasks and locks: who has *)
(* returned from qlock() is the owner, and the aborts of qlock.c are never *)
(* reached.                                                                *)
THEOREM MutexCorrect == LocksSpec => []MutexInv
<1>1. IInv => MutexInv
  BY DEF IInv, QLockPart
<1> QED BY <1>1, Invariance, PTL

(* Any number of readers or one writer has the reader-writer lock, and its *)
(* counters say exactly who.                                               *)
THEOREM ExclusionCorrect == LocksSpec => []ExclusionInv
<1>1. IInv => ExclusionInv
  BY DEF IInv, RWPart
<1> QED BY <1>1, Invariance, PTL

(* A task off the CPU is on exactly one list, and each list holds the      *)
(* tasks that wait for what it is the list of, none of them in vain.       *)
THEOREM ListsCorrect == LocksSpec => []ListsInv
<1>1. IInv => ListsInv
  <2> SUFFICES ASSUME IInv PROVE ListsInv
    OBVIOUS
  <2>1. \A t \in live \ {running} : Lists(t) = 1
    BY OneList
  <2>2. TypeOK /\ WaitInv /\ SleepInv /\ RWTypeOK /\ RWWaitInv
    BY DEF IInv, QLockPart, SleepPart, RWPart
  <2> QED BY <2>1, <2>2 DEF ListsInv
<1> QED BY <1>1, Invariance, PTL

(* The calls of qlock.c and rendez.c ready only parked tasks, each once:   *)
(* every step of theirs is one that the scheduler's contract allows.       *)
THEOREM LocksObeyKernel == LocksSpec => KernelSteps
<1>1. IInv /\ [LocksNext]_vars => [CoopNext]_coopVars
  BY StepKeeps
<1> QED BY <1>1, Invariance, PTL DEF LocksSpec, KernelSteps

(* tasksleep() returns with the lock of its Rendez held again.             *)
THEOREM SleepRelocks == LocksSpec => Relocked
<1>1. IInv /\ [LocksNext]_vars => [Relocks]_rendezVars
  BY StepKeeps
<1> QED BY <1>1, Invariance, PTL DEF LocksSpec, Relocked, Relocks
=============================================================================
