-------------------------------- MODULE RWLock --------------------------------
(***************************************************************************)
(* One reader-writer lock of qlock.c.  A writer waits while the lock is    *)
(* held at all, a reader also while a writer waits; unlocking hands the    *)
(* lock to waiters before they run.                                        *)
(*                                                                         *)
(* Clients are assumed to lock once, to unlock only what they have locked  *)
(* and not to exit with the lock: runlock() checks nothing.                *)
(***************************************************************************)
EXTENDS Coop

VARIABLES
  readers,   \* RWLock.readers
  writer,    \* RWLock.writer
  rwaiting,  \* RWLock.rwaiting, head first
  wwaiting,  \* RWLock.wwaiting, head first
  mode       \* what each task is doing with the lock

rwVars == <<readers, writer, rwaiting, wwaiting, mode>>
rwlockVars == <<coopVars, rwVars>>

Mode == {"free", "reading", "writing", "rwait", "wwait"}

-----------------------------------------------------------------------------
(* Mutants: readers do not care for waiting writers; writers do not care   *)
(* for readers.                                                            *)
CanReadGreedy == writer = NoTask
CanWriteBlind == writer = NoTask

CanRead  == writer = NoTask /\ wwaiting = <<>>
CanWrite == writer = NoTask /\ readers = 0

Calling(t) == Running(t) /\ mode[t] \notin {"rwait", "wwait"}

(* rlock() and canrlock() when the lock is to be had.                      *)
rlock(t) ==
  /\ Calling(t) /\ mode[t] = "free" /\ CanRead
  /\ readers' = readers + 1
  /\ mode' = [mode EXCEPT ![t] = "reading"]
  /\ UNCHANGED <<writer, rwaiting, wwaiting, coopVars>>

(* rlock() of a lock that is not to be had, up to taskswitch().            *)
rlockWaits(t) ==
  /\ Calling(t) /\ mode[t] = "free" /\ ~CanRead
  /\ rwaiting' = Append(rwaiting, t)
  /\ mode' = [mode EXCEPT ![t] = "rwait"]
  /\ Block(t, <<>>)
  /\ UNCHANGED <<readers, writer, wwaiting>>

wlock(t) ==
  /\ Calling(t) /\ mode[t] = "free" /\ CanWrite
  /\ writer' = t
  /\ mode' = [mode EXCEPT ![t] = "writing"]
  /\ UNCHANGED <<readers, rwaiting, wwaiting, coopVars>>

wlockWaits(t) ==
  /\ Calling(t) /\ mode[t] = "free" /\ ~CanWrite
  /\ wwaiting' = Append(wwaiting, t)
  /\ mode' = [mode EXCEPT ![t] = "wwait"]
  /\ Block(t, <<>>)
  /\ UNCHANGED <<readers, writer, rwaiting>>

(* canrlock() and canwlock() of a busy lock return 0 and change nothing.   *)
canlockFails(t) == Calling(t) /\ (~CanRead \/ ~CanWrite) /\ UNCHANGED rwlockVars

(* rlock() and wlock() return after taskswitch() without another test.     *)
rwlockReturns(t) ==
  /\ Running(t) /\ mode[t] \in {"rwait", "wwait"}
  /\ mode' = [mode EXCEPT ![t] = IF @ = "rwait" THEN "reading" ELSE "writing"]
  /\ UNCHANGED <<readers, writer, rwaiting, wwaiting, coopVars>>

(* The end of both unlocks: with n readers now holding the lock, writer    *)
(* set to w and the tasks ws readied, the first waiting writer gets the    *)
(* lock if there are no readers.                                           *)
HandToWriter(t, n, w, ws) ==
  /\ readers' = n
  /\ IF n = 0 /\ wwaiting # <<>>
     THEN /\ writer' = Head(wwaiting)
          /\ wwaiting' = Tail(wwaiting)
          /\ Wake(t, ws \o <<Head(wwaiting)>>)
     ELSE writer' = w /\ UNCHANGED wwaiting /\ Wake(t, ws)

runlock(t) ==
  /\ Calling(t) /\ mode[t] = "reading"
  /\ HandToWriter(t, readers - 1, writer, <<>>)
  /\ mode' = [mode EXCEPT ![t] = "free"]
  /\ UNCHANGED rwaiting

(* All waiting readers get the lock, a writer only if there are none.      *)
wunlock(t) ==
  /\ Calling(t) /\ mode[t] = "writing"
  /\ mode' = [mode EXCEPT ![t] = "free"]
  /\ IF writer = NoTask \/ readers # 0
     THEN Abort(t) /\ writer' = NoTask /\ UNCHANGED <<readers, rwaiting, wwaiting>>
     ELSE /\ rwaiting' = <<>>
          /\ HandToWriter(t, Len(rwaiting), NoTask, rwaiting)

(* What a task does between calls.                                         *)
RWElsewhere(t) ==
  /\ Calling(t)
  /\ Yield(t) \/ (mode[t] = "free" /\ Exit(t))
  /\ UNCHANGED rwVars

-----------------------------------------------------------------------------
(* The lock is zeroed memory.                                              *)
RWInit ==
  /\ AllReady
  /\ readers = 0 /\ writer = NoTask
  /\ rwaiting = <<>> /\ wwaiting = <<>>
  /\ mode = [t \in Task |-> "free"]

(* A step of t inside qlock.c.                                             *)
RWStep(t) ==
  \/ rlock(t) \/ rlockWaits(t) \/ wlock(t) \/ wlockWaits(t)
  \/ canlockFails(t) \/ rwlockReturns(t) \/ runlock(t) \/ wunlock(t)

RWNext ==
  \/ \E t \in Task : RWStep(t) \/ RWElsewhere(t)
  \/ (Dispatch \/ End) /\ UNCHANGED rwVars
  \/ ended /\ UNCHANGED rwlockVars

RWSpec == RWInit /\ [][RWNext]_rwlockVars
-----------------------------------------------------------------------------
(* The types of the variables.                                             *)
RWTypeOK ==
  /\ readers \in Nat
  /\ writer \in Task \cup {NoTask}
  /\ rwaiting \in Seq(Task) /\ wwaiting \in Seq(Task)
  /\ mode \in [Task -> Mode]

(* The tasks that have the lock in a mode; one that waited has it from the *)
(* moment it was granted, before it returns from rlock() or wlock().       *)
Has(hold, wait) ==
  {t \in Task : mode[t] = hold \/ (mode[t] = wait /\ t \notin Parked)}

(* README:228-230: any number of readers or one writer, never both.        *)
(* readers and writer say exactly who has the lock, so runlock() never     *)
(* counts below 0 and the aborts of wunlock() are never reached.           *)
ExclusionInv ==
  /\ readers = Cardinality(Has("reading", "rwait"))
  /\ Has("writing", "wwait") = {writer} \ {NoTask}
  /\ writer # NoTask => readers = 0
  /\ ended => running = NoTask

(* The wait lists hold the parked callers of rlock() and wlock(), each on  *)
(* one list (a Task has one pair of links), and nobody waits in vain:      *)
(* writers wait only while somebody has the lock, readers only while a     *)
(* writer has it or waits for it.                                          *)
RWWaitInv ==
  /\ IsInjective(rwaiting) /\ IsInjective(wwaiting)
  /\ Range(rwaiting) = {t \in Parked : mode[t] = "rwait"}
  /\ Range(wwaiting) = {t \in Parked : mode[t] = "wwait"}
  /\ wwaiting # <<>> => writer # NoTask \/ readers > 0
  /\ rwaiting # <<>> => writer # NoTask \/ wwaiting # <<>>
=============================================================================
