------------------------------ MODULE CoopFacts ------------------------------
(***************************************************************************)
(* What the calls of the scheduler do to the sets of live and of parked    *)
(* tasks, for the proofs about the primitives that are built on module     *)
(* Coop: they only need these facts and never look into the run queue.     *)
(***************************************************************************)
EXTENDS Coop, QueueFacts

(* The run queue holds live tasks, each once, and not the one that runs.   *)
CoopOK ==
  /\ live \subseteq Task /\ system \subseteq Task
  /\ runqueue \in Seq(Task) /\ IsInjective(runqueue)
  /\ Range(runqueue) \subseteq live
  /\ running \in live \cup {NoTask}
  /\ running \notin Range(runqueue)
  /\ ended \in BOOLEAN

(* ws are tasks that a call may make ready, each of them once.             *)
MayWake(ws) == ws \in Seq(Task) /\ IsInjective(ws) /\ Range(ws) \subseteq Parked

-----------------------------------------------------------------------------
(* Parked tasks are tasks; there are finitely many, and none of them runs. *)
LEMMA ParkedFacts ==
  ASSUME CoopOK
  PROVE  /\ Parked \subseteq live /\ Parked \subseteq Task /\ IsFiniteSet(Parked)
         /\ NoTask \notin Parked /\ NoTask \notin Task /\ running \notin Parked
         /\ Parked \cap Range(runqueue) = {}
<1>1. Parked \subseteq Task /\ Parked \subseteq live
  BY DEF CoopOK, Parked
<1>2. IsFiniteSet(Parked)
  BY <1>1, CoopAssumption, FS_Subset
<1> QED BY <1>1, <1>2, CoopAssumption DEF Parked

(* Nobody, or one parked task, may be made ready.                          *)
LEMMA MayWakeOne ==
  ASSUME CoopOK
  PROVE  /\ MayWake(<<>>) /\ Range(<<>>) = {}
         /\ \A t \in Parked : MayWake(<<t>>) /\ Range(<<t>>) = {t}
<1>1. MayWake(<<>>) /\ Range(<<>>) = {}
  BY DEF MayWake, IsInjective, Range
<1>2. ASSUME NEW t \in Parked PROVE MayWake(<<t>>) /\ Range(<<t>>) = {t}
  BY ParkedFacts, QueueOfOne DEF MayWake
<1> QED BY <1>1, <1>2

(* The contract of the scheduler lets such tasks be made ready.            *)
LEMMA MayWakeIsLegal ==
  ASSUME CoopOK, NEW ws, MayWake(ws)
  PROVE  ws \in WakeLists(Parked)
<1>1. Len(ws) \in 0..Cardinality(Parked) /\ ws \in Injection(1..Len(ws), Parked)
  BY ParkedFacts, QueueInSet DEF MayWake
<1> QED BY <1>1 DEF WakeLists

(* What the contract lets a call make ready are parked tasks, each once.   *)
LEMMA LegalMayWake ==
  ASSUME CoopOK, NEW ws \in WakeLists(Parked)
  PROVE  MayWake(ws)
<1>1. PICK n \in 0..Cardinality(Parked) : ws \in Injection(1..n, Parked)
  BY DEF WakeLists
<1>2. n \in Nat /\ ws \in [1..n -> Parked] /\ IsInjective(ws)
  BY <1>1 DEF Injection, IsInjective
<1>3. ws \in [1..n -> Task]
  BY <1>2, ParkedFacts
<1>4. ws \in Seq(Task)
  BY <1>2, <1>3
<1>5. Range(ws) \subseteq Parked
  BY <1>2 DEF Range
<1> QED BY <1>2, <1>4, <1>5 DEF MayWake

(* Making parked tasks ready puts each of them on the run queue once.      *)
LEMMA ReadyQueue ==
  ASSUME CoopOK, NEW ws, MayWake(ws)
  PROVE  /\ runqueue \o ws \in Seq(Task) /\ IsInjective(runqueue \o ws)
         /\ Range(runqueue \o ws) = Range(runqueue) \cup Range(ws)
         /\ Range(ws) \subseteq live /\ running \notin Range(ws)
<1>1. /\ runqueue \in Seq(Task) /\ ws \in Seq(Task)
      /\ IsInjective(runqueue) /\ IsInjective(ws)
      /\ Range(runqueue) \cap Range(ws) = {}
  BY ParkedFacts DEF CoopOK, MayWake
<1> QED BY <1>1, ParkedFacts, JoinQueue DEF MayWake

-----------------------------------------------------------------------------
(* taskready() of parked tasks, by a task that keeps the CPU.              *)
LEMMA WakeEffect ==
  ASSUME CoopOK, NEW t \in Task, NEW ws, MayWake(ws), Wake(t, ws)
  PROVE  /\ CoopOK' /\ Parked' = Parked \ Range(ws) /\ t \notin Parked
         /\ live' = live /\ running' = running /\ ended' = ended /\ ~ended
         /\ CoopNext
<1>1. /\ runqueue' = runqueue \o ws /\ running = t /\ ~ended
      /\ UNCHANGED <<live, system, running, ended>>
  BY DEF Wake, Running
<1>2. /\ runqueue' \in Seq(Task) /\ IsInjective(runqueue')
      /\ Range(runqueue') = Range(runqueue) \cup Range(ws)
      /\ Range(ws) \subseteq live /\ running \notin Range(ws)
  BY <1>1, ReadyQueue
<1>3. CoopOK' /\ Parked' = Parked \ Range(ws)
  BY <1>1, <1>2 DEF CoopOK, Parked
<1>4. CoopNext
  BY MayWakeIsLegal DEF CoopNext
<1> QED BY <1>1, <1>3, <1>4, ParkedFacts

(* taskready() of parked tasks, then taskswitch() without queueing.        *)
LEMMA BlockEffect ==
  ASSUME CoopOK, NEW t \in Task, NEW ws, MayWake(ws), Block(t, ws)
  PROVE  /\ CoopOK' /\ Parked' = (Parked \ Range(ws)) \cup {t} /\ t \notin Parked
         /\ live' = live /\ running' = NoTask /\ ended' = ended /\ ~ended
         /\ CoopNext
<1>1. /\ runqueue' = runqueue \o ws /\ running = t /\ ~ended /\ running' = NoTask
      /\ UNCHANGED <<live, system, ended>>
  BY DEF Block, Running
<1>2. /\ runqueue' \in Seq(Task) /\ IsInjective(runqueue')
      /\ Range(runqueue') = Range(runqueue) \cup Range(ws)
      /\ Range(ws) \subseteq live /\ running \notin Range(ws)
  BY <1>1, ReadyQueue
<1>3. t \in live /\ t \notin Range(runqueue) /\ NoTask \notin Task
  BY <1>1, ParkedFacts DEF CoopOK
<1>4. CoopOK' /\ Parked' = (Parked \ Range(ws)) \cup {t}
  BY <1>1, <1>2, <1>3 DEF CoopOK, Parked
<1>5. CoopNext
  BY MayWakeIsLegal DEF CoopNext
<1> QED BY <1>1, <1>4, <1>5, ParkedFacts

(* taskyield().                                                            *)
LEMMA YieldEffect ==
  ASSUME CoopOK, NEW t \in Task, Yield(t)
  PROVE  /\ CoopOK' /\ Parked' = Parked /\ t \notin Parked /\ live' = live
         /\ running' = NoTask /\ ended' = ended /\ ~ended
         /\ CoopNext
<1>1. /\ runqueue' = Append(runqueue, t) /\ running = t /\ ~ended
      /\ running' = NoTask /\ UNCHANGED <<live, system, ended>>
  BY DEF Yield, Running
<1>2. t \in live /\ t \notin Range(runqueue) /\ NoTask \notin Task
  BY <1>1, ParkedFacts DEF CoopOK
<1>3. /\ runqueue' \in Seq(Task) /\ IsInjective(runqueue')
      /\ Range(runqueue') = Range(runqueue) \cup {t}
  BY <1>1, <1>2, AppendToQueue DEF CoopOK
<1>4. CoopOK' /\ Parked' = Parked
  BY <1>1, <1>2, <1>3 DEF CoopOK, Parked
<1> QED BY <1>1, <1>4, ParkedFacts DEF CoopNext

(* taskcreate().                                                           *)
LEMMA CreateEffect ==
  ASSUME CoopOK, NEW t \in Task, NEW u \in Task, Create(t, u)
  PROVE  /\ CoopOK' /\ Parked' = Parked /\ live' = live \cup {u}
         /\ running' = running /\ ended' = ended /\ ~ended
<1>1. /\ runqueue' = Append(runqueue, u) /\ running = t /\ ~ended /\ u \notin live
      /\ live' = live \cup {u} /\ UNCHANGED <<system, running, ended>>
  BY DEF Create, Running
<1>2. t \in live /\ u \notin Range(runqueue) /\ NoTask \notin Task
  BY <1>1, ParkedFacts DEF CoopOK
<1>3. /\ runqueue' \in Seq(Task) /\ IsInjective(runqueue')
      /\ Range(runqueue') = Range(runqueue) \cup {u}
  BY <1>1, <1>2, AppendToQueue DEF CoopOK
<1>4. CoopOK' /\ Parked' = Parked
  BY <1>1, <1>2, <1>3 DEF CoopOK, Parked
<1> QED BY <1>1, <1>4

(* tasksystem().                                                           *)
LEMMA SystemEffect ==
  ASSUME CoopOK, NEW t \in Task, SetSystem(t)
  PROVE  /\ CoopOK' /\ Parked' = Parked /\ live' = live /\ system' = system \cup {t}
         /\ running = t /\ running' = running /\ ended' = ended /\ ~ended /\ CoopNext
<1>1. /\ running = t /\ ~ended /\ system' = system \cup {t}
      /\ UNCHANGED <<live, runqueue, running, ended>>
  BY DEF SetSystem, Running
<1>2. CoopOK' /\ Parked' = Parked
  BY <1>1 DEF CoopOK, Parked
<1> QED BY <1>1, <1>2 DEF CoopNext

(* taskexit().                                                             *)
LEMMA ExitEffect ==
  ASSUME CoopOK, NEW t \in Task, Exit(t)
  PROVE  /\ CoopOK' /\ Parked' = Parked /\ t \notin Parked /\ live' = live \ {t}
         /\ running' = NoTask /\ ended' = ended /\ ~ended
         /\ CoopNext
<1>1. /\ running = t /\ ~ended /\ live' = live \ {t} /\ system' = system \ {t}
      /\ running' = NoTask /\ UNCHANGED <<runqueue, ended>>
  BY DEF Exit, Running
<1>2. t \notin Range(runqueue) /\ NoTask \notin Task
  BY <1>1, ParkedFacts DEF CoopOK
<1>3. CoopOK' /\ Parked' = Parked
  BY <1>1, <1>2 DEF CoopOK, Parked
<1> QED BY <1>1, <1>3, ParkedFacts DEF CoopNext

(* taskexitall() and abort().                                              *)
LEMMA ExitAllEffect ==
  ASSUME CoopOK, NEW t \in Task, ExitAll(t)
  PROVE  /\ CoopOK' /\ Parked' = Parked /\ t \notin Parked /\ live' = live
         /\ running' = running /\ ended'
         /\ CoopNext
<1>1. /\ running = t /\ ~ended /\ ended' = TRUE
      /\ UNCHANGED <<live, system, runqueue, running>>
  BY DEF ExitAll, Running
<1>2. CoopOK' /\ Parked' = Parked
  BY <1>1 DEF CoopOK, Parked
<1> QED BY <1>1, <1>2, ParkedFacts DEF CoopNext

(* The scheduler switches to the head of the run queue.                    *)
LEMMA DispatchEffect ==
  ASSUME CoopOK, Dispatch
  PROVE  /\ CoopOK' /\ Parked' = Parked /\ live' = live
         /\ running' \in live \ Parked /\ running = NoTask /\ ended' = ended /\ ~ended
         /\ CoopNext
<1>1. /\ running = NoTask /\ ~ended /\ runqueue # <<>>
      /\ running' = Head(runqueue) /\ runqueue' = Tail(runqueue)
      /\ UNCHANGED <<live, system, ended>>
  BY DEF Dispatch
<1>2. /\ Head(runqueue) \in Range(runqueue) /\ Tail(runqueue) \in Seq(Task)
      /\ Range(Tail(runqueue)) = Range(runqueue) \ {Head(runqueue)}
      /\ IsInjective(Tail(runqueue))
  BY <1>1, PopQueue DEF CoopOK
<1>3. NoTask \notin live /\ Range(runqueue) \subseteq live
  BY CoopAssumption DEF CoopOK
<1>4. CoopOK'
  BY <1>1, <1>2 DEF CoopOK
<1>5. Parked' = Parked
  BY <1>1, <1>2, <1>3 DEF Parked
<1> QED BY <1>1, <1>2, <1>3, <1>4, <1>5, ParkedFacts DEF CoopNext

(* The end of the program in the scheduler.                                *)
LEMMA EndEffect ==
  ASSUME CoopOK, End
  PROVE  /\ CoopOK' /\ Parked' = Parked /\ live' = live
         /\ running = NoTask /\ running' = running /\ ended'
         /\ CoopNext
<1>1. /\ running = NoTask /\ ended' = TRUE
      /\ UNCHANGED <<live, system, runqueue, running>>
  BY DEF End
<1>2. CoopOK' /\ Parked' = Parked
  BY <1>1 DEF CoopOK, Parked
<1> QED BY <1>1, <1>2 DEF CoopNext

(* A step of a primitive that leaves the scheduler alone.                  *)
LEMMA IdleEffect ==
  ASSUME CoopOK, UNCHANGED coopVars
  PROVE  CoopOK' /\ Parked' = Parked
BY DEF coopVars, CoopOK, Parked

(* Where a program starts whose tasks have all been created.               *)
LEMMA AllReadyFacts ==
  ASSUME AllReady
  PROVE  CoopOK /\ Parked = {} /\ running = NoTask /\ ~ended /\ live = Task
<1>1. /\ live = Task /\ system = {} /\ running = NoTask /\ ended = FALSE
      /\ runqueue \in Injection(1..Cardinality(Task), Task)
  BY DEF AllReady
<1>2. Cardinality(Task) \in Nat /\ IsFiniteSet(Task) /\ NoTask \notin Task
  BY CoopAssumption, FS_CardinalityType
<1>3. runqueue \in [1..Cardinality(Task) -> Task] /\ IsInjective(runqueue)
  BY <1>1 DEF Injection, IsInjective
<1>4. runqueue \in Seq(Task) /\ Len(runqueue) = Cardinality(Task)
  BY <1>2, <1>3, FunctionIsQueue
<1>5. Range(runqueue) \subseteq Task
  BY <1>4, RangeOfQueue
<1>6. Cardinality(Range(runqueue)) = Cardinality(Task)
  BY <1>3, <1>4, QueueLength
<1>7. Range(runqueue) = Task
  BY <1>2, <1>5, <1>6, FS_Subset
<1> QED BY <1>1, <1>2, <1>3, <1>4, <1>7 DEF CoopOK, Parked
=============================================================================
