----------------------------- MODULE SchedProofs -----------------------------
(***************************************************************************)
(* Theorems about the scheduler of module Sched, for every set of tasks, *)
(* every allocation chunk and every width of the switch counter.         *)
(*                                                                       *)
(* The inductive invariant is IInv, the conjunction of the invariants the*)
(* runs check.  None of its parts but TypeOK is inductive alone: that the*)
(* queue holds live tasks needs the table's slots to be right when a task*)
(* is cleaned up, and the count of the tasks needs both.                 *)
(*                                                                       *)
(* What the README promises of taskyield() and taskexit() is proved of   *)
(* the scheduler with the history variables of module SchedHist: TurnInv *)
(* and LeaverInv are the inductive forms of its two invariants.          *)
(***************************************************************************)
EXTENDS SchedHist, QueueFacts, FiniteSetTheorems

IInv == TypeOK /\ RunQueueInv /\ TableInv /\ CountInv

-----------------------------------------------------------------------------
(* What a primitive may make ready: some parked tasks, each once.        *)
LEMMA WokenAreParked ==
  ASSUME TypeOK, NEW ws \in WakeLists(Parked)
  PROVE  ws \in Seq(Task) /\ IsInjective(ws) /\ Range(ws) \subseteq Parked
<1>1. PICK n \in 0..Cardinality(Parked) : ws \in Injection(1..n, Parked)
  BY DEF WakeLists
<1>2. Parked \subseteq Task
  BY DEF Parked, Live, Range, TypeOK
<1>3. n \in Nat
  OBVIOUS
<1>4. ws \in [1..n -> Parked] /\ IsInjective(ws)
  BY <1>1 DEF Injection
<1>5. ws \in Seq(Parked)
  BY <1>3, <1>4
<1>6. ws \in Seq(Task)
  BY <1>2, <1>4, <1>3
<1>7. Range(ws) \subseteq Parked
  BY <1>4 DEF Range
<1> QED BY <1>4, <1>6, <1>7

(* taskready() of tasks that are not queued keeps the queue in order.    *)
LEMMA ReadyKeepsQueue ==
  ASSUME TypeOK, RunQueueInv, NEW ws \in Seq(Task), IsInjective(ws),
         Range(ws) \cap Range(runqueue) = {}, MakeReady(ws)
  PROVE  /\ runqueue' \in Seq(Task) /\ IsInjective(runqueue')
         /\ Range(runqueue') = Range(runqueue) \cup Range(ws)
         /\ ready' = [t \in Task |-> ready[t] \/ t \in Range(ws)]
<1>1. runqueue \in Seq(Task) /\ IsInjective(runqueue)
  BY DEF TypeOK, RunQueueInv
<1>2. runqueue' = runqueue \o ws
  BY DEF MakeReady
<1> QED BY <1>1, <1>2, JoinQueue DEF MakeReady

-----------------------------------------------------------------------------
(* TypeOK holds at the start ...                                         *)
LEMMA TypeInit == Init => TypeOK
<1> SUFFICES ASSUME Init PROVE TypeOK
  OBVIOUS
<1>1. PICK t \in Task : /\ alltask = <<t>>
                        /\ alltaskslot = [u \in Task |-> 0]
                        /\ ready = [u \in Task |-> u = t]
                        /\ runqueue = <<t>>
  BY DEF Init
<1>2. IntRange \in Nat /\ IntRange > 0 /\ 0 \in Status /\ Chunk \in Nat
  <2>1. Cardinality(Task) \in Nat
    BY SchedAssumption, FS_CardinalityType
  <2> QED BY <2>1, SchedAssumption
<1>3. alltask \in Seq(Task) /\ runqueue \in Seq(Task)
  BY <1>1
<1>4. ready \in [Task -> BOOLEAN] /\ alltaskslot \in [Task -> Nat]
  BY <1>1
<1>5. system \in [Task -> BOOLEAN] /\ exiting \in [Task -> BOOLEAN]
  BY DEF Init
<1>6. allcap \in Nat /\ tasknswitch \in 0..(IntRange - 1) /\ taskcount \in Int
  BY <1>2 DEF Init
<1>7. yieldn \in [Task -> 0..(IntRange - 1) \cup {NoYield}]
  BY DEF Init
<1>8. /\ taskrunning \in Task \cup {NoTask} /\ oncpu \in {"sched", "task"}
      /\ taskexitval \in Status /\ ended \in {"no", "done", "stalled", "exitall"}
  BY <1>2 DEF Init
<1> QED BY <1>3, <1>4, <1>5, <1>6, <1>7, <1>8 DEF TypeOK

(* ... and every call and every turn of the scheduler keeps it.          *)
LEMMA TypeStep == TypeOK /\ [Next]_schedVars => TypeOK'
<1> SUFFICES ASSUME TypeOK, [Next]_schedVars PROVE TypeOK'
  OBVIOUS
<1> USE DEF TypeOK
<1>0. IntRange \in Nat /\ IntRange > 0 /\ Chunk \in Nat /\ Chunk > 0
  <2>1. Cardinality(Task) \in Nat
    BY SchedAssumption, FS_CardinalityType
  <2> QED BY <2>1, SchedAssumption
<1>a. ASSUME NEW ws \in Seq(Task), MakeReady(ws)
      PROVE  runqueue' \in Seq(Task) /\ ready' \in [Task -> BOOLEAN]
  BY <1>a DEF MakeReady
<1>1. ASSUME NEW t \in Task, NEW u \in Task, TaskCreate(t, u) PROVE TypeOK'
  <2>1. <<u>> \in Seq(Task)
    OBVIOUS
  <2>2. runqueue' \in Seq(Task) /\ ready' \in [Task -> BOOLEAN]
    BY <1>1, <1>a, <2>1 DEF TaskCreate
  <2>3. Grow \in Nat
    BY <1>0 DEF Grow
  <2>4. alltask' \in Seq(Task) /\ alltaskslot' \in [Task -> Nat]
    BY <1>1 DEF TaskCreate
  <2> QED BY <1>1, <2>2, <2>3, <2>4 DEF TaskCreate
<1>2. ASSUME NEW t \in Task, TaskSystem(t) PROVE TypeOK'
  BY <1>2 DEF TaskSystem
<1>3. ASSUME NEW t \in Task, TaskYield(t) PROVE TypeOK'
  <2>1. runqueue' \in Seq(Task) /\ ready' \in [Task -> BOOLEAN]
    <3>1. <<t>> \in Seq(Task)
      OBVIOUS
    <3> QED BY <1>3, <1>a, <3>1 DEF TaskYield
  <2> QED BY <1>3, <2>1 DEF TaskYield, SwitchOut, taskVars
<1>4. ASSUME NEW t \in Task, YieldReturn(t) PROVE TypeOK'
  BY <1>4 DEF YieldReturn, taskVars
<1>5. ASSUME NEW t \in Task, NEW v \in Status, TaskExit(t, v) PROVE TypeOK'
  BY <1>5 DEF TaskExit, SwitchOut
<1>6. ASSUME NEW t \in Task, TaskExitAll(t) PROVE TypeOK'
  BY <1>6 DEF TaskExitAll, taskVars
<1>7. ASSUME NEW t \in Task, NEW ws \in WakeLists(Parked), Wake(t, ws) \/ Block(t, ws)
      PROVE  TypeOK'
  <2>1. runqueue' \in Seq(Task) /\ ready' \in [Task -> BOOLEAN]
    BY <1>7, <1>a, WokenAreParked DEF Wake, Block
  <2> QED BY <1>7, <2>1 DEF Wake, Block, SwitchOut, taskVars
<1>8. CASE SwitchedOut
  <2>1. taskrunning \in Task
    BY <1>8 DEF SwitchedOut
  <2>2. alltaskslot[taskrunning] \in Nat
    BY <2>1
  <2>3. alltask' \in Seq(Task)
    <3>1. CASE alltask' = alltask
      BY <3>1
    <3>2. CASE alltask' = WithoutSlot(alltaskslot[taskrunning])
      <4>1. CASE Len(alltask) = 0
        BY <3>2, <4>1 DEF WithoutSlot
      <4>2. CASE Len(alltask) > 0
        <5>1. Len(alltask) \in 1..Len(alltask) /\ Len(alltask) - 1 \in Nat
          BY <4>2
        <5>2. \A k \in 1..(Len(alltask) - 1) : alltask[k] \in Task
          OBVIOUS
        <5>3. alltask[Len(alltask)] \in Task
          BY <5>1
        <5>4. alltask' \in [1..(Len(alltask) - 1) -> Task]
          BY <3>2, <5>2, <5>3 DEF WithoutSlot
        <5> QED BY <5>1, <5>4, FunctionIsQueue
      <4> QED BY <4>1, <4>2
    <3> QED BY <1>8, <3>1, <3>2 DEF SwitchedOut
  <2>4. taskcount' \in Int
    BY <1>8 DEF SwitchedOut
  <2>5. alltaskslot' \in [Task -> Nat]
    <3>1. CASE exiting[taskrunning]
      <4>1. alltaskslot' = [alltaskslot EXCEPT ![alltask[Len(alltask)]] =
                              alltaskslot[taskrunning]]
        BY <1>8, <3>1 DEF SwitchedOut
      <4> QED BY <2>2, <4>1
    <3>2. CASE ~exiting[taskrunning]
      BY <1>8, <3>2 DEF SwitchedOut
    <3> QED BY <3>1, <3>2
  <2> QED BY <1>8, <2>3, <2>4, <2>5 DEF SwitchedOut
<1>9. CASE Dispatch
  <2>1. Head(runqueue) \in Task /\ Tail(runqueue) \in Seq(Task)
    BY <1>9, HeadTailProperties DEF Dispatch
  <2>2. tasknswitch' \in 0..(IntRange - 1)
    BY <1>0, <1>9 DEF Dispatch, NextSwitch
  <2> QED BY <1>9, <2>1, <2>2 DEF Dispatch, taskVars
<1>10. CASE Done \/ Stalled
  BY <1>10 DEF Done, Stalled, taskVars
<1>11. CASE UNCHANGED schedVars
  BY <1>11 DEF schedVars
<1> QED BY <1>1, <1>2, <1>3, <1>4, <1>5, <1>6, <1>7, <1>8, <1>9, <1>10, <1>11
        DEF Next, TaskStep, Scheduler, Terminated

(* The variables of task.c have their types in every reachable state.    *)
THEOREM TypeCorrect == Spec => []TypeOK
BY TypeInit, TypeStep, PTL DEF Spec
-----------------------------------------------------------------------------
(* The table holds Task blocks; the nil pointer is not in it.            *)
LEMMA LiveAreTasks == TypeOK => Live \subseteq Task /\ NoTask \notin Live
BY SchedAssumption DEF TypeOK, Live, Range

(* The task a call is made by is in the table, not queued and not exiting.*)
LEMMA CallerFacts ==
  ASSUME TypeOK, RunQueueInv, NEW t \in Task, Running(t)
  PROVE  t = taskrunning /\ t \in Live /\ t \notin Range(runqueue) /\ ~exiting[t]
BY DEF RunQueueInv, Running

(* RunQueueInv holds at the start ...                                    *)
LEMMA QueueInit == Init => RunQueueInv
<1> SUFFICES ASSUME Init PROVE RunQueueInv
  OBVIOUS
<1>1. PICK t \in Task : /\ alltask = <<t>> /\ runqueue = <<t>>
                        /\ ready = [u \in Task |-> u = t]
  BY DEF Init
<1>2. Range(runqueue) = {t} /\ Live = {t} /\ IsInjective(runqueue)
  BY <1>1, QueueOfOne DEF Live
<1> QED BY <1>1, <1>2 DEF Init, RunQueueInv

(* ... and is kept by readying the tasks ws, none of which is queued,    *)
(* exiting or going on to run.                                           *)
LEMMA QueueReady ==
  ASSUME TypeOK, RunQueueInv,
         NEW ws \in Seq(Task), IsInjective(ws), MakeReady(ws),
         Range(ws) \cap Range(runqueue) = {},
         Live' = Live \cup Range(ws),
         \A t \in Range(ws) : ~exiting'[t],
         \A t \in Live : exiting'[t] = exiting[t],
         taskrunning' = taskrunning, taskrunning \in Live,
         \A t \in Live : ~exiting[t],
         oncpu' = "task" => taskrunning \notin Range(runqueue) \cup Range(ws)
  PROVE  RunQueueInv'
<1>1. /\ IsInjective(runqueue')
      /\ Range(runqueue') = Range(runqueue) \cup Range(ws)
      /\ ready' = [t \in Task |-> ready[t] \/ t \in Range(ws)]
  BY ReadyKeepsQueue
<1>2. Live \subseteq Task /\ Range(ws) \subseteq Task
  BY LiveAreTasks, RangeOfQueue
<1> QED BY <1>1, <1>2 DEF RunQueueInv

(* The slot of a task in the table is its own: what the clean-up removes *)
(* is the task that was switched out.                                    *)
LEMMA CleanUp ==
  ASSUME TypeOK, RunQueueInv, TableInv, SwitchedOut, exiting[taskrunning]
  PROVE  /\ Range(alltask') = Range(alltask) \ {taskrunning}
         /\ IsInjective(alltask') /\ Len(alltask') = Len(alltask) - 1
         /\ \A k \in DOMAIN alltask' : alltaskslot'[alltask'[k]] = k - 1
<1> DEFINE t == taskrunning
           n == Len(alltask)
<1>1. alltask \in Seq(Task) /\ IsInjective(alltask) /\ n \in Nat
  BY DEF TypeOK, TableInv
<1>2. t \in Range(alltask)
  BY DEF SwitchedOut, RunQueueInv, Live
<1>3. PICK j \in 1..n : alltask[j] = t
  BY <1>1, <1>2, RangeOfQueue
<1>4. alltaskslot[t] = j - 1
  BY <1>1, <1>3 DEF TableInv
<1>5. n \in 1..n /\ alltask[n] \in Task
  BY <1>1, <1>3
<1>6. /\ alltask' = WithoutSlot(j - 1)
      /\ alltaskslot' = [alltaskslot EXCEPT ![alltask[n]] = j - 1]
  BY <1>4 DEF SwitchedOut
<1>7. alltask' = [k \in 1..(n - 1) |-> IF k = j THEN alltask[n] ELSE alltask[k]]
  BY <1>3, <1>6 DEF WithoutSlot
<1>8. /\ Len(alltask') = n - 1 /\ IsInjective(alltask') /\ alltask' \in Seq(Task)
      /\ Range(alltask') = Range(alltask) \ {t}
  <2>1. n - 1 \in Nat /\ \A k \in 1..(n - 1) : alltask[k] \in Task
    BY <1>1, <1>3
  <2>2. alltask' \in [1..(n - 1) -> Task]
    BY <1>5, <1>7, <2>1
  <2>3. alltask' \in Seq(Task) /\ Len(alltask') = n - 1
    BY <2>1, <2>2, FunctionIsQueue
  <2>4. \A k \in 1..(n - 1) : alltask'[k] = IF k = j THEN alltask[n] ELSE alltask[k]
    BY <1>7
  <2>5. j \in 1..Len(alltask) /\ Len(alltask') = Len(alltask) - 1
    BY <1>3, <2>3
  <2>6. Range(alltask') = Range(alltask) \ {alltask[j]} /\ IsInjective(alltask')
    BY <1>1, <2>3, <2>4, <2>5, DropSlot
  <2> QED BY <1>3, <2>3, <2>6
<1>9. ASSUME NEW k \in 1..(n - 1) PROVE alltaskslot'[alltask'[k]] = k - 1
  <2>1. k \in 1..n /\ k # n /\ alltask[k] \in Task
    BY <1>1
  <2>2. alltask[k] # alltask[n] /\ alltaskslot[alltask[k]] = k - 1
    BY <1>1, <1>5, <2>1 DEF IsInjective, TableInv
  <2>3. alltaskslot \in [Task -> Nat]
    BY DEF TypeOK
  <2>4. CASE k = j
    <3>1. alltask'[k] = alltask[n]
      BY <1>7, <2>4
    <3> QED BY <1>5, <1>6, <2>3, <2>4, <3>1
  <2>5. CASE k # j
    <3>1. alltask'[k] = alltask[k]
      BY <1>7, <2>5
    <3> QED BY <1>6, <2>1, <2>2, <2>3, <3>1
  <2> QED BY <2>4, <2>5
<1>10. DOMAIN alltask' = 1..(n - 1)
  BY <1>7
<1> QED BY <1>8, <1>9, <1>10

(* ... and taskready(), the dispatch and the clean-up keep it.           *)
LEMMA QueueStep ==
  TypeOK /\ RunQueueInv /\ TableInv /\ [Next]_schedVars => RunQueueInv'
<1> SUFFICES ASSUME TypeOK, RunQueueInv, TableInv, [Next]_schedVars
             PROVE  RunQueueInv'
  OBVIOUS
<1>0. Live \subseteq Task /\ NoTask \notin Live
  BY LiveAreTasks
<1>1. ASSUME NEW t \in Task, NEW u \in Task, TaskCreate(t, u) PROVE RunQueueInv'
  <2>1. t = taskrunning /\ t \in Live /\ \A x \in Live : ~exiting[x]
    BY <1>1, CallerFacts DEF TaskCreate, Running, RunQueueInv
  <2>2. u \notin Live /\ u \notin Range(runqueue)
    BY <1>1 DEF TaskCreate, RunQueueInv
  <2>3. <<u>> \in Seq(Task) /\ Range(<<u>>) = {u} /\ IsInjective(<<u>>)
    BY QueueOfOne
  <2>4. Live' = Live \cup {u}
    <3>1. alltask' = Append(alltask, u) /\ alltask \in Seq(Task) /\ IsInjective(alltask)
      BY <1>1 DEF TaskCreate, TypeOK, TableInv
    <3> QED BY <2>2, <3>1, AppendToQueue DEF Live
  <2>5. ~exiting'[u] /\ \A x \in Live : exiting'[x] = exiting[x]
    BY <1>0, <1>1, <2>2 DEF TaskCreate, TypeOK
  <2>6. MakeReady(<<u>>) /\ taskrunning' = taskrunning /\ oncpu' = oncpu
    BY <1>1 DEF TaskCreate
  <2>7. taskrunning \notin Range(runqueue) \cup {u}
    BY <1>1, <2>1, <2>2, CallerFacts DEF TaskCreate
  <2> QED BY <2>1, <2>2, <2>3, <2>4, <2>5, <2>6, <2>7, QueueReady
<1>2. ASSUME NEW t \in Task, TaskSystem(t) PROVE RunQueueInv'
  BY <1>2 DEF TaskSystem, RunQueueInv, Live
<1>3. ASSUME NEW t \in Task, TaskYield(t) PROVE RunQueueInv'
  <2>1. /\ t = taskrunning /\ t \in Live /\ t \notin Range(runqueue)
        /\ \A x \in Live : ~exiting[x]
    BY <1>3, CallerFacts DEF TaskYield, Running, RunQueueInv
  <2>2. <<t>> \in Seq(Task) /\ Range(<<t>>) = {t} /\ IsInjective(<<t>>)
    BY QueueOfOne
  <2>3. /\ MakeReady(<<t>>) /\ taskrunning' = taskrunning /\ oncpu' = "sched"
        /\ Live' = Live /\ exiting' = exiting
    BY <1>3 DEF TaskYield, SwitchOut, taskVars, Live
  <2> QED BY <2>1, <2>2, <2>3, QueueReady
<1>4. ASSUME NEW t \in Task, YieldReturn(t) PROVE RunQueueInv'
  BY <1>4 DEF YieldReturn, taskVars, RunQueueInv, Live
<1>5. ASSUME NEW t \in Task, NEW v \in Status, TaskExit(t, v) PROVE RunQueueInv'
  <2>1. t = taskrunning /\ t \in Live /\ t \notin Range(runqueue)
    BY <1>5, CallerFacts DEF TaskExit
  <2>2. /\ exiting' = [exiting EXCEPT ![t] = TRUE] /\ oncpu' = "sched"
        /\ Live' = Live /\ UNCHANGED <<ready, runqueue, taskrunning>>
    BY <1>5 DEF TaskExit, SwitchOut, Live
  <2>3. exiting \in [Task -> BOOLEAN] /\ \A x \in Live : ~exiting[x]
    BY <1>5 DEF TaskExit, Running, TypeOK, RunQueueInv
  <2> QED BY <1>0, <2>1, <2>2, <2>3 DEF RunQueueInv
<1>6. ASSUME NEW t \in Task, TaskExitAll(t) PROVE RunQueueInv'
  BY <1>6 DEF TaskExitAll, taskVars, RunQueueInv, Live
<1>7. ASSUME NEW t \in Task, NEW ws \in WakeLists(Parked), Wake(t, ws) \/ Block(t, ws)
      PROVE  RunQueueInv'
  <2>1. /\ t = taskrunning /\ t \in Live /\ t \notin Range(runqueue)
        /\ \A x \in Live : ~exiting[x]
    BY <1>7, CallerFacts DEF Wake, Block, Running, RunQueueInv
  <2>2. ws \in Seq(Task) /\ IsInjective(ws) /\ Range(ws) \subseteq Parked
    BY WokenAreParked
  <2>3. /\ Range(ws) \cap Range(runqueue) = {} /\ Range(ws) \subseteq Live
        /\ taskrunning \notin Range(ws)
    BY <2>2 DEF Parked, RunQueueInv
  <2>4. /\ MakeReady(ws) /\ taskrunning' = taskrunning
        /\ Live' = Live /\ exiting' = exiting
    BY <1>7 DEF Wake, Block, taskVars, Live
  <2> QED BY <2>1, <2>2, <2>3, <2>4, QueueReady
<1>8. CASE SwitchedOut
  <2>1. /\ oncpu = "sched" /\ oncpu' = oncpu /\ taskrunning' = NoTask
        /\ UNCHANGED <<exiting, ready, runqueue>>
    BY <1>8 DEF SwitchedOut
  <2>2. CASE exiting[taskrunning]
    <3>1. Live' = Live \ {taskrunning}
      BY <1>8, <2>2, CleanUp DEF Live
    <3> QED BY <2>1, <2>2, <3>1 DEF RunQueueInv
  <2>3. CASE ~exiting[taskrunning]
    <3>1. Live' = Live
      BY <1>8, <2>3 DEF SwitchedOut, Live
    <3> QED BY <2>1, <2>3, <3>1 DEF RunQueueInv
  <2> QED BY <2>2, <2>3
<1>9. CASE Dispatch
  <2>1. runqueue # <<>> /\ runqueue \in Seq(Task) /\ IsInjective(runqueue)
    BY <1>9 DEF Dispatch, TypeOK, RunQueueInv
  <2>2. /\ Head(runqueue) \in Range(runqueue) /\ IsInjective(Tail(runqueue))
        /\ Range(Tail(runqueue)) = Range(runqueue) \ {Head(runqueue)}
    BY <2>1, PopQueue
  <2>3. /\ runqueue' = Tail(runqueue) /\ taskrunning' = Head(runqueue)
        /\ ready' = [ready EXCEPT ![Head(runqueue)] = FALSE]
        /\ oncpu' = "task" /\ Live' = Live /\ exiting' = exiting
        /\ oncpu = "sched" /\ taskrunning = NoTask
    BY <1>9 DEF Dispatch, AtTop, taskVars, Live
  <2>4. ready \in [Task -> BOOLEAN]
    BY DEF TypeOK
  <2> QED BY <1>0, <2>2, <2>3, <2>4 DEF RunQueueInv
<1>10. CASE Done \/ Stalled
  BY <1>10 DEF Done, Stalled, taskVars, RunQueueInv, Live
<1>11. CASE UNCHANGED schedVars
  BY <1>11 DEF schedVars, RunQueueInv, Live
<1> QED BY <1>1, <1>2, <1>3, <1>4, <1>5, <1>6, <1>7, <1>8, <1>9, <1>10, <1>11
        DEF Next, TaskStep, Scheduler, Terminated
-----------------------------------------------------------------------------
(* TableInv holds of the table main() starts with ...                    *)
LEMMA TableInit == Init => TableInv
<1> SUFFICES ASSUME Init PROVE TableInv
  OBVIOUS
<1>1. PICK t \in Task : alltask = <<t>> /\ alltaskslot = [u \in Task |-> 0]
  BY DEF Init
<1>2. allcap = Chunk /\ Chunk \in Nat \ {0}
  BY SchedAssumption DEF Init
<1>3. Chunk % Chunk = 0
  BY <1>2
<1> QED BY <1>1, <1>2, <1>3, QueueOfOne DEF TableInv

(* ... and taskcreate() and the swap with the last slot keep it.         *)
LEMMA TableStep ==
  TypeOK /\ RunQueueInv /\ TableInv /\ [Next]_schedVars => TableInv'
<1> SUFFICES ASSUME TypeOK, RunQueueInv, TableInv, [Next]_schedVars
             PROVE  TableInv'
  OBVIOUS
<1>1. ASSUME UNCHANGED <<alltask, allcap, alltaskslot>> PROVE TableInv'
  BY <1>1 DEF TableInv
<1>2. ASSUME NEW t \in Task, NEW u \in Task, TaskCreate(t, u) PROVE TableInv'
  <2> DEFINE n == Len(alltask)
  <2>1. /\ alltask \in Seq(Task) /\ n \in Nat /\ allcap \in Nat
        /\ alltaskslot \in [Task -> Nat] /\ IsInjective(alltask)
        /\ n <= allcap /\ allcap % Chunk = 0 /\ Chunk \in Nat \ {0}
    BY SchedAssumption DEF TypeOK, TableInv
  <2>2. /\ alltask' = Append(alltask, u) /\ allcap' = Grow
        /\ alltaskslot' = [alltaskslot EXCEPT ![u] = n]
        /\ u \notin Range(alltask)
    BY <1>2 DEF TaskCreate, Live
  <2>3. IsInjective(alltask') /\ Len(alltask') = n + 1 /\ DOMAIN alltask' = 1..(n + 1)
    BY <2>1, <2>2, AppendToQueue
  <2>4. /\ n % Chunk = 0 => (n + Chunk) % Chunk = 0
        /\ n % Chunk # 0 => n + 1 <= allcap
    BY <2>1, Capacity
  <2>5. n + 1 <= allcap' /\ allcap' % Chunk = 0
    <3>1. CASE n % Chunk = 0
      <4>1. allcap' = n + Chunk
        BY <2>2, <3>1 DEF Grow
      <4>2. n + 1 <= n + Chunk
        BY <2>1
      <4> QED BY <2>4, <3>1, <4>1, <4>2
    <3>2. CASE n % Chunk # 0
      BY <2>1, <2>2, <2>4, <3>2 DEF Grow
    <3> QED BY <3>1, <3>2
  <2>6. ASSUME NEW i \in 1..(n + 1) PROVE alltaskslot'[alltask'[i]] = i - 1
    <3>1. CASE i = n + 1
      BY <2>1, <2>2, <3>1
    <3>2. CASE i # n + 1
      <4>1. i \in 1..n /\ alltask'[i] = alltask[i]
        BY <2>1, <2>2, <3>2
      <4>2. alltask[i] # u /\ alltask[i] \in Task
        BY <2>1, <2>2, <4>1 DEF Range
      <4>3. alltaskslot[alltask[i]] = i - 1
        BY <4>1 DEF TableInv
      <4> QED BY <2>1, <2>2, <4>1, <4>2, <4>3
    <3> QED BY <3>1, <3>2
  <2> QED BY <2>3, <2>5, <2>6 DEF TableInv
<1>3. CASE SwitchedOut
  <2>1. CASE exiting[taskrunning]
    <3>1. /\ IsInjective(alltask') /\ Len(alltask') = Len(alltask) - 1
          /\ \A k \in DOMAIN alltask' : alltaskslot'[alltask'[k]] = k - 1
      BY <1>3, <2>1, CleanUp
    <3>2. allcap' = allcap /\ allcap \in Nat /\ Len(alltask) \in Nat
      BY <1>3 DEF SwitchedOut, TypeOK
    <3> QED BY <3>1, <3>2 DEF TableInv
  <2>2. CASE ~exiting[taskrunning]
    BY <1>1, <1>3, <2>2 DEF SwitchedOut
  <2> QED BY <2>1, <2>2
<1>4. ASSUME NEW t \in Task, TaskStep(t), ~\E u \in Task : TaskCreate(t, u)
      PROVE  UNCHANGED <<alltask, allcap, alltaskslot>>
  BY <1>4 DEF TaskStep, TaskSystem, TaskYield, YieldReturn, TaskExit,
              TaskExitAll, Wake, Block, taskVars
<1>5. CASE Dispatch \/ Done \/ Stalled \/ UNCHANGED schedVars
  BY <1>1, <1>5 DEF Dispatch, Done, Stalled, taskVars, schedVars
<1> QED BY <1>1, <1>2, <1>3, <1>4, <1>5 DEF Next, Scheduler, Terminated

-----------------------------------------------------------------------------
(* There are finitely many non-system tasks to count.                    *)
LEMMA UsersAreFinite == TypeOK => IsFiniteSet(Users)
<1> SUFFICES ASSUME TypeOK PROVE IsFiniteSet(Users)
  OBVIOUS
<1>1. Users \in SUBSET Task
  BY LiveAreTasks DEF Users
<1> QED BY <1>1, SchedAssumption, FS_Subset

(* taskcount starts with the one task of taskmain() ...                  *)
LEMMA CountInit == Init => CountInv
<1> SUFFICES ASSUME Init PROVE CountInv
  OBVIOUS
<1>1. PICK t \in Task : alltask = <<t>>
  BY DEF Init
<1>2. Live = {t}
  BY <1>1, QueueOfOne DEF Live
<1>3. Users = {t}
  BY <1>2 DEF Init, Users
<1> QED BY <1>3, FS_Singleton DEF CountInv, Init

(* ... and taskcreate(), tasksystem() and the clean-up keep count.       *)
LEMMA CountStep == IInv /\ [Next]_schedVars => CountInv'
<1> SUFFICES ASSUME TypeOK, RunQueueInv, TableInv, CountInv, [Next]_schedVars
             PROVE  CountInv'
  BY DEF IInv
<1>0. IsFiniteSet(Users) /\ Live \subseteq Task /\ system \in [Task -> BOOLEAN]
  BY UsersAreFinite, LiveAreTasks DEF TypeOK
<1>1. ASSUME UNCHANGED <<alltask, system, taskcount>> PROVE CountInv'
  BY <1>1 DEF CountInv, Users, Live
<1>2. ASSUME NEW t \in Task, NEW u \in Task, TaskCreate(t, u) PROVE CountInv'
  <2>1. u \notin Live /\ system' = [system EXCEPT ![u] = FALSE]
    BY <1>2 DEF TaskCreate
  <2>2. Live' = Live \cup {u}
    <3>1. alltask' = Append(alltask, u) /\ alltask \in Seq(Task) /\ IsInjective(alltask)
      BY <1>2 DEF TaskCreate, TypeOK, TableInv
    <3> QED BY <2>1, <3>1, AppendToQueue DEF Live
  <2>3. Users' = Users \cup {u} /\ u \notin Users
    BY <1>0, <2>1, <2>2 DEF Users
  <2>4. taskcount' = taskcount + 1
    BY <1>2 DEF TaskCreate
  <2> QED BY <1>0, <2>3, <2>4, FS_AddElement DEF CountInv
<1>3. ASSUME NEW t \in Task, TaskSystem(t) PROVE CountInv'
  <2>1. t \in Live /\ ~system[t] /\ system' = [system EXCEPT ![t] = TRUE]
    BY <1>3, CallerFacts DEF TaskSystem
  <2>2. Live' = Live /\ taskcount' = taskcount - 1
    BY <1>3 DEF TaskSystem, Live
  <2>3. Users' = Users \ {t} /\ t \in Users
    BY <1>0, <2>1, <2>2 DEF Users
  <2> QED BY <1>0, <2>2, <2>3, FS_RemoveElement DEF CountInv
<1>4. CASE SwitchedOut
  <2> DEFINE t == taskrunning
  <2>1. t \in Live /\ system' = system
    BY <1>4 DEF SwitchedOut, RunQueueInv
  <2>2. CASE ~exiting[t]
    BY <1>1, <1>4, <2>2 DEF SwitchedOut
  <2>3. CASE exiting[t]
    <3>1. Live' = Live \ {t}
      BY <1>4, <2>3, CleanUp DEF Live
    <3>2. Users' = Users \ {t} /\ (t \in Users <=> ~system[t])
      BY <2>1, <3>1 DEF Users
    <3>3. taskcount' = IF system[t] THEN taskcount ELSE taskcount - 1
      BY <1>4, <2>3 DEF SwitchedOut
    <3> QED BY <1>0, <3>2, <3>3, FS_RemoveElement DEF CountInv
  <2> QED BY <2>2, <2>3
<1>5. ASSUME NEW t \in Task, TaskStep(t), ~\E u \in Task : TaskCreate(t, u),
             ~TaskSystem(t)
      PROVE  UNCHANGED <<alltask, system, taskcount>>
  BY <1>5 DEF TaskStep, TaskYield, YieldReturn, TaskExit, TaskExitAll, Wake,
              Block, taskVars
<1>6. CASE Dispatch \/ Done \/ Stalled \/ UNCHANGED schedVars
  BY <1>1, <1>6 DEF Dispatch, Done, Stalled, taskVars, schedVars
<1> QED BY <1>1, <1>2, <1>3, <1>4, <1>5, <1>6 DEF Next, Scheduler, Terminated

-----------------------------------------------------------------------------
(* All invariants at once: they lean on each other.                      *)
THEOREM Invariance == Spec => []IInv
<1>1. Init => IInv
  BY TypeInit, QueueInit, TableInit, CountInit DEF IInv
<1>2. IInv /\ [Next]_schedVars => IInv'
  BY TypeStep, QueueStep, TableStep, CountStep DEF IInv
<1> QED BY <1>1, <1>2, PTL DEF Spec

(* taskrunqueue holds each ready task once, and no other.                *)
THEOREM QueueCorrect == Spec => []RunQueueInv
<1>1. IInv => RunQueueInv
  BY DEF IInv
<1> QED BY <1>1, Invariance, PTL

(* alltask is large enough and every task knows its slot.                *)
THEOREM TableCorrect == Spec => []TableInv
<1>1. IInv => TableInv
  BY DEF IInv
<1> QED BY <1>1, Invariance, PTL

(* taskcount is the number of non-system tasks.                          *)
THEOREM CountCorrect == Spec => []CountInv
<1>1. IInv => CountInv
  BY DEF IInv
<1> QED BY <1>1, Invariance, PTL

(* The program ends as "done" only without non-system tasks, and as      *)
(* stalled only when all its tasks are parked and one is not a system task.*)
THEOREM EndCorrect == Spec => []EndInv
<1>1. Init => EndInv
  BY DEF Init, EndInv
<1>2. IInv /\ EndInv /\ [Next]_schedVars => EndInv'
  <2> SUFFICES ASSUME IInv, EndInv, [Next]_schedVars PROVE EndInv'
    OBVIOUS
  <2> USE DEF IInv
  <2>1. CASE Done
    <3>1. Users = {}
      BY <2>1, UsersAreFinite, FS_EmptySet DEF CountInv, Done, NoneLeft
    <3> QED BY <2>1, <3>1 DEF Done, EndInv, Users, Live, taskVars
  <2>2. CASE Stalled
    <3>1. Users # {}
      BY <2>2, FS_EmptySet DEF CountInv, Stalled, NoneLeft
    <3>2. Parked = Live
      <4>1. Range(runqueue) = {} /\ taskrunning \notin Live
        BY <2>2, EmptyQueue, LiveAreTasks DEF Stalled, AtTop, TypeOK
      <4> QED BY <4>1 DEF Parked, RunQueueInv
    <3> QED BY <2>2, <3>1, <3>2 DEF Stalled, EndInv, Users, Live, Parked, taskVars
  <2>3. ASSUME NEW t \in Task, TaskStep(t) PROVE ended' \in {"no", "exitall"}
    BY <2>3 DEF TaskStep, TaskCreate, TaskSystem, TaskYield, YieldReturn,
                TaskExit, TaskExitAll, Wake, Block, Running, taskVars
  <2>4. CASE SwitchedOut \/ Dispatch
    BY <2>4 DEF SwitchedOut, Dispatch, AtTop, EndInv
  <2>5. CASE UNCHANGED schedVars
    BY <2>5 DEF schedVars, EndInv, Users, Live, Parked
  <2> QED BY <2>1, <2>2, <2>3, <2>4, <2>5 DEF Next, Scheduler, Terminated, EndInv
<1> QED BY <1>1, <1>2, Invariance, PTL DEF Spec

(* Nothing but the clean-up of the task that was switched out after      *)
(* taskexit() takes a task off the table.                                *)
THEOREM ExitFrees == Spec => OnlyExitFrees
<1> DEFINE Frees == \A t \in Live : t \notin Range(alltask') =>
                      exiting[t] /\ taskrunning = t
<1>1. IInv /\ [Next]_schedVars => [Frees]_schedVars
  <2> SUFFICES ASSUME IInv, [Next]_schedVars PROVE [Frees]_schedVars
    OBVIOUS
  <2> USE DEF IInv
  <2>1. ASSUME alltask' = alltask PROVE Frees
    BY <2>1 DEF Live
  <2>2. ASSUME NEW t \in Task, NEW u \in Task, TaskCreate(t, u) PROVE Frees
    <3>1. alltask' = Append(alltask, u) /\ alltask \in Seq(Task) /\ u \notin Range(alltask)
          /\ IsInjective(alltask)
      BY <2>2 DEF TaskCreate, TypeOK, Live, TableInv
    <3>2. Range(alltask') = Range(alltask) \cup {u}
      BY <3>1, AppendToQueue
    <3> QED BY <3>2 DEF Live
  <2>3. CASE SwitchedOut
    <3>1. CASE exiting[taskrunning]
      BY <2>3, <3>1, CleanUp DEF Live
    <3>2. CASE ~exiting[taskrunning]
      BY <2>1, <2>3, <3>2 DEF SwitchedOut
    <3> QED BY <3>1, <3>2
  <2>4. ASSUME NEW t \in Task, TaskStep(t), ~\E u \in Task : TaskCreate(t, u)
        PROVE  alltask' = alltask
    BY <2>4 DEF TaskStep, TaskSystem, TaskYield, YieldReturn, TaskExit,
                TaskExitAll, Wake, Block, taskVars
  <2>5. CASE Dispatch \/ Done \/ Stalled \/ UNCHANGED schedVars
    BY <2>1, <2>5 DEF Dispatch, Done, Stalled, taskVars, schedVars
  <2> QED BY <2>1, <2>2, <2>3, <2>4, <2>5 DEF Next, Scheduler, Terminated
<1> QED BY <1>1, Invariance, PTL DEF Spec, OnlyExitFrees

-----------------------------------------------------------------------------
(* The scheduler of task.c implements the contract of module Coop: every *)
(* step of module Sched is a step of the contract or leaves it unchanged.*)
(*                                                                       *)
(* A task leaves the contract's set of live tasks when it calls          *)
(* taskexit(); the clean-up later on is invisible there.  The invariant  *)
(* IInv gives what the contract's guards ask for: while a task runs nobody*)
(* is exiting, and taskcount tells whether a non-system task is left.    *)
absLive    == {t \in Live : ~exiting[t]}
absSystem  == {t \in Live : system[t] /\ ~exiting[t]}
absRunning == IF oncpu = "task" THEN taskrunning ELSE NoTask
absEnded   == (ended # "no")

(* While a task's code runs the contract sees exactly the table.         *)
LEMMA SeenByCaller ==
  ASSUME IInv, NEW t \in Task, Running(t)
  PROVE  /\ absLive = Live /\ absSystem = {u \in Live : system[u]}
         /\ absRunning = t /\ ~absEnded /\ t \in Live
         /\ Contract!Running(t) /\ Contract!Parked = Parked
<1>1. t = taskrunning /\ oncpu = "task" /\ ended = "no" /\ t \in Live
  BY CallerFacts DEF IInv, Running
<1>2. \A u \in Live : ~exiting[u]
  BY <1>1 DEF IInv, RunQueueInv
<1>3. \A u \in Live : ready[u] <=> u \in Range(runqueue)
  BY DEF IInv, RunQueueInv
<1>4. absLive = Live /\ absSystem = {u \in Live : system[u]}
  BY <1>2 DEF absLive, absSystem
<1>5. absRunning = t /\ ~absEnded
  BY <1>1 DEF absRunning, absEnded
<1>6. Contract!Running(t)
  BY <1>1 DEF Contract!Running
<1>7. Contract!Parked = Parked
  <2>1. Contract!Parked = absLive \ (Range(runqueue) \cup {absRunning})
    BY DEF Contract!Parked, absLive, absRunning, Range, Contract!Range
  <2>2. Contract!Parked = Live \ (Range(runqueue) \cup {t})
    BY <2>1, <1>4, <1>5
  <2>3. Parked = {u \in Live : u \notin Range(runqueue) /\ u # t}
    BY <1>1, <1>3 DEF Parked
  <2> QED BY <2>2, <2>3
<1> QED BY <1>1, <1>4, <1>5, <1>6, <1>7

(* The program of main() starts as the contract does ...                 *)
LEMMA ContractInit == Init => Contract!CoopInit
<1> SUFFICES ASSUME Init PROVE Contract!CoopInit
  OBVIOUS
<1>1. PICK t \in Task : alltask = <<t>> /\ runqueue = <<t>>
  BY DEF Init
<1>2. Live = {t}
  BY <1>1, QueueOfOne DEF Live
<1>3. /\ system = [u \in Task |-> FALSE] /\ exiting = [u \in Task |-> FALSE]
      /\ oncpu = "sched" /\ ended = "no"
  BY DEF Init
<1> QED BY <1>1, <1>2, <1>3 DEF Contract!CoopInit

(* ... every call and every turn of the scheduler is a step of the contract,*)
(* and the clean-up and the return of taskyield() are none.              *)
LEMMA ContractStep ==
  IInv /\ IInv' /\ [Next]_schedVars => [Contract!CoopNext]_(Contract!coopVars)
<1> SUFFICES ASSUME IInv, IInv', [Next]_schedVars
             PROVE  Contract!CoopNext \/ UNCHANGED Contract!coopVars
  OBVIOUS
<1>0. /\ Live \subseteq Task /\ NoTask \notin Live
      /\ system \in [Task -> BOOLEAN] /\ exiting \in [Task -> BOOLEAN]
  BY LiveAreTasks DEF IInv, TypeOK
<1>1. ASSUME NEW t \in Task, NEW u \in Task, TaskCreate(t, u)
      PROVE  Contract!CoopNext
  <2>1. /\ absLive = Live /\ absSystem = {x \in Live : system[x]}
        /\ Contract!Running(t) /\ absRunning = t
    BY <1>1, SeenByCaller DEF TaskCreate
  <2>2. /\ u \notin Live /\ runqueue' = Append(runqueue, u)
        /\ system' = [system EXCEPT ![u] = FALSE]
        /\ exiting' = [exiting EXCEPT ![u] = FALSE]
        /\ taskrunning' = taskrunning /\ oncpu' = oncpu /\ ended' = ended
    <3>1. runqueue \in Seq(Task) /\ runqueue' = runqueue \o <<u>>
      BY <1>1 DEF TaskCreate, MakeReady, IInv, TypeOK
    <3> QED BY <1>1, <3>1, AppendIsConcat DEF TaskCreate
  <2>3. Live' = Live \cup {u}
    <3>1. alltask' = Append(alltask, u) /\ alltask \in Seq(Task) /\ IsInjective(alltask)
      BY <1>1 DEF TaskCreate, IInv, TypeOK, TableInv
    <3> QED BY <2>2, <3>1, AppendToQueue DEF Live
  <2>4. absLive' = absLive \cup {u} /\ absSystem' = absSystem
    BY <1>0, <2>1, <2>2, <2>3 DEF absLive, absSystem
  <2>5. Contract!Create(t, u)
    BY <2>1, <2>2, <2>4 DEF Contract!Create, absLive, absSystem, absRunning
  <2> QED BY <2>5 DEF Contract!CoopNext
<1>2. ASSUME NEW t \in Task, TaskSystem(t) PROVE Contract!CoopNext
  <2>1. /\ absLive = Live /\ absSystem = {x \in Live : system[x]}
        /\ Contract!Running(t) /\ t \in Live
    BY <1>2, SeenByCaller DEF TaskSystem
  <2>2. /\ system' = [system EXCEPT ![t] = TRUE] /\ Live' = Live
        /\ UNCHANGED <<exiting, runqueue, taskrunning, oncpu, ended>>
    BY <1>2 DEF TaskSystem, Live
  <2>3. absLive' = absLive /\ absSystem' = absSystem \cup {t}
    BY <1>0, <2>1, <2>2 DEF absLive, absSystem
  <2>4. Contract!SetSystem(t)
    BY <2>1, <2>2, <2>3 DEF Contract!SetSystem, absLive, absSystem
  <2> QED BY <2>4 DEF Contract!CoopNext
<1>3. ASSUME NEW t \in Task, TaskYield(t) PROVE Contract!CoopNext
  <2>1. Contract!Running(t)
    BY <1>3, SeenByCaller DEF TaskYield
  <2>2. /\ runqueue' = Append(runqueue, t) /\ oncpu' = "sched" /\ Live' = Live
        /\ UNCHANGED <<system, exiting, ended>>
    <3>1. runqueue \in Seq(Task) /\ runqueue' = runqueue \o <<t>>
      BY <1>3 DEF TaskYield, MakeReady, IInv, TypeOK
    <3> QED BY <1>3, <3>1, AppendIsConcat DEF TaskYield, SwitchOut, taskVars, Live
  <2>3. Contract!Yield(t)
    BY <2>1, <2>2 DEF Contract!Yield
  <2> QED BY <2>3 DEF Contract!CoopNext
<1>4. ASSUME NEW t \in Task, YieldReturn(t) PROVE UNCHANGED Contract!coopVars
  BY <1>4 DEF YieldReturn, taskVars, Contract!coopVars, Live
<1>5. ASSUME NEW t \in Task, NEW v \in Status, TaskExit(t, v)
      PROVE  Contract!CoopNext
  <2>1. /\ absLive = Live /\ absSystem = {x \in Live : system[x]}
        /\ Contract!Running(t) /\ t \in Live
    BY <1>5, SeenByCaller DEF TaskExit
  <2>2. /\ exiting' = [exiting EXCEPT ![t] = TRUE] /\ Live' = Live
        /\ oncpu' = "sched" /\ UNCHANGED <<system, runqueue, ended>>
    BY <1>5 DEF TaskExit, SwitchOut, Live
  <2>3. \A x \in Live : exiting'[x] <=> exiting[x] \/ x = t
    BY <1>0, <2>2
  <2>4. absLive' = absLive \ {t} /\ absSystem' = absSystem \ {t}
    BY <2>2, <2>3 DEF absLive, absSystem
  <2>5. Contract!Exit(t)
    BY <2>1, <2>2, <2>4 DEF Contract!Exit, absLive, absSystem
  <2> QED BY <2>5 DEF Contract!CoopNext
<1>6. ASSUME NEW t \in Task, TaskExitAll(t) PROVE Contract!CoopNext
  <2>1. Contract!Running(t)
    BY <1>6, SeenByCaller DEF TaskExitAll
  <2>2. Contract!ExitAll(t)
    BY <1>6, <2>1 DEF TaskExitAll, Contract!ExitAll, taskVars, Live
  <2> QED BY <2>2 DEF Contract!CoopNext
<1>7. ASSUME NEW t \in Task, NEW ws \in WakeLists(Parked), Wake(t, ws) \/ Block(t, ws)
      PROVE  Contract!CoopNext
  <2>1. Contract!Running(t) /\ Contract!Parked = Parked
    BY <1>7, SeenByCaller DEF Wake, Block
  <2>2. ws \in Contract!WakeLists(Contract!Parked)
    <3>1. WakeLists(Parked) = Contract!WakeLists(Parked)
      BY Zenon DEF WakeLists, Contract!WakeLists, Injection, Contract!Injection,
               IsInjective, Contract!IsInjective, Cardinality, Contract!Cardinality
    <3> QED BY <1>7, <2>1, <3>1
  <2>3. runqueue' = runqueue \o ws /\ Live' = Live /\ UNCHANGED <<system, exiting, ended>>
    BY <1>7 DEF Wake, Block, MakeReady, taskVars, Live
  <2>4. CASE Wake(t, ws)
    <3>1. Contract!Wake(t, ws)
      BY <2>1, <2>3, <2>4 DEF Wake, Contract!Wake
    <3> QED BY <2>2, <3>1 DEF Contract!CoopNext
  <2>5. CASE Block(t, ws)
    <3>1. Contract!Block(t, ws)
      BY <2>1, <2>3, <2>5 DEF Block, SwitchOut, Contract!Block
    <3> QED BY <2>2, <3>1 DEF Contract!CoopNext
  <2> QED BY <1>7, <2>4, <2>5
<1>8. CASE SwitchedOut
  <2>1. /\ oncpu = "sched" /\ oncpu' = oncpu
        /\ UNCHANGED <<system, exiting, runqueue, ended>>
    BY <1>8 DEF SwitchedOut
  <2>2. absLive' = absLive /\ absSystem' = absSystem
    <3>1. CASE exiting[taskrunning]
      <4>1. Live' = Live \ {taskrunning}
        BY <1>8, <3>1, CleanUp DEF Live, IInv
      <4> QED BY <2>1, <3>1, <4>1 DEF absLive, absSystem
    <3>2. CASE ~exiting[taskrunning]
      BY <1>8, <2>1, <3>2 DEF SwitchedOut, absLive, absSystem, Live
    <3> QED BY <3>1, <3>2
  <2> QED BY <2>1, <2>2 DEF Contract!coopVars, absLive, absSystem
<1>9. ASSUME AtTop
      PROVE  /\ absLive = Live /\ Contract!Users = Users /\ absRunning = NoTask
             /\ Users = {} <=> taskcount = 0
  <2>1. \A u \in Live : ~exiting[u]
    BY <1>0, <1>9 DEF AtTop, IInv, RunQueueInv
  <2>2. absLive = Live /\ Contract!Users = Users
    BY <2>1 DEF absLive, Contract!Users, Users
  <2>3. Users = {} <=> taskcount = 0
    BY UsersAreFinite, FS_EmptySet DEF IInv, CountInv
  <2> QED BY <1>9, <2>2, <2>3 DEF AtTop, absRunning
<1>10. CASE Dispatch
  <2>1. /\ Contract!Users # {} /\ runqueue # <<>>
    BY <1>9, <1>10 DEF Dispatch, NoneLeft
  <2>2. /\ runqueue' = Tail(runqueue) /\ taskrunning' = Head(runqueue)
        /\ oncpu = "sched" /\ oncpu' = "task" /\ ended = "no" /\ Live' = Live
        /\ UNCHANGED <<system, exiting, ended>>
    BY <1>10 DEF Dispatch, AtTop, taskVars, Live
  <2>3. Contract!Dispatch
    BY <2>1, <2>2 DEF Contract!Dispatch
  <2> QED BY <2>3 DEF Contract!CoopNext
<1>11. CASE Done \/ Stalled
  <2>1. Contract!Users = {} \/ runqueue = <<>>
    BY <1>9, <1>11 DEF Done, Stalled, NoneLeft
  <2>2. /\ oncpu = "sched" /\ ended = "no" /\ ended' # "no" /\ Live' = Live
        /\ UNCHANGED <<system, exiting, runqueue, taskrunning, oncpu>>
    BY <1>11 DEF Done, Stalled, AtTop, taskVars, Live
  <2>3. Contract!End
    BY <2>1, <2>2 DEF Contract!End
  <2> QED BY <2>3 DEF Contract!CoopNext
<1>12. CASE UNCHANGED schedVars
  BY <1>12 DEF schedVars, Contract!coopVars, Live
<1> QED BY <1>1, <1>2, <1>3, <1>4, <1>5, <1>6, <1>7, <1>8, <1>10, <1>11, <1>12
        DEF Next, TaskStep, Scheduler, Terminated

(* What the rest of libtask may assume of the scheduler: task.c implements*)
(* the contract of module Coop.                                          *)
THEOREM Implements == Spec => ContractSpec
BY ContractInit, ContractStep, Invariance, PTL
   DEF Spec, ContractSpec, Contract!CoopSpec

-----------------------------------------------------------------------------
(* The tasks before place k of the queue q.                                *)
Before(q, k) == {q[j] : j \in 1..(k - 1)}

(* t is waiting in taskyield() for the tasks before it.                    *)
WaitsTurn(t) ==
  \E k \in 1..Len(runqueue) :
    /\ runqueue[k] = t
    /\ ahead[t] = ran[t] \cup Before(runqueue, k)
    /\ ran[t] \cap Before(runqueue, k) = {}
    /\ tasknswitch = (yieldn[t] + Cardinality(ran[t])) % IntRange

(* t is back on the CPU and about to return from taskyield().              *)
BackInYield(t) ==
  /\ oncpu = "task" /\ taskrunning = t
  /\ ran[t] = ahead[t]
  /\ tasknswitch = (yieldn[t] + Cardinality(ran[t]) + 1) % IntRange

(* TurnInv is the inductive form of YieldCountsOthers: while a task waits  *)
(* in taskyield(), the tasks that were ready when it called are those that *)
(* ran since and those before it in the queue, and the switch counter has  *)
(* moved by the former.                                                    *)
TurnInv ==
  \A t \in Task : /\ ran[t] \subseteq Task
                  /\ InYield(t) => WaitsTurn(t) \/ BackInYield(t)

(* Once every non-system task has called taskexit(), the exit value is the *)
(* last one's; the program runs on without any only after tasksystem().    *)
LeaverInv ==
  /\ (\A t \in Users : exiting[t]) /\ leaver.how = "exit" =>
       taskexitval = leaver.status
  /\ Users = {} /\ oncpu = "task" => leaver.how = "system"

-----------------------------------------------------------------------------
(* The history variables only observe: what module Sched says of the       *)
(* scheduler holds here too.                                               *)
LEMMA HistRefines == HistSpec => Spec
<1>1. HistInit => Init
  BY DEF HistInit
<1>2. [HistNext]_histVars => [Next]_schedVars
  BY DEF HistNext, histVars
<1> QED BY <1>1, <1>2, PTL DEF HistSpec, Spec

(* One more switch of the int counter, once around its range.              *)
LEMMA CountOne ==
  ASSUME NEW R \in Nat, NEW y \in 0..(R - 1), NEW c \in Nat, 2 * c < R
  PROVE  (((y + c) % R) + 1) % R = (y + c + 1) % R
<1> DEFINE x == y + c
<1>1. R > 0 /\ x \in Nat /\ x + 1 < 2 * R
  OBVIOUS
<1> HIDE DEF x
<1>2. CASE x < R
  BY <1>1, <1>2
<1>3. CASE x >= R
  <2>1. x % R = x - R
    BY <1>1, <1>3
  <2>2. x - R + 1 \in 0..R /\ x + 1 = R + (x - R + 1)
    BY <1>1, <1>3
  <2>3. (x + 1) % R = (x - R + 1) % R
    BY <1>1, <1>3, <2>2
  <2> QED BY <2>1, <2>3
<1> QED BY <1>1, <1>2, <1>3 DEF x

(* What taskyield() subtracts: the difference of the two counters, less    *)
(* its own switch, is the number c of the others', also after a wrap.      *)
LEMMA CountBack ==
  ASSUME NEW R \in Nat, NEW y \in 0..(R - 1), NEW c \in Nat, 2 * c < R,
         NEW n, n = (y + c + 1) % R
  PROVE  (n - y - 1) % R = c
<1> DEFINE x == y + c + 1
<1>1. R > 0 /\ x \in Nat /\ x < 2 * R /\ c < R
  OBVIOUS
<1>2. CASE x < R
  <2>1. n = x /\ n - y - 1 = c
    BY <1>1, <1>2
  <2> QED BY <1>1, <2>1
<1>3. CASE x >= R
  <2>1. n = x - R
    BY <1>1, <1>3
  <2>2. n - y - 1 = c - R
    BY <2>1
  <2>3. (c - R) % R = c
    BY <1>1
  <2> QED BY <2>2, <2>3
<1> QED BY <1>1, <1>2, <1>3

(* No task ran twice while another waited: their number is below half the  *)
(* counter's range.                                                        *)
LEMMA FewRan ==
  ASSUME NEW P, P \subseteq Task
  PROVE  /\ IsFiniteSet(P) /\ Cardinality(P) \in Nat
         /\ IntRange \in Nat /\ 2 * Cardinality(P) < IntRange
<1>1. /\ IsFiniteSet(P) /\ Cardinality(P) \in Nat
      /\ Cardinality(Task) \in Nat /\ Cardinality(P) <= Cardinality(Task)
  BY SchedAssumption, FS_Subset, FS_CardinalityType
<1> QED BY <1>1, SchedAssumption

-----------------------------------------------------------------------------
(* What a step does to the tasks waiting in taskyield(), apart from        *)
(* Dispatch: it may let the task on the CPU leave or enter taskyield(),    *)
(* and it only appends to the queue.                                       *)
Quiet ==
  /\ tasknswitch' = tasknswitch
  /\ \E ws \in Seq(Task) : runqueue' = runqueue \o ws
  /\ oncpu' = "task" => oncpu = "task"
  /\ \A t \in Task : InYield(t) /\ oncpu = "task" /\ taskrunning = t =>
       yieldn'[t] = NoYield \/ (oncpu' = "task" /\ taskrunning' = t)

(* Every step is Dispatch, a call of taskyield() or quiet for every task.  *)
LEMMA StepKinds ==
  ASSUME TypeOK, [Next]_schedVars
  PROVE  \/ Dispatch
         \/ \E t \in Task : TaskYield(t)
         \/ Quiet /\ \A t \in Task : yieldn'[t] = yieldn[t] \/ yieldn'[t] = NoYield
<1> USE DEF InYield
<1>0. <<>> \in Seq(Task) /\ runqueue = runqueue \o <<>>
  BY DEF TypeOK
<1>1. ASSUME NEW t \in Task, NEW u \in Task, TaskCreate(t, u)
      PROVE  Quiet /\ yieldn' = yieldn
  <2>1. <<u>> \in Seq(Task) /\ runqueue' = runqueue \o <<u>>
    BY <1>1 DEF TaskCreate, MakeReady
  <2> QED BY <1>1, <2>1 DEF TaskCreate, Quiet
<1>2. ASSUME NEW ws \in WakeLists(Parked), NEW t \in Task, Wake(t, ws) \/ Block(t, ws)
      PROVE  Quiet /\ yieldn' = yieldn
  <2>1. ws \in Seq(Task) /\ runqueue' = runqueue \o ws
    BY <1>2, WokenAreParked DEF Wake, Block, MakeReady
  <2>2. tasknswitch' = tasknswitch /\ yieldn' = yieldn /\ oncpu = "task"
        /\ taskrunning = t /\ yieldn[t] = NoYield
    BY <1>2 DEF Wake, Block, Running
  <2> QED BY <2>1, <2>2 DEF Quiet
<1>3. ASSUME NEW t \in Task, YieldReturn(t)
      PROVE  Quiet /\ \A u \in Task : yieldn'[u] = yieldn[u] \/ yieldn'[u] = NoYield
  <2>1. /\ yieldn' = [yieldn EXCEPT ![t] = NoYield] /\ yieldn \in [Task -> Int]
        /\ tasknswitch' = tasknswitch /\ runqueue' = runqueue
        /\ oncpu' = oncpu /\ taskrunning' = taskrunning
    BY <1>3 DEF YieldReturn, TypeOK, NoYield
  <2> QED BY <1>0, <2>1 DEF Quiet
<1>4. ASSUME NEW t \in Task, TaskSystem(t) \/ TaskExitAll(t) \/ \E v \in Status : TaskExit(t, v)
      PROVE  Quiet /\ yieldn' = yieldn
  <2>1. /\ tasknswitch' = tasknswitch /\ yieldn' = yieldn /\ oncpu = "task"
        /\ taskrunning = t /\ yieldn[t] = NoYield /\ runqueue' = runqueue
    BY <1>4 DEF TaskSystem, TaskExitAll, TaskExit, Running
  <2> QED BY <1>0, <2>1 DEF Quiet
<1>5. CASE SwitchedOut \/ Done \/ Stalled \/ UNCHANGED schedVars
  <2>1. /\ tasknswitch' = tasknswitch /\ yieldn' = yieldn /\ runqueue' = runqueue
        /\ oncpu' = oncpu
        /\ oncpu = "task" => taskrunning' = taskrunning
    BY <1>5 DEF SwitchedOut, Done, Stalled, AtTop, schedVars
  <2> QED BY <1>0, <2>1 DEF Quiet
<1> QED BY <1>1, <1>2, <1>3, <1>4, <1>5
        DEF Next, TaskStep, Scheduler, Terminated

(* What the history variables record in a step for a task that was and     *)
(* stays in taskyield().                                                   *)
LEMMA Observed ==
  ASSUME HistNext, NEW t \in Task, InYield(t), yieldn'[t] # NoYield
  PROVE  /\ ahead'[t] = ahead[t]
         /\ ran'[t] = ran[t] \cup {u \in Task \ {t} : Switched(u)}
BY DEF HistNext, Entering, InYield

(* ran holds tasks.                                                        *)
LEMMA RanAreTasks ==
  ASSUME TurnInv, HistNext, NEW t \in Task
  PROVE  ran'[t] \subseteq Task
<1>1. ran[t] \subseteq Task
  BY DEF TurnInv
<1>2. ran'[t] = IF Entering(t) \/ yieldn'[t] = NoYield THEN {}
                ELSE ran[t] \cup {u \in Task \ {t} : Switched(u)}
  BY DEF HistNext
<1> QED BY <1>1, <1>2

-----------------------------------------------------------------------------
(* Nobody is in taskyield() at the start ...                               *)
LEMMA TurnInit == HistInit => TurnInv
BY DEF HistInit, Init, TurnInv, InYield

(* ... taskyield() puts its caller behind all the tasks that are ready ... *)
LEMMA EnterTurn ==
  ASSUME TypeOK, HistNext, NEW t \in Task, TaskYield(t)
  PROVE  WaitsTurn(t)'
<1>1. /\ ~InYield(t) /\ yieldn'[t] = tasknswitch /\ tasknswitch' = tasknswitch
      /\ tasknswitch \in 0..(IntRange - 1) /\ runqueue' = runqueue \o <<t>>
      /\ runqueue \in Seq(Task)
  BY DEF TaskYield, Running, InYield, MakeReady, TypeOK
<1>2. Entering(t)
  BY <1>1 DEF Entering, NoYield
<1>3. ahead'[t] = Range(runqueue) /\ ran'[t] = {}
  BY <1>2 DEF HistNext
<1> DEFINE n == Len(runqueue)
<1>4. /\ n \in Nat /\ Len(runqueue') = n + 1 /\ runqueue'[n + 1] = t
      /\ \A j \in 1..n : runqueue'[j] = runqueue[j]
  BY <1>1
<1>5. Range(runqueue) = {runqueue[j] : j \in 1..n}
  BY <1>1, RangeOfQueue
<1> HIDE DEF n
<1>6. Before(runqueue', n + 1) = Range(runqueue)
  <2>1. Before(runqueue', n + 1) = {runqueue'[j] : j \in 1..n}
    BY <1>4 DEF Before
  <2> QED BY <1>4, <1>5, <2>1
<1>7. Cardinality(ran'[t]) = 0
  BY <1>3, FS_EmptySet
<1>8. tasknswitch' = (yieldn'[t] + Cardinality(ran'[t])) % IntRange
  <2>1. PICK m \in 0..(IntRange - 1) : m = tasknswitch
    BY <1>1
  <2>2. IntRange \in Nat
    BY SchedAssumption
  <2>3. (m + 0) % IntRange = m
    BY <2>2
  <2> QED BY <1>1, <1>7, <2>1, <2>3
<1>9. n + 1 \in 1..Len(runqueue')
  BY <1>4
<1> QED BY <1>3, <1>4, <1>6, <1>8, <1>9 DEF WaitsTurn

(* ... what is only appended to the queue comes after whoever waits ...    *)
LEMMA QuietTurn ==
  ASSUME TypeOK, HistNext, Quiet, NEW t \in Task, InYield(t), yieldn'[t] = yieldn[t],
         WaitsTurn(t) \/ BackInYield(t)
  PROVE  WaitsTurn(t)' \/ BackInYield(t)'
<1>1. ahead'[t] = ahead[t] /\ ran'[t] = ran[t]
  BY Observed DEF Quiet, Switched, InYield
<1>2. tasknswitch' = tasknswitch
  BY DEF Quiet
<1>3. CASE WaitsTurn(t)
  <2>1. PICK ws \in Seq(Task) : runqueue' = runqueue \o ws
    BY DEF Quiet
  <2>2. PICK k \in 1..Len(runqueue) :
          /\ runqueue[k] = t
          /\ ahead[t] = ran[t] \cup Before(runqueue, k)
          /\ ran[t] \cap Before(runqueue, k) = {}
          /\ tasknswitch = (yieldn[t] + Cardinality(ran[t])) % IntRange
    BY <1>3 DEF WaitsTurn
  <2>3. /\ k \in 1..Len(runqueue')
        /\ \A j \in 1..k : runqueue'[j] = runqueue[j]
    BY <2>1, <2>2 DEF TypeOK
  <2>4. Before(runqueue', k) = Before(runqueue, k)
    BY <2>3 DEF Before
  <2> QED BY <1>1, <1>2, <2>2, <2>3, <2>4 DEF WaitsTurn
<1>4. CASE BackInYield(t)
  <2>1. oncpu' = "task" /\ taskrunning' = t
    BY <1>4 DEF Quiet, BackInYield, InYield
  <2> QED BY <1>1, <1>2, <1>4, <2>1 DEF BackInYield
<1> QED BY <1>3, <1>4

(* ... and the scheduler's turn for the head of the queue is one more that *)
(* ran, or the end of the wait.                                            *)
LEMMA DispatchTurn ==
  ASSUME TypeOK, RunQueueInv, TurnInv, HistNext, Dispatch, NEW t \in Task,
         InYield(t), WaitsTurn(t)
  PROVE  WaitsTurn(t)' \/ BackInYield(t)'
<1>1. PICK k \in 1..Len(runqueue) :
        /\ runqueue[k] = t
        /\ ahead[t] = ran[t] \cup Before(runqueue, k)
        /\ ran[t] \cap Before(runqueue, k) = {}
        /\ tasknswitch = (yieldn[t] + Cardinality(ran[t])) % IntRange
  BY DEF WaitsTurn
<1> DEFINE h == Head(runqueue)
           y == yieldn[t]
           c == Cardinality(ran[t])
<1>2. /\ runqueue \in Seq(Task) /\ h = runqueue[1] /\ h \in Task /\ 1 \in 1..Len(runqueue)
      /\ runqueue' = Tail(runqueue) /\ Len(runqueue') = Len(runqueue) - 1
      /\ \A j \in 1..(Len(runqueue) - 1) : runqueue'[j] = runqueue[j + 1]
      /\ Len(runqueue) \in Nat
  BY <1>1 DEF TypeOK, Dispatch
<1>3. \A i, j \in 1..Len(runqueue) : runqueue[i] = runqueue[j] => i = j
  BY <1>2 DEF RunQueueInv, IsInjective
<1>4. /\ oncpu = "sched" /\ oncpu' = "task" /\ taskrunning' = h
      /\ yieldn'[t] = y /\ tasknswitch' = (tasknswitch + 1) % IntRange
      /\ y \in 0..(IntRange - 1)
  BY DEF Dispatch, AtTop, NextSwitch, InYield, TypeOK
<1>5. ran[t] \subseteq Task
  BY DEF TurnInv
<1>6. /\ IsFiniteSet(ran[t]) /\ c \in Nat /\ IntRange \in Nat /\ 2 * c < IntRange
  BY <1>5, FewRan
<1>7. yieldn'[t] # NoYield
  BY <1>4 DEF InYield
<1>8. {u \in Task \ {t} : Switched(u)} = {h} \ {t}
  BY <1>2, <1>4 DEF Switched
<1>9. ahead'[t] = ahead[t] /\ ran'[t] = ran[t] \cup ({h} \ {t})
  BY <1>7, <1>8, Observed
<1> HIDE DEF h, y, c
<1>10. tasknswitch' = (y + c + 1) % IntRange
  BY <1>1, <1>4, <1>6, CountOne DEF y, c
<1>11. CASE k = 1
  <2>1. h = t /\ Before(runqueue, k) = {}
    BY <1>1, <1>2, <1>11 DEF Before
  <2>2. ran'[t] = ran[t] /\ ran'[t] = ahead'[t]
    BY <1>1, <1>9, <2>1
  <2> QED BY <1>4, <1>10, <2>1, <2>2 DEF BackInYield, y, c
<1>12. CASE k # 1
  <2>1. h # t
    BY <1>1, <1>2, <1>3, <1>12
  <2>2. k - 1 \in 1..Len(runqueue') /\ runqueue'[k - 1] = t
    <3>1. k - 1 \in 1..(Len(runqueue) - 1) /\ (k - 1) + 1 = k
      BY <1>2, <1>12
    <3> QED BY <1>1, <1>2, <3>1
  <2>3. h \in Before(runqueue, k)
    <3>1. 1 \in 1..(k - 1)
      BY <1>2, <1>12
    <3> QED BY <1>2, <3>1 DEF Before
  <2>4. Before(runqueue', k - 1) = Before(runqueue, k) \ {h}
    <3>1. ASSUME NEW x \in Before(runqueue', k - 1)
          PROVE  x \in Before(runqueue, k) \ {h}
      <4>1. PICK j \in 1..((k - 1) - 1) : x = runqueue'[j]
        BY <3>1 DEF Before
      <4>2. /\ j \in 1..(Len(runqueue) - 1) /\ j + 1 \in 1..(k - 1)
            /\ j + 1 \in 1..Len(runqueue) /\ j + 1 # 1
        BY <1>2, <4>1
      <4>3. x = runqueue[j + 1]
        BY <1>2, <4>1, <4>2
      <4> QED BY <1>2, <1>3, <4>2, <4>3 DEF Before
    <3>2. ASSUME NEW x \in Before(runqueue, k) \ {h}
          PROVE  x \in Before(runqueue', k - 1)
      <4>1. PICK j \in 1..(k - 1) : x = runqueue[j]
        BY <3>2 DEF Before
      <4>2. j # 1
        BY <1>2, <3>2, <4>1
      <4>3. /\ j - 1 \in 1..((k - 1) - 1) /\ j - 1 \in 1..(Len(runqueue) - 1)
            /\ (j - 1) + 1 = j
        BY <1>2, <4>1, <4>2
      <4>4. x = runqueue'[j - 1]
        BY <1>2, <4>1, <4>3
      <4> QED BY <4>3, <4>4 DEF Before
    <3> QED BY <3>1, <3>2
  <2>5. ran'[t] = ran[t] \cup {h} /\ h \notin ran[t]
    BY <1>1, <1>9, <2>1, <2>3
  <2>6. Cardinality(ran'[t]) = c + 1
    BY <1>6, <2>5, FS_AddElement DEF c
  <2>7. /\ ahead'[t] = ran'[t] \cup Before(runqueue', k - 1)
        /\ ran'[t] \cap Before(runqueue', k - 1) = {}
    BY <1>1, <1>9, <2>3, <2>4, <2>5
  <2>8. tasknswitch' = (yieldn'[t] + Cardinality(ran'[t])) % IntRange
    <3>1. PICK z \in Int : z = y
      BY <1>4
    <3>2. z + c + 1 = z + (c + 1)
      BY <1>6
    <3> QED BY <1>4, <1>10, <2>6, <3>1, <3>2
  <2> QED BY <2>2, <2>7, <2>8 DEF WaitsTurn
<1> QED BY <1>11, <1>12

(* TurnInv is kept by every step.                                          *)
LEMMA TurnStep == TypeOK /\ RunQueueInv /\ TurnInv /\ [HistNext]_histVars => TurnInv'
<1> SUFFICES ASSUME TypeOK, RunQueueInv, TurnInv, [HistNext]_histVars
             PROVE  TurnInv'
  OBVIOUS
<1>1. CASE UNCHANGED histVars
  BY <1>1 DEF TurnInv, InYield, WaitsTurn, BackInYield, Before, histVars, schedVars
<1>2. CASE HistNext
  <2> SUFFICES ASSUME NEW t \in Task, yieldn'[t] # NoYield
               PROVE  WaitsTurn(t)' \/ BackInYield(t)'
    BY <1>2, RanAreTasks DEF TurnInv, InYield
  <2>0. [Next]_schedVars
    BY <1>2 DEF HistNext
  <2>1. InYield(t) => WaitsTurn(t) \/ BackInYield(t)
    BY DEF TurnInv
  <2>2. CASE Dispatch
    <3>1. yieldn' = yieldn /\ oncpu = "sched"
      BY <2>2 DEF Dispatch, AtTop
    <3>2. InYield(t) /\ WaitsTurn(t)
      BY <2>1, <3>1 DEF InYield, BackInYield
    <3> QED BY <1>2, <2>2, <3>2, DispatchTurn
  <2>3. ASSUME NEW u \in Task, TaskYield(u) PROVE WaitsTurn(t)' \/ BackInYield(t)'
    <3>1. CASE u = t
      BY <1>2, <2>3, <3>1, EnterTurn
    <3>2. CASE u # t
      <4>1. /\ yieldn' = [yieldn EXCEPT ![u] = tasknswitch] /\ yieldn \in [Task -> Int]
            /\ oncpu = "task" /\ taskrunning = u /\ oncpu' = "sched"
            /\ tasknswitch' = tasknswitch /\ runqueue' = runqueue \o <<u>>
            /\ <<u>> \in Seq(Task)
        BY <2>3 DEF TaskYield, Running, SwitchOut, MakeReady, TypeOK, NoYield
      <4>2. yieldn'[t] = yieldn[t] /\ InYield(t)
        BY <3>2, <4>1 DEF InYield
      <4>3. WaitsTurn(t)
        BY <2>1, <3>2, <4>1, <4>2 DEF BackInYield
      <4>4. \A v \in Task : InYield(v) /\ oncpu = "task" /\ taskrunning = v => FALSE
        BY <2>3 DEF TaskYield, Running, InYield
      <4>5. Quiet
        BY <4>1, <4>4 DEF Quiet
      <4> QED BY <1>2, <4>2, <4>3, <4>5, QuietTurn
    <3> QED BY <3>1, <3>2
  <2>4. ASSUME Quiet, \A u \in Task : yieldn'[u] = yieldn[u] \/ yieldn'[u] = NoYield
        PROVE  WaitsTurn(t)' \/ BackInYield(t)'
    <3>1. yieldn'[t] = yieldn[t] /\ InYield(t)
      BY <2>4 DEF InYield
    <3> QED BY <1>2, <2>1, <2>4, <3>1, QuietTurn
  <2> QED BY <2>0, <2>2, <2>3, <2>4, StepKinds
<1> QED BY <1>1, <1>2

(* taskyield() returns when every task that was ready has had its turn, and*)
(* its result is the number of other tasks that ran meanwhile, whatever the*)
(* switch counter was: no two switches of the caller are half of its range *)
(* apart.                                                                  *)
THEOREM YieldCorrect == HistSpec => []YieldCountsOthers
<1>1. IInv /\ TurnInv => YieldCountsOthers
  <2> SUFFICES ASSUME IInv, TurnInv, NEW t \in Task, InYield(t), taskrunning = t,
                      oncpu = "task"
               PROVE  ran[t] = ahead[t] /\ YieldResult(t) = Cardinality(ran[t])
    BY DEF YieldCountsOthers
  <2>1. TypeOK /\ RunQueueInv
    BY DEF IInv
  <2>2. t \notin Range(runqueue) /\ runqueue \in Seq(Task)
    BY <2>1 DEF RunQueueInv, TypeOK
  <2>3. ~WaitsTurn(t)
    BY <2>2, RangeOfQueue DEF WaitsTurn
  <2>4. BackInYield(t) /\ ran[t] \subseteq Task
    BY <2>3 DEF TurnInv
  <2>5. /\ Cardinality(ran[t]) \in Nat /\ IntRange \in Nat
        /\ 2 * Cardinality(ran[t]) < IntRange
    BY <2>4, FewRan
  <2>6. yieldn[t] \in 0..(IntRange - 1)
    BY <2>1 DEF TypeOK, InYield
  <2>7. (tasknswitch - yieldn[t] - 1) % IntRange = Cardinality(ran[t])
    BY <2>4, <2>5, <2>6, CountBack DEF BackInYield
  <2>8. YieldResult(t) = Cardinality(ran[t])
    BY <2>5, <2>7 DEF YieldResult, AsInt
  <2> QED BY <2>4, <2>8 DEF BackInYield
<1>2. IInv /\ TurnInv /\ [HistNext]_histVars => TurnInv'
  BY TurnStep DEF IInv
<1> QED BY <1>1, <1>2, TurnInit, HistRefines, Invariance, PTL DEF HistSpec

-----------------------------------------------------------------------------
(* The program starts with a non-system task that has not exited.          *)
LEMMA LeaverInit == HistInit => LeaverInv
<1> SUFFICES ASSUME HistInit PROVE LeaverInv
  OBVIOUS
<1>1. oncpu = "sched" /\ leaver.how = "none"
  BY DEF HistInit, Init
<1> QED BY <1>1 DEF LeaverInv

(* Steps that leave the set of non-system tasks, their exiting flags and   *)
(* the exit value alone are no news to leaver.                             *)
LEMMA SameLeaver ==
  ASSUME LeaverInv, HistNext, Users' = Users, exiting' = exiting,
         taskexitval' = taskexitval, \A t \in Users : ~system'[t],
         oncpu' = "task" => oncpu = "task"
  PROVE  LeaverInv'
<1>1. leaver' = leaver
  BY DEF HistNext
<1> QED BY <1>1 DEF LeaverInv

(* Every call and every turn of the scheduler keeps LeaverInv: the exit    *)
(* value of a system task only counts while a non-system task is there,    *)
(* which will set it again.                                                *)
LEMMA LeaverStep == IInv /\ LeaverInv /\ [HistNext]_histVars => LeaverInv'
<1> SUFFICES ASSUME IInv, LeaverInv, [HistNext]_histVars PROVE LeaverInv'
  OBVIOUS
<1>0. TypeOK /\ RunQueueInv /\ TableInv /\ CountInv
  BY DEF IInv
<1>a. CASE UNCHANGED histVars
  BY <1>a DEF LeaverInv, Users, Live, histVars, schedVars
<1>b. CASE HistNext
  <2> USE <1>b
  <2>0. [Next]_schedVars
    BY DEF HistNext
  <2>a. Live \subseteq Task /\ Users \subseteq Live /\ \A t \in Users : ~system[t]
    BY <1>0, LiveAreTasks DEF Users
  <2>1. ASSUME NEW t \in Task, NEW u \in Task, TaskCreate(t, u) PROVE LeaverInv'
    <3>1. /\ u \notin Live /\ alltask' = Append(alltask, u) /\ alltask \in Seq(Task)
          /\ IsInjective(alltask) /\ system' = [system EXCEPT ![u] = FALSE]
          /\ exiting' = [exiting EXCEPT ![u] = FALSE]
          /\ system \in [Task -> BOOLEAN] /\ exiting \in [Task -> BOOLEAN]
      BY <1>0, <2>1 DEF TaskCreate, TypeOK, TableInv
    <3>2. u \in Live'
      BY <3>1, AppendToQueue DEF Live
    <3>3. u \in Users' /\ ~exiting'[u]
      BY <3>1, <3>2 DEF Users
    <3> QED BY <3>3 DEF LeaverInv
  <2>2. ASSUME NEW t \in Task, TaskSystem(t) PROVE LeaverInv'
    <3>1. /\ t \in Live /\ ~system[t] /\ system' = [system EXCEPT ![t] = TRUE]
          /\ system \in [Task -> BOOLEAN] /\ exiting' = exiting
      BY <1>0, <2>2, CallerFacts DEF TaskSystem, TypeOK
    <3>2. t \in Users /\ system'[t]
      BY <3>1, <2>a DEF Users
    <3>3. leaver' = [how |-> "system", status |-> 0]
      BY <3>1, <3>2 DEF HistNext
    <3>4. leaver'.how = "system"
      BY <3>3
    <3> QED BY <3>4 DEF LeaverInv
  <2>3. ASSUME NEW t \in Task, NEW v \in Status, TaskExit(t, v) PROVE LeaverInv'
    <3>1. /\ t \in Live /\ exiting' = [exiting EXCEPT ![t] = TRUE]
          /\ exiting \in [Task -> BOOLEAN] /\ oncpu = "task" /\ oncpu' = "sched"
          /\ Users' = Users /\ system' = system
      BY <1>0, <2>3, CallerFacts DEF TaskExit, Running, SwitchOut, TypeOK, Users, Live
    <3>2. \A u \in Live : ~exiting[u]
      BY <1>0, <3>1 DEF RunQueueInv
    <3>3. CASE t \in Users
      <4>1. ~exiting[t] /\ exiting'[t]
        BY <2>a, <3>1, <3>2
      <4>2. leaver' = [how |-> "exit", status |-> taskexitval']
        BY <3>3, <4>1 DEF HistNext
      <4>3. leaver'.status = taskexitval'
        BY <4>2
      <4> QED BY <3>1, <4>3 DEF LeaverInv
    <3>4. CASE t \notin Users /\ Users = {}
      <4>1. leaver' = leaver
        BY <3>4 DEF HistNext
      <4>2. leaver'.how = "system"
        BY <3>1, <3>4, <4>1 DEF LeaverInv
      <4> QED BY <4>2 DEF LeaverInv
    <3>5. CASE t \notin Users /\ Users # {}
      <4>1. PICK u \in Users : u # t
        BY <3>5
      <4>2. ~exiting'[u]
        BY <2>a, <3>1, <3>2, <4>1
      <4> QED BY <3>1, <4>1, <4>2 DEF LeaverInv
    <3> QED BY <3>3, <3>4, <3>5
  <2>4. CASE SwitchedOut
    <3>1. /\ oncpu' = "sched" /\ exiting' = exiting /\ system' = system
          /\ taskexitval' = taskexitval
      BY <2>4 DEF SwitchedOut
    <3>2. leaver' = leaver
      BY <2>a, <3>1 DEF HistNext
    <3>3. \A u \in Users : u \in Users' \/ exiting[u]
      <4>1. CASE exiting[taskrunning]
        BY <1>0, <2>4, <3>1, <4>1, CleanUp DEF Users, Live
      <4>2. CASE ~exiting[taskrunning]
        BY <2>4, <3>1, <4>2 DEF SwitchedOut, Users, Live
      <4> QED BY <4>1, <4>2
    <3> QED BY <3>1, <3>2, <3>3 DEF LeaverInv
  <2>5. CASE Dispatch
    <3>1. /\ Users' = Users /\ exiting' = exiting /\ system' = system
          /\ taskexitval' = taskexitval /\ taskcount # 0
      BY <2>5 DEF Dispatch, NoneLeft, taskVars, Users, Live
    <3>2. Users # {}
      BY <1>0, <3>1, FS_EmptySet DEF CountInv
    <3>3. leaver' = leaver
      BY <2>a, <3>1 DEF HistNext
    <3> QED BY <3>1, <3>2, <3>3 DEF LeaverInv
  <2>6. ASSUME NEW t \in Task,
               \/ TaskYield(t) \/ YieldReturn(t) \/ TaskExitAll(t)
               \/ \E ws \in WakeLists(Parked) : Wake(t, ws) \/ Block(t, ws)
        PROVE  LeaverInv'
    <3>1. /\ Users' = Users /\ exiting' = exiting /\ system' = system
          /\ taskexitval' = taskexitval /\ oncpu = "task"
      BY <2>6 DEF TaskYield, YieldReturn, TaskExitAll, Wake, Block, Running,
                  taskVars, Users, Live
    <3> QED BY <2>a, <3>1, SameLeaver
  <2>7. CASE Done \/ Stalled \/ UNCHANGED schedVars
    <3>1. /\ Users' = Users /\ exiting' = exiting /\ system' = system
          /\ taskexitval' = taskexitval /\ oncpu' = oncpu
      BY <2>7 DEF Done, Stalled, taskVars, schedVars, Users, Live
    <3> QED BY <2>a, <3>1, SameLeaver
  <2> QED BY <2>0, <2>1, <2>2, <2>3, <2>4, <2>5, <2>6, <2>7
          DEF Next, TaskStep, Scheduler, Terminated
<1> QED BY <1>a, <1>b

(* When the last non-system task leaves by taskexit() the program ends with*)
(* the status that task gave, whatever system tasks exit with.             *)
THEOREM ExitCorrect == HistSpec => []ExitStatus
<1>1. EndInv /\ LeaverInv => ExitStatus
  BY DEF EndInv, LeaverInv, ExitStatus
<1> QED BY <1>1, LeaverInit, LeaverStep, HistRefines, Invariance, EndCorrect, PTL
        DEF HistSpec
=============================================================================
