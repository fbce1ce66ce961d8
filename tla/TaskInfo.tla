------------------------------ MODULE TaskInfo ------------------------------
(***************************************************************************)
(* taskinfo() of task.c, the handler of SIGQUIT, which goes through        *)
(* alltask.  A signal comes between any two instructions: here taskcreate()*)
(* and the clean-up of an exited task, which are single steps in Sched,    *)
(* are taken apart into their stores to alltask, nalltask and alltaskslot, *)
(* and the handler may run between them.  It runs to its end before the    *)
(* program goes on.                                                        *)
(*                                                                         *)
(* C does not order the two stores of alltask[nalltask++] = t, nor those   *)
(* of alltask[i] = alltask[--nalltask], as a handler sees them: both       *)
(* orders are modelled.                                                    *)
(***************************************************************************)
EXTENDS Integers, FiniteSets

CONSTANTS
  Task,   \* the Task blocks
  Junk,   \* what is in memory that was not written
  Freed,  \* what is in memory that was freed
  Chunk   \* the table grows by this many slots: 64

InfoAssumption == Chunk \in Nat \ {0} /\ {Junk, Freed} \cap Task = {}

VARIABLES
  alltask,   \* alltask[], as long as it is allocated
  dangling,  \* alltask points to the block that realloc() has freed
  nalltask,  \* nalltask
  slot,      \* Task.alltaskslot
  allocated, \* Tasks that malloc() has given out
  pc,        \* the store that comes next
  cur        \* the Task that is created or cleaned up

tableVars == <<alltask, dangling, nalltask, slot>>
vars      == <<tableVars, allocated, pc, cur>>

At(p)      == pc = p
Goes(p)    == pc' = p
Put(k, t)  == alltask' = [alltask EXCEPT ![k] = t]
Grown      == alltask' = [k \in 0..(nalltask + Chunk - 1) |->
                            IF k \in DOMAIN alltask THEN alltask[k] ELSE Junk]
-----------------------------------------------------------------------------
(* taskcreate(): malloc() of the Task, in taskalloc().                     *)
Allocates(t) ==
  /\ At("run") /\ t \notin allocated
  /\ allocated' = allocated \cup {t} /\ cur' = t /\ Goes("grow")
  /\ UNCHANGED tableVars

(* realloc(), when the table is full: it extends the block, or moves it,   *)
(* frees the old one and returns.                                          *)
Grows ==
  /\ At("grow")
  /\ \/ nalltask % Chunk # 0 /\ Goes("slot") /\ UNCHANGED <<alltask, dangling>>
     \/ nalltask % Chunk = 0 /\ Goes("slot") /\ Grown /\ UNCHANGED dangling
     \/ /\ nalltask % Chunk = 0 /\ Goes("assign")
        /\ dangling' = (nalltask > 0) /\ UNCHANGED alltask
  /\ UNCHANGED <<nalltask, slot, allocated, cur>>

(* alltask = the result of realloc()                                       *)
Assigns ==
  /\ At("assign") /\ Goes("slot")
  /\ Grown /\ dangling' = FALSE
  /\ UNCHANGED <<nalltask, slot, allocated, cur>>

SetsSlot ==
  /\ At("slot") /\ Goes("enter")
  /\ slot' = [slot EXCEPT ![cur] = nalltask]
  /\ UNCHANGED <<alltask, dangling, nalltask, allocated, cur>>

(* alltask[nalltask++] = t                                                 *)
Enters ==
  /\ \/ At("enter") /\ Goes("count") /\ Put(nalltask, cur) /\ UNCHANGED nalltask
     \/ At("count") /\ Goes("run") /\ nalltask' = nalltask + 1 /\ UNCHANGED alltask
     \/ At("enter") /\ Goes("store") /\ nalltask' = nalltask + 1 /\ UNCHANGED alltask
     \/ At("store") /\ Goes("run") /\ Put(nalltask - 1, cur) /\ UNCHANGED nalltask
  /\ UNCHANGED <<dangling, slot, allocated, cur>>
-----------------------------------------------------------------------------
(* A task has exited and the scheduler cleans up.                          *)
Exited(t) ==
  /\ At("run") /\ t \in allocated
  /\ cur' = t /\ Goes("leave")
  /\ UNCHANGED <<tableVars, allocated>>

(* The index of the last entry before --nalltask.                          *)
LastTask == nalltask - 1

(* alltask[i] = alltask[--nalltask]                                        *)
Leaves ==
  LET i == slot[cur] IN
  /\ \/ At("leave") /\ Goes("move") /\ nalltask' = LastTask /\ UNCHANGED alltask
     \/ At("move") /\ Goes("reslot") /\ Put(i, alltask[nalltask]) /\ UNCHANGED nalltask
     \/ At("leave") /\ Goes("uncount") /\ Put(i, alltask[LastTask]) /\ UNCHANGED nalltask
     \/ At("uncount") /\ Goes("reslot") /\ nalltask' = LastTask /\ UNCHANGED alltask
  /\ UNCHANGED <<dangling, slot, allocated, cur>>

(* Mutant of Moved: the slot of the task that goes is set.                 *)
MovedNone(s, i) == [s EXCEPT ![cur] = i]

(* alltask[i]->alltaskslot = i                                             *)
Moved(s, i) == [s EXCEPT ![alltask[i]] = i]

Reslots ==
  /\ At("reslot") /\ Goes("free")
  /\ slot' = Moved(slot, slot[cur])
  /\ UNCHANGED <<alltask, dangling, nalltask, allocated, cur>>

Frees ==
  /\ At("free") /\ Goes("run")
  /\ allocated' = allocated \ {cur}
  /\ UNCHANGED <<tableVars, cur>>

(* The pointers that taskinfo() would follow if SIGQUIT came now.          *)
taskinfo == {IF dangling THEN Freed ELSE alltask[k] : k \in 0..(nalltask - 1)}
-----------------------------------------------------------------------------
Init ==
  /\ alltask = [k \in {} |-> Junk] /\ dangling = FALSE /\ nalltask = 0
  /\ slot = [t \in Task |-> 0] /\ allocated = {} /\ pc = "run"
  /\ cur = Junk

Next ==
  \/ \E t \in Task : Allocates(t) \/ Exited(t)
  \/ Grows \/ Assigns \/ SetsSlot \/ Enters \/ Leaves \/ Reslots \/ Frees

Spec == Init /\ [][Next]_vars
-----------------------------------------------------------------------------
(* Between operations a SIGQUIT lists exactly the tasks there are, each in *)
(* the slot it believes to be in.  At any instruction the handler follows  *)
(* only Tasks that are allocated, but for two places of taskcreate(): the  *)
(* assignment of the result of realloc(), and the entry of the new task if *)
(* it is counted before it is stored.  While an exited task is cleaned up, *)
(* in whatever order the stores are seen, it misses one other at most.     *)
ListInv ==
  /\ pc = "run" =>
       /\ taskinfo = allocated /\ nalltask = Cardinality(allocated)
       /\ \A t \in allocated : alltask[slot[t]] = t
  /\ pc \notin {"assign", "store"} => taskinfo \subseteq allocated
  /\ Cardinality(allocated \ (taskinfo \cup {cur})) <= 1 \/ pc = "assign"
=============================================================================
