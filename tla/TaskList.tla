------------------------------ MODULE TaskList ------------------------------
(***************************************************************************)
(* The doubly linked lists of task.c: addtask(), deltask() and the sorted  *)
(* insertion that taskdelay() codes by hand.  A Task has one pair of links *)
(* for all lists: the run queue, the sleepers, the wait lists of locks and *)
(* Rendez.  The other modules take these lists as sequences; here elems    *)
(* records the sequence that each list stands for, and LinkInv says that   *)
(* the pointers represent it.                                              *)
(*                                                                         *)
(* A task is added only when it is on no list and deleted only from the    *)
(* list it is on, which is what RunQueueInv of Sched and the invariants    *)
(* WaitInv and SleepInv of the primitives state.                           *)
(***************************************************************************)
EXTENDS Integers, Sequences, FiniteSets, Functions, SequencesExt

CONSTANTS
  Task,      \* the Task blocks
  nil,       \* the nil Task pointer
  List,      \* the Tasklists
  sleeping,  \* the one taskdelay() inserts into
  When       \* alarm times

TaskListAssumption ==
  /\ IsFiniteSet(Task) /\ nil \notin Task
  /\ sleeping \in List
  /\ When \subseteq Nat /\ 0 \in When

VARIABLES
  head, tail,  \* Tasklist.head, Tasklist.tail
  next, prev,  \* Task.next, Task.prev
  alarmtime,   \* Task.alarmtime
  elems        \* the tasks of each list, first to last

linkVars == <<head, tail, next, prev>>
listVars == <<linkVars, alarmtime, elems>>

OnList(l) == Range(elems[l])
Unlisted  == Task \ UNION {OnList(l) : l \in List}
-----------------------------------------------------------------------------
(* f with the field of t set to v, if there is a t.                        *)
Set(f, t, v) == IF t = nil THEN f ELSE [f EXCEPT ![t] = v]

(* The assignments of addtask(); prev of the new task is the old tail,     *)
(* nil for an empty list.                                                  *)
AppendLinks(l, t) ==
  /\ next' = [Set(next, tail[l], t) EXCEPT ![t] = nil]
  /\ prev' = [prev EXCEPT ![t] = tail[l]]
  /\ head' = IF tail[l] = nil THEN [head EXCEPT ![l] = t] ELSE head
  /\ tail' = [tail EXCEPT ![l] = t]

addtask(l, t) ==
  /\ t \in Unlisted
  /\ AppendLinks(l, t)
  /\ elems' = [elems EXCEPT ![l] = Append(@, t)]
  /\ UNCHANGED alarmtime

(* deltask() leaves the links of t itself as they are.                     *)
deltask(l, t) ==
  /\ \E k \in DOMAIN elems[l] :
       elems[l][k] = t /\ elems' = [elems EXCEPT ![l] = RemoveAt(@, k)]
  /\ next' = Set(next, prev[t], next[t])
  /\ head' = IF prev[t] = nil THEN [head EXCEPT ![l] = next[t]] ELSE head
  /\ prev' = Set(prev, next[t], prev[t])
  /\ tail' = IF next[t] = nil THEN [tail EXCEPT ![l] = prev[t]] ELSE tail
  /\ UNCHANGED alarmtime

(* The loop of taskdelay(): the k-th task it meets, nil from the end on.   *)
Walk ==
  LET at[k \in 0..Cardinality(Task)] ==
        IF k = 0 THEN head[sleeping]
        ELSE IF at[k - 1] = nil THEN nil ELSE next[at[k - 1]]
  IN  at

StopsAt(at, k, when) == at[k] = nil \/ alarmtime[at[k]] >= when

(* Where the loop stops: the first task that is not to wake earlier.       *)
FirstLater(when) ==
  LET at == Walk
      k  == CHOOSE k \in DOMAIN at :
              StopsAt(at, k, when) /\ \A j \in 0..(k - 1) : ~StopsAt(at, j, when)
  IN  at[k]

(* The place of FirstLater in the sequence, as module FdTask computes it.  *)
Before(when) ==
  Cardinality({k \in DOMAIN elems[sleeping] :
                 \A j \in 1..k : alarmtime[elems[sleeping][j]] < when})

(* Mutant of InsertLinks: the successor's prev is forgotten.               *)
InsertLinksOneWay(t, u) ==
  LET p == IF u = nil THEN tail[sleeping] ELSE prev[u]
  IN  /\ next' = [Set(next, p, t) EXCEPT ![t] = u]
      /\ head' = IF p = nil THEN [head EXCEPT ![sleeping] = t] ELSE head
      /\ prev' = [prev EXCEPT ![t] = p]
      /\ tail' = IF u = nil THEN [tail EXCEPT ![sleeping] = t] ELSE tail

(* The assignments of taskdelay() that put t in front of u, or last.       *)
InsertLinks(t, u) ==
  LET p == IF u = nil THEN tail[sleeping] ELSE prev[u]
  IN  /\ next' = [Set(next, p, t) EXCEPT ![t] = u]
      /\ head' = IF p = nil THEN [head EXCEPT ![sleeping] = t] ELSE head
      /\ prev' = [Set(prev, u, t) EXCEPT ![t] = p]
      /\ tail' = IF u = nil THEN [tail EXCEPT ![sleeping] = t] ELSE tail

taskdelay(t, when) ==
  /\ t \in Unlisted
  /\ InsertLinks(t, FirstLater(when))
  /\ alarmtime' = [alarmtime EXCEPT ![t] = when]
  /\ elems' = [elems EXCEPT ![sleeping] = InsertAt(@, Before(when) + 1, t)]
-----------------------------------------------------------------------------
(* Lists are zeroed memory, and taskalloc() zeroes a Task.                 *)
Init ==
  /\ head = [l \in List |-> nil] /\ tail = head
  /\ next = [t \in Task |-> nil] /\ prev = next
  /\ alarmtime = [t \in Task |-> 0]
  /\ elems = [l \in List |-> <<>>]

Next ==
  \/ \E l \in List \ {sleeping}, t \in Task : addtask(l, t)
  \/ \E l \in List, t \in Task : deltask(l, t)
  \/ \E t \in Task, when \in When : taskdelay(t, when)

Spec == Init /\ [][Next]_listVars
-----------------------------------------------------------------------------
(* The k-th task of s, nil in front of the first and behind the            *)
(* last.                                                                   *)
At(s, k) == IF k \in DOMAIN s THEN s[k] ELSE nil

(* After any calls of addtask(), deltask() and taskdelay() on lists that   *)
(* share the links of their tasks, head and tail are the ends of each list *)
(* and next and prev lead through it in both directions: stale links that  *)
(* deltask() leaves behind are never followed, and the sorted insertion    *)
(* by pointers is the insertion into the sequence.                         *)
LinkInv ==
  \A l \in List : LET s == elems[l] IN
    /\ head[l] = At(s, 1) /\ tail[l] = At(s, Len(s))
    /\ \A k \in DOMAIN s : next[s[k]] = At(s, k + 1) /\ prev[s[k]] = At(s, k - 1)
=============================================================================
