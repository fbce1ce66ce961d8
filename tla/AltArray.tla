------------------------------ MODULE AltArray ------------------------------
(***************************************************************************)
(* The arrays in which the Alts of waiting tasks are queued: addarray(),   *)
(* delarray(), altqueue(), altdequeue() and altalldequeue() of channel.c,  *)
(* and chanfree().  Module Channel takes these arrays as sets; here they   *)
(* are the arrays of the code, with their allocation, and ArrayInv says    *)
(* that they hold what the sets hold.                                      *)
(*                                                                         *)
(* An Alt is <<task, index>>, its place in the array that its task has on  *)
(* its stack; alts[t] says to which array each of them belongs, None for   *)
(* CHANNOP.  A call may name a channel several times.                      *)
(***************************************************************************)
EXTENDS Integers, Sequences, SequencesExt, FiniteSets

CONSTANTS
  Task,    \* the tasks
  Chan,    \* the channels
  None,    \* no array
  Grain,   \* slots by which an array grows: 16
  Calls    \* sequences of arrays, one for each Alt of a call

(* asend and arecv of all channels                                         *)
Array == Chan \X {"SND", "RCV"}

AltArrayAssumption ==
  Grain \in Nat \ {0} /\ None \notin Array /\ Calls \subseteq Seq(Array \cup {None})

VARIABLES
  a,       \* Altarray.a and n
  m,       \* Altarray.m, the slots allocated
  alts,    \* where the Alts of a waiting task belong, <<>> when it runs
  freed,   \* arrays whose channel was freed
  aborted  \* altdequeue() did not find its Alt

vars == <<a, m, alts, freed, aborted>>
-----------------------------------------------------------------------------
(* addarray(): an array that is full is allocated anew, then p is put at   *)
(* its end.  s is the contents and sizes of all arrays.                    *)
addarray(s, x, p) ==
  [a |-> [s.a EXCEPT ![x] = Append(@, p)],
   m |-> [s.m EXCEPT ![x] = IF Len(s.a[x]) = @ THEN @ + Grain ELSE @]]

(* chanalt(): the arrays after altqueue() of the first i Alts.             *)
Queueing(t, as) ==
  LET s[i \in 0..Len(as)] ==
        IF i = 0 THEN [a |-> a, m |-> m]
        ELSE IF as[i] = None THEN s[i - 1] ELSE addarray(s[i - 1], as[i], <<t, i>>)
  IN  s

(* chanalt() parks: altqueue() of all its Alts.                            *)
altqueue(t, as) ==
  LET s == Queueing(t, as)[Len(as)] IN
  /\ ~aborted /\ alts[t] = <<>> /\ \A i \in DOMAIN as : as[i] \notin freed
  /\ a' = s.a /\ m' = s.m
  /\ alts' = [alts EXCEPT ![t] = as]
  /\ UNCHANGED <<freed, aborted>>

(* Mutant of delarray: the last entry is forgotten.                        *)
delarrayLast(s, i) == SubSeq(s, 1, Len(s) - 1)

(* The last entry takes the place of entry i.                              *)
delarray(s, i) == [k \in 1..(Len(s) - 1) |-> IF k = i THEN s[Len(s)] ELSE s[k]]

(* altdequeue() of one Alt: its first entry goes, or abort().              *)
altdequeue(s, x, p) ==
  LET first == CHOOSE i \in DOMAIN s.a[x] :
                 s.a[x][i] = p /\ \A j \in 1..(i - 1) : s.a[x][j] # p
  IN  IF p \in Range(s.a[x])
      THEN [a |-> [s.a EXCEPT ![x] = delarray(@, first)], found |-> s.found]
      ELSE [a |-> s.a, found |-> FALSE]

(* altalldequeue(): the arrays after the first i Alts.                     *)
Dequeueing(t, as) ==
  LET s[i \in 0..Len(as)] ==
        IF i = 0 THEN [a |-> a, found |-> TRUE]
        ELSE IF as[i] = None THEN s[i - 1] ELSE altdequeue(s[i - 1], as[i], <<t, i>>)
  IN  s

altalldequeue(t) ==
  LET s == Dequeueing(t, alts[t])[Len(alts[t])] IN
  /\ ~aborted /\ alts[t] # <<>>
  /\ a' = s.a /\ aborted' = ~s.found
  /\ alts' = [alts EXCEPT ![t] = <<>>]
  /\ UNCHANGED <<m, freed>>

(* chanfree() tests nothing; the program frees a channel on which nobody   *)
(* waits and which it does not use again.                                  *)
chanfree(c) ==
  LET both == {c} \X {"SND", "RCV"} IN
  /\ ~aborted /\ \A x \in both : x \notin freed /\ a[x] = <<>>
  /\ freed' = freed \cup both
  /\ m' = [x \in Array |-> IF x \in both THEN 0 ELSE m[x]]
  /\ UNCHANGED <<a, alts, aborted>>

Init ==
  /\ a = [x \in Array |-> <<>>] /\ m = [x \in Array |-> 0]
  /\ alts = [t \in Task |-> <<>>] /\ freed = {} /\ aborted = FALSE

Next ==
  \/ \E t \in Task : altalldequeue(t) \/ (\E as \in Calls : altqueue(t, as))
  \/ \E c \in Chan : chanfree(c)

Spec == Init /\ [][Next]_vars
-----------------------------------------------------------------------------
(* The Alts of waiting tasks that belong to x.                             *)
Of(x) == UNION {{<<t, i>> : i \in {j \in DOMAIN alts[t] : alts[t][j] = x}} : t \in Task}

(* In whatever order tasks queue and withdraw their Alts, each array holds *)
(* exactly the Alts of the tasks that wait, each once, in memory that is   *)
(* allocated; and altdequeue() finds every Alt it looks for.               *)
ArrayInv ==
  /\ ~aborted
  /\ \A x \in Array :
       /\ Range(a[x]) = Of(x)
       /\ Cardinality(Range(a[x])) = Len(a[x]) /\ Len(a[x]) <= m[x]
       /\ x \in freed => a[x] = <<>>
=============================================================================
