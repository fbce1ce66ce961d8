------------------------------- MODULE Primes -------------------------------
(***************************************************************************)
(* primes.c: a sieve of tasks in a row.  taskmain() sends 2, 3, 4, ... to  *)
(* the first primetask(); each takes the first number it gets for a prime, *)
(* creates the next task and passes on the numbers that its prime does not *)
(* divide; the first to get a prime above the goal ends the program.       *)
(*                                                                         *)
(* Stage 0 is taskmain(), stage k the k-th primetask().  Stage k sends on  *)
(* channel k, which only stage k + 1 receives from.  The channels have no  *)
(* buffer (the variable buffer is never set), so that, as in Exchange, a   *)
(* value is handed over when both are there.                               *)
(***************************************************************************)
EXTENDS Integers, Sequences

CONSTANTS
  goal,    \* goal
  Stages   \* bound: number of primetasks

PrimesAssumption ==
  goal \in Nat /\ Stages \in Nat \ {0}

Stage == 1..Stages

VARIABLES
  p,        \* the prime of each stage, 0 before it has one
  sending,  \* what a stage wants to send next, 0 while it receives
  created,  \* number of primetasks
  printed,  \* the output
  ended     \* taskexitall() was called

vars == <<p, sending, created, printed, ended>>

(* The receiver of channel k is in chanrecvul().                           *)
Receiving(k) == k + 1 <= created /\ sending[k + 1] = 0

(* Mutant of Passes: the wrong way round.                                  *)
PassesMultiples(k, i) == i % p[k] = 0

(* i % p: the number goes on to the next stage.                            *)
Passes(k, i) == i % p[k] # 0

Exceeds(i) == i > goal

(* Stage k gets i from chanrecvul(): its prime, or a number to look at.    *)
Gets(k, i, sent) ==
  IF p[k] # 0
  THEN /\ sending' = IF Passes(k, i) THEN [sent EXCEPT ![k] = i] ELSE sent
       /\ UNCHANGED <<p, created, printed, ended>>
  ELSE IF Exceeds(i)
  THEN ended' = TRUE /\ sending' = sent /\ UNCHANGED <<p, created, printed>>
  ELSE /\ p' = [p EXCEPT ![k] = i]
       /\ printed' = Append(printed, i)
       /\ created' = created + 1
       /\ sending' = sent
       /\ UNCHANGED ended

(* chansendul() has returned: taskmain() goes on to the next number, a     *)
(* primetask() to receive.                                                 *)
AfterSend(k) == [sending EXCEPT ![k] = IF k = 0 THEN @ + 1 ELSE 0]

Transfer(k) ==
  /\ ~ended /\ sending[k] # 0 /\ Receiving(k)
  /\ Gets(k + 1, sending[k], AfterSend(k))

(* taskmain() has created the first primetask().                           *)
Init ==
  /\ p = [k \in Stage |-> 0] /\ created = 1
  /\ sending = [k \in 0..Stages |-> IF k = 0 THEN 2 ELSE 0]
  /\ printed = <<>> /\ ended = FALSE

Next == (\E k \in 0..(Stages - 1) : Transfer(k)) \/ (ended /\ UNCHANGED vars)

Spec == Init /\ [][Next]_vars

(* A transfer that both sides wait for happens: ready tasks run, and no    *)
(* channel has a second sender or receiver that could be served instead.   *)
Fairness == \A k \in 0..(Stages - 1) : WF_vars(Transfer(k))

FairSpec == Spec /\ Fairness
-----------------------------------------------------------------------------
IsPrime(n) == n > 1 /\ \A d \in 2..(n - 1) : n % d # 0

(* Every number printed is a prime, and all smaller primes have been       *)
(* printed before it, in order, although the stages run ahead of one       *)
(* another as far as their channels allow; the program ends only with all  *)
(* primes up to the goal printed.                                          *)
SieveInv ==
  /\ \A j \in DOMAIN printed : IsPrime(printed[j])
  /\ \A j \in DOMAIN printed : \A n \in 2..(printed[j] - 1) : IsPrime(n) =>
       \E h \in 1..(j - 1) : printed[h] = n
  /\ ended => \A n \in 2..goal : IsPrime(n) => \E j \in DOMAIN printed : printed[j] = n

(* The program ends: no stage waits for another for ever.                  *)
Terminates == <>ended
=============================================================================
