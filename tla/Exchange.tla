------------------------------- MODULE Exchange -------------------------------
(***************************************************************************)
(* What channels promise their users: a channel is a FIFO buffer of        *)
(* bounded capacity, a call of chanalt() offers some sends and receives    *)
(* and exactly one of them happens, atomically with the matching receive   *)
(* or send of a waiting task if there is one.                              *)
(*                                                                         *)
(* There is no ring buffer here, no Altarray and no scheduler; module      *)
(* Channel is shown to implement this.                                     *)
(***************************************************************************)
EXTENDS Integers, Sequences

CONSTANTS
  Task, Chan, BufSize,
  Zero, Junk, NullPtr,  \* what a nil pointer sends; no value; the nil pointer
  Calls                 \* the calls tasks make: [alts, canblock]

VARIABLES
  buffer,   \* the values in each channel, oldest first
  waiting,  \* the Alts a waiting task offers, <<>> if it does not wait
  result    \* the Alt that happened in a task's last call, and its value

exchangeVars == <<buffer, waiting, result>>

NoResult == [i |-> -1, v |-> Junk]

-----------------------------------------------------------------------------
Opposite(a, b) == a.c = b.c /\ {a.op, b.op} = {"SND", "RCV"}

(* The waiting offers that match a.                                        *)
Partners(a) ==
  {p \in UNION {{u} \X DOMAIN waiting[u] : u \in Task} :
     Opposite(a, waiting[p[1]][p[2]])}

Possible(a) ==
  \/ Partners(a) # {}
  \/ a.op = "SND" /\ Len(buffer[a.c]) < BufSize[a.c]
  \/ a.op = "RCV" /\ buffer[a.c] # <<>>

Sent(a) == IF a.v = NullPtr THEN Zero ELSE a.v

(* What the caller learns of an Alt that happened: a receive into a nil    *)
(* pointer drops the value w.                                              *)
Outcome(i, a, w) ==
  [i |-> i, v |-> IF a.op = "SND" \/ a.v = NullPtr THEN a.v ELSE w]

(* Sender and receiver meet: the new value goes in at the back and the     *)
(* oldest one comes out at the front.                                      *)
Meet(t, a, i, p) ==
  LET b == waiting[p[1]][p[2]]
      q == Append(buffer[a.c], Sent(IF a.op = "SND" THEN a ELSE b))
  IN  /\ buffer' = [buffer EXCEPT ![a.c] = Tail(q)]
      /\ waiting' = [waiting EXCEPT ![p[1]] = <<>>]
      /\ result' = [result EXCEPT ![t] = Outcome(i, a, Head(q)),
                                  ![p[1]] = Outcome(p[2], b, Head(q))]

Deposit(t, a, i) ==
  /\ a.op = "SND" /\ Partners(a) = {} /\ Len(buffer[a.c]) < BufSize[a.c]
  /\ buffer' = [buffer EXCEPT ![a.c] = Append(@, Sent(a))]
  /\ result' = [result EXCEPT ![t] = Outcome(i, a, Zero)]
  /\ UNCHANGED waiting

Collect(t, a, i) ==
  /\ a.op = "RCV" /\ Partners(a) = {} /\ buffer[a.c] # <<>>
  /\ buffer' = [buffer EXCEPT ![a.c] = Tail(@)]
  /\ result' = [result EXCEPT ![t] = Outcome(i, a, Head(buffer[a.c]))]
  /\ UNCHANGED waiting

Happens(t, k) ==
  \E i \in DOMAIN k.alts :
    LET a == k.alts[i]
    IN  \/ \E p \in Partners(a) : Meet(t, a, i, p)
        \/ Deposit(t, a, i)
        \/ Collect(t, a, i)

Refused(t, k) ==
  /\ ~k.canblock /\ \A i \in DOMAIN k.alts : ~Possible(k.alts[i])
  /\ result' = [result EXCEPT ![t] = [NoResult EXCEPT !.i = 0]]
  /\ UNCHANGED <<buffer, waiting>>

Wait(t, k) ==
  /\ k.canblock /\ \A i \in DOMAIN k.alts : ~Possible(k.alts[i])
  /\ waiting' = [waiting EXCEPT ![t] = k.alts]
  /\ result' = [result EXCEPT ![t] = NoResult]
  /\ UNCHANGED buffer

(* The caller has done with its result.                                    *)
Forget(t) ==
  /\ waiting[t] = <<>>
  /\ result' = [result EXCEPT ![t] = NoResult]
  /\ UNCHANGED <<buffer, waiting>>

Init ==
  /\ buffer = [c \in Chan |-> <<>>]
  /\ waiting = [t \in Task |-> <<>>]
  /\ result = [t \in Task |-> NoResult]

Next ==
  \E t \in Task :
    \/ waiting[t] = <<>> /\ \E k \in Calls : Happens(t, k) \/ Refused(t, k) \/ Wait(t, k)
    \/ Forget(t)

Spec == Init /\ [][Next]_exchangeVars
=============================================================================
