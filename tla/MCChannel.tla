------------------------------ MODULE MCChannel ------------------------------
(* Model-checking instances of the channels: an unbuffered one, a buffered *)
(* one, single operations and chanalt() calls over both.                   *)
EXTENDS Channel, TLC

CONSTANTS t1, t2, t3, junk, nil

MCBufSize == [c \in Chan |-> IF c = "plain" THEN 0 ELSE 2]

Send(c, v) == [c |-> c, op |-> "SND", v |-> v]
Recv(c)    == [c |-> c, op |-> "RCV", v |-> junk]
Nop        == [c |-> "plain", op |-> "NOP", v |-> junk]

Single ==
  {ChanOp("plain", "SND", 1, TRUE),
   ChanOp("queue", "SND", 1, TRUE), ChanOp("queue", "SND", nil, FALSE),
   ChanOp("queue", "RCV", nil, FALSE)}

Multi ==
  {[alts |-> <<Send("plain", 1), Recv("plain")>>, canblock |-> TRUE],
   [alts |-> <<Recv("plain"), Nop, Recv("queue")>>, canblock |-> TRUE],
   [alts |-> <<Recv("plain"), Send("queue", 0)>>, canblock |-> TRUE]}

MCCalls == Single \cup Multi

Symmetry == Permutations(Task)
=============================================================================
