-------------------------------- MODULE FdIO --------------------------------
(***************************************************************************)
(* fdread(), fdread1() and fdwrite() of fd.c: loops that try the system    *)
(* call on a non-blocking descriptor and wait in fdwait() while it answers *)
(* EAGAIN.  Several tasks share one connection: they read its incoming and *)
(* write its outgoing stream.                                              *)
(*                                                                         *)
(* The kernel's side, read(), write() and what poll() reports, is external *)
(* and modelled as fd.c uses it: a write takes some of the bytes, none, or *)
(* fails once the connection is broken.                                    *)
(***************************************************************************)
EXTENDS Integers, Sequences

CONSTANTS
  Client,   \* the tasks of the program
  NoTask,   \* no task runs
  NoCall,   \* not in one of the calls
  Ops,      \* the calls the tasks make: subset of {"read", "read1", "write"}
  MaxN,     \* bytes asked for in a call, at most
  Room,     \* bytes the kernel holds for the peer
  MaxIn     \* bytes the peer sends

(* What is known of a call, and of one that has returned.                  *)
Call   == [op : {"read", "read1", "write"}, n : 1..MaxN, tot : 0..MaxN]
Result == [op : {"read", "read1", "write"}, n : 1..MaxN,
           result : -1..MaxN, moved : 0..MaxN]

ASSUME FdIOAssumption ==
  /\ Ops \subseteq {"read", "read1", "write"} /\ NoCall \notin Call \cup Result
  /\ MaxN \in Nat \ {0} /\ Room \in Nat \ {0} /\ MaxIn \in Nat

VARIABLES
  ready, running, waiting,  \* see FdWait
  call,    \* the call a task is in: op, n, and tot of fdwrite()
  done,    \* its finished call: op, n, result, and the bytes it moved
  out,     \* bytes accepted by write(): <<task, index in its buffer>>
  drained, \* how many of them the peer has taken
  sent,    \* bytes the peer has sent
  readby,  \* who read them
  broken,  \* the connection is reset
  eof      \* the peer has sent all it will

pollVars == <<ready, running, waiting>>
netVars  == <<out, drained, sent, readby, broken, eof>>
vars     == <<pollVars, call, done, netVars>>

Io == {<<"conn", "r">>, <<"conn", "w">>}

(* The I/O that would not block, and the exceptional condition.            *)
Able ==
  {x \in Io \cup {<<"conn", "x">>} :
     \/ x[2] = "r" /\ (sent > Len(readby) \/ eof)
     \/ x[2] = "w" /\ Len(out) - drained < Room
     \/ broken}

W == INSTANCE FdWait WITH able <- Able, NoIo <- NoTask, Exc <- "x"

Smaller(a, b) == IF a < b THEN a ELSE b
-----------------------------------------------------------------------------
InCall(t, ops) == running = t /\ call[t] # NoCall /\ call[t].op \in ops

(* The call returns r to t, having moved k bytes.                          *)
Return(t, r, k) ==
  /\ call' = [call EXCEPT ![t] = NoCall]
  /\ done' = [done EXCEPT ![t] = [op |-> call[t].op, n |-> call[t].n,
                                  result |-> r, moved |-> k]]
  /\ UNCHANGED pollVars

(* fdread() and fdwrite() try first, fdread1() waits first.                *)
Begin(t, op, n) ==
  /\ running = t /\ call[t] = NoCall /\ done[t] = NoCall
  /\ call' = [call EXCEPT ![t] = [op |-> op, n |-> n, tot |-> 0]]
  /\ IF op = "read1" THEN W!fdwait(t, <<"conn", "r">>) ELSE UNCHANGED pollVars
  /\ UNCHANGED <<done, netVars>>

(* Mutant of Again: only exceptional conditions are waited for.            *)
AgainExc(t, io) == W!fdwait(t, <<"conn", "x">>) /\ UNCHANGED <<call, done>>

(* EAGAIN: wait and try again.                                             *)
Again(t, io) == W!fdwait(t, io) /\ UNCHANGED <<call, done>>

(* read() in the loops of fdread() and fdread1().                          *)
ReadStep(t) ==
  LET avail == sent - Len(readby) IN
  /\ InCall(t, {"read", "read1"})
  /\ \/ /\ avail > 0
        /\ \E m \in 1..Smaller(call[t].n, avail) :
             /\ readby' = readby \o [k \in 1..m |-> t]
             /\ Return(t, m, m)
     \/ /\ avail = 0
        /\ \/ broken /\ Return(t, -1, 0)
           \/ ~broken /\ eof /\ Return(t, 0, 0)
           \/ ~broken /\ ~eof /\ Again(t, <<"conn", "r">>)
        /\ UNCHANGED readby
  /\ UNCHANGED <<out, drained, sent, broken, eof>>

(* Mutant of Chunk: every write() starts at the front of the buffer.       *)
ChunkFirst(t, m) == [k \in 1..m |-> <<t, k>>]

(* The bytes, from buf + tot on, that one write() sends.                   *)
Chunk(t, m) == [k \in 1..m |-> <<t, call[t].tot + k>>]

(* write() in the loop of fdwrite(), and what it does with the result.     *)
WriteStep(t) ==
  LET room == Room - (Len(out) - drained)
      c    == call[t]
  IN
  /\ InCall(t, {"write"}) /\ c.tot < c.n
  /\ \/ /\ ~broken /\ room > 0
        /\ \E m \in 1..Smaller(c.n - c.tot, room) :
             /\ out' = out \o Chunk(t, m)
             /\ call' = [call EXCEPT ![t].tot = c.tot + m]
        /\ UNCHANGED <<done, pollVars>>
     \/ /\ \/ broken /\ Return(t, -1, c.tot)
           \/ ~broken /\ room > 0 /\ Return(t, c.tot, c.tot)   \* write() took nothing
           \/ ~broken /\ room = 0 /\ Again(t, <<"conn", "w">>)
        /\ UNCHANGED out
  /\ UNCHANGED <<drained, sent, readby, broken, eof>>

WriteDone(t) ==
  /\ InCall(t, {"write"}) /\ call[t].tot = call[t].n
  /\ Return(t, call[t].tot, call[t].tot)
  /\ UNCHANGED netVars

Schedule ==
  /\ \/ \E t \in Client : W!Dispatch(t) \/ (done[t] # NoCall /\ W!Leave(t))
     \/ W!PollRound
  /\ UNCHANGED <<call, done, netVars>>

(* The peer takes bytes, sends some, ends its stream, resets.              *)
Drains == drained < Len(out) /\ drained' = drained + 1
          /\ UNCHANGED <<out, sent, readby, broken, eof>>
Sends  == ~eof /\ sent < MaxIn /\ sent' = sent + 1
          /\ UNCHANGED <<out, drained, readby, broken, eof>>
Ends   == ~eof /\ sent = MaxIn /\ eof' = TRUE
          /\ UNCHANGED <<out, drained, sent, readby, broken>>
Resets == ~broken /\ broken' = TRUE
          /\ UNCHANGED <<out, drained, sent, readby, eof>>

Peer == (Drains \/ Sends \/ Ends \/ Resets) /\ UNCHANGED <<pollVars, call, done>>
-----------------------------------------------------------------------------
Init ==
  /\ ready = Client /\ running = NoTask
  /\ waiting = [t \in Client |-> NoTask]
  /\ call = [t \in Client |-> NoCall] /\ done = call
  /\ out = <<>> /\ drained = 0 /\ sent = 0 /\ readby = <<>>
  /\ broken = FALSE /\ eof = FALSE

TaskStep(t) ==
  \/ \E op \in Ops, n \in 1..MaxN : Begin(t, op, n)
  \/ ReadStep(t) \/ WriteStep(t) \/ WriteDone(t)

AllDone == (\A t \in Client : done[t] # NoCall) /\ running = NoTask /\ ready = {}

Next ==
  \/ \E t \in Client : TaskStep(t)
  \/ Schedule \/ Peer
  \/ AllDone /\ UNCHANGED vars

Spec == Init /\ [][Next]_vars

(* Tasks make progress in their calls and give up the CPU after them, and  *)
(* none yields for ever, which would keep fdtask from polling; the         *)
(* scheduler and fdtask go on; the peer takes what it is sent and sends    *)
(* all it has.  Nothing is assumed of resets.                              *)
Fairness ==
  /\ WF_vars(\E t \in Client : TaskStep(t))
  /\ WF_vars(Schedule)
  /\ WF_vars((Drains \/ Sends \/ Ends) /\ UNCHANGED <<pollVars, call, done>>)

FairSpec == Spec /\ Fairness
-----------------------------------------------------------------------------
(* The places on the outgoing stream with bytes of t.                      *)
Written(t) == {k \in DOMAIN out : out[k][1] = t}

(* Bytes that fdwrite() has put on the stream so far in t's call.          *)
Moved(t) == IF call[t] # NoCall THEN call[t].tot
            ELSE IF done[t] # NoCall /\ done[t].op = "write" THEN done[t].moved
            ELSE 0

(* fdwrite() puts its buffer on the stream in order, without a gap and     *)
(* without repeating a byte, although it writes in pieces between which    *)
(* other tasks write too.  A result of fdread(), fdread1() and fdwrite()   *)
(* that is not negative is the number of bytes moved, and zero bytes read is the end of the        *)
(* stream; a negative result is an error of the connection: EAGAIN, also   *)
(* when another task was faster after the wakeup, is never handed to the   *)
(* caller (README:96-104).                                                 *)
TransferInv ==
  \A t \in Client :
    /\ {out[k][2] : k \in Written(t)} = 1..Moved(t)
    /\ \A j, k \in Written(t) : j < k => out[j][2] < out[k][2]
    /\ done[t] # NoCall =>
         IF done[t].result < 0 THEN broken
         ELSE /\ done[t].result = done[t].moved
              /\ done[t].op # "write" /\ done[t].result = 0 => eof

(* Every call returns: a task woken for a descriptor that another task has *)
(* used up meanwhile waits again, and is woken again.                      *)
CallsReturn == \A t \in Client : (call[t] # NoCall) ~> (call[t] = NoCall)
=============================================================================
