------------------------------- MODULE Channel -------------------------------
(***************************************************************************)
(* channel.c: channels with and without a buffer, and chanalt(), through   *)
(* which every send and receive goes.                                      *)
(*                                                                         *)
(* A call of chanalt() runs without interruption until it returns or parks *)
(* the task, so it is one step; a parked call finishes when the scheduler  *)
(* runs the task again.  An Alt* is the pair <<task, index>>: the Alt      *)
(* array lives on the stack of the task in chanalt().  An Altarray is the  *)
(* set of its entries, since delarray() does not keep their order and      *)
(* altexec() draws one with rand().  The void* of an Alt is modelled by    *)
(* what it points to; NullPtr is the nil pointer.                          *)
(***************************************************************************)
EXTENDS Coop

CONSTANTS
  Chan,     \* channels
  BufSize,  \* Channel.bufsize of each
  Value,    \* element values
  Zero,     \* an element whose bytes are all 0
  Junk,     \* the contents of memory nobody has written
  NullPtr,  \* a nil void*
  Calls     \* the chanalt() calls the program makes: [alts, canblock]

Op  == {"SND", "RCV"}
Alt == [c : Chan, op : Op \cup {"NOP"}, v : Value \cup {Junk, NullPtr}]

ASSUME ChannelAssumption ==
  /\ BufSize \in [Chan -> Nat]
  /\ Zero \in Value /\ Junk # NullPtr /\ {Junk, NullPtr} \cap Value = {}
  /\ \A k \in Calls :
       /\ k.canblock \in BOOLEAN
       /\ k.alts \in Seq(Alt)
       /\ \A i \in DOMAIN k.alts : k.alts[i].op = "SND" => k.alts[i].v # Junk

VARIABLES
  ring,      \* nbuf, off and buf of each channel
  altarray,  \* asend and arecv of each channel
  alts,      \* the Alt array of a task waiting in chanalt(), else <<>>
  xalt,      \* ... and the index a[0].xalt points to
  result     \* what chanalt() returned to the running task

chanVars == <<ring, altarray, alts, xalt, result>>
vars == <<coopVars, chanVars>>

(* chanalt() returns 0-based indices and -1; here they are 1-based and 0.  *)
NoResult == [i |-> -1, v |-> Junk]

-----------------------------------------------------------------------------
(* The Altarrays *)

otherop(op) == IF op = "SND" THEN "RCV" ELSE "SND"

chanarray(c, op) == altarray[c][op]

(* The entries altqueue() makes for the Alts of t, CHANNOP excepted.       *)
Entries(t, as, c, op) ==
  {<<t, i>> : i \in {j \in DOMAIN as : as[j].c = c /\ as[j].op = op}}

altallqueue(t, as) ==
  altarray' = [c \in Chan |-> [op \in Op |->
                 altarray[c][op] \cup Entries(t, as, c, op)]]

(* Mutant of altalldequeue: only the Alt that was executed is removed.     *)
altdequeueone(p) ==
  altarray' = [c \in Chan |-> [op \in Op |-> altarray[c][op] \ {p}]]

(* All Alts of the call p belongs to.                                      *)
altalldequeue(p) ==
  altarray' = [c \in Chan |-> [op \in Op |->
                 altarray[c][op] \ Entries(p[1], alts[p[1]], c, op)]]

(* altdequeue() finds every Alt of u; otherwise it calls abort(), modelled *)
(* as the end of the program with the task still running.                  *)
Queued(u) ==
  \A c \in Chan, op \in Op : Entries(u, alts[u], c, op) \subseteq chanarray(c, op)

-----------------------------------------------------------------------------
(* The buffer *)

(* amove(): from nil comes zero, to nil goes nothing.                      *)
Fetch(v)      == IF v = NullPtr THEN Zero ELSE v
Store(old, v) == IF old = NullPtr THEN NullPtr ELSE v

RingHead(q) == q.buf[q.off]

RingTake(q, size) ==
  [q EXCEPT !.nbuf = @ - 1, !.off = IF @ + 1 = size THEN 0 ELSE @ + 1]

RingPut(q, size, v) ==
  [q EXCEPT !.buf[(q.off + q.nbuf) % size] = v, !.nbuf = @ + 1]

(* Mutant of Direct: whoever meets a peer copies past the buffer.          *)
DirectAlways(c) == TRUE

(* altcopy() with a sender of value v, with a receiver, or with both.  The *)
(* direct copy is for an empty buffer; otherwise first receive, then send. *)
Direct(c) == ring[c].nbuf = 0

AfterSend(c, v) == RingPut(ring[c], BufSize[c], Fetch(v))
AfterRecv(c)    == RingTake(ring[c], BufSize[c])

AfterBoth(c, v) ==
  IF Direct(c) THEN ring[c] ELSE RingPut(AfterRecv(c), BufSize[c], Fetch(v))

Received(c, v) == IF Direct(c) THEN Fetch(v) ELSE RingHead(ring[c])

-----------------------------------------------------------------------------
(* chanalt() *)

altcanexecOverfull(a) ==
  /\ a.op # "NOP"
  /\ IF BufSize[a.c] = 0 THEN chanarray(a.c, otherop(a.op)) # {}
     ELSE IF a.op = "SND" THEN ring[a.c].nbuf <= BufSize[a.c]
     ELSE ring[a.c].nbuf > 0

altcanexec(a) ==
  /\ a.op # "NOP"
  /\ IF BufSize[a.c] = 0 THEN chanarray(a.c, otherop(a.op)) # {}
     ELSE IF a.op = "SND" THEN ring[a.c].nbuf < BufSize[a.c]
     ELSE ring[a.c].nbuf > 0

(* altexec() when the other side is parked at the Alt p: the data moves    *)
(* between the two, p's call is taken off all its Altarrays, and its task  *)
(* is readied.                                                             *)
ExecWithPeer(t, a, i, p) ==
  LET u == p[1]
      b == alts[u][p[2]]
      v == IF a.op = "SND" THEN a.v ELSE b.v
      w == Received(a.c, v)
  IN  /\ ring' = [ring EXCEPT ![a.c] = AfterBoth(a.c, v)]
      /\ alts' = IF b.op = "RCV"
                 THEN [alts EXCEPT ![u][p[2]].v = Store(b.v, w)]
                 ELSE alts
      /\ result' = [result EXCEPT ![t] =
                      [i |-> i, v |-> IF a.op = "RCV" THEN Store(a.v, w) ELSE a.v]]
      /\ altalldequeue(p)
      /\ xalt' = [xalt EXCEPT ![u] = p[2]]
      /\ IF Queued(u) THEN Wake(t, <<u>>) ELSE ExitAll(t)

(* altexec() when nobody is parked there: only the buffer is involved.     *)
ExecAlone(t, a, i) ==
  /\ Running(t)
  /\ ring' = [ring EXCEPT ![a.c] = IF a.op = "SND" THEN AfterSend(a.c, a.v)
                                   ELSE AfterRecv(a.c)]
  /\ result' = [result EXCEPT ![t] =
                  [i |-> i, v |-> IF a.op = "RCV"
                                  THEN Store(a.v, RingHead(ring[a.c])) ELSE a.v]]
  /\ UNCHANGED <<altarray, alts, xalt, coopVars>>

(* Mutant of altexec: a buffered operation does not look for a peer.       *)
altexecBufferOnly(t, a, i) ==
  \/ /\ BufSize[a.c] = 0
     /\ \E p \in chanarray(a.c, otherop(a.op)) : ExecWithPeer(t, a, i, p)
  \/ BufSize[a.c] > 0 /\ ExecAlone(t, a, i)

altexec(t, a, i) ==
  \/ \E p \in chanarray(a.c, otherop(a.op)) : ExecWithPeer(t, a, i, p)
  \/ chanarray(a.c, otherop(a.op)) = {} /\ ExecAlone(t, a, i)

(* t is free to make a call: it is not about to return from one.           *)
Calling(t) == Running(t) /\ alts[t] = <<>>

ChanAlt(t, k) ==
  /\ Calling(t)
  /\ \E i \in DOMAIN k.alts : altcanexec(k.alts[i]) /\ altexec(t, k.alts[i], i)

(* A non-blocking call that cannot proceed returns -1.                     *)
ChanAltFails(t, k) ==
  /\ Calling(t)
  /\ ~k.canblock /\ \A i \in DOMAIN k.alts : ~altcanexec(k.alts[i])
  /\ result' = [result EXCEPT ![t] = [NoResult EXCEPT !.i = 0]]
  /\ UNCHANGED <<ring, altarray, alts, xalt, coopVars>>

(* A blocking call that cannot proceed parks the task on every channel.    *)
ChanAltParks(t, k) ==
  /\ Calling(t)
  /\ k.canblock /\ \A i \in DOMAIN k.alts : ~altcanexec(k.alts[i])
  /\ altallqueue(t, k.alts)
  /\ alts' = [alts EXCEPT ![t] = k.alts]
  /\ xalt' = [xalt EXCEPT ![t] = 1]
  /\ result' = [result EXCEPT ![t] = NoResult]
  /\ Block(t, <<>>)
  /\ UNCHANGED ring

(* The task was readied and runs again: a[0].xalt tells which Alt it was.  *)
ChanAltReturns(t) ==
  /\ Running(t) /\ alts[t] # <<>>
  /\ result' = [result EXCEPT ![t] = [i |-> xalt[t], v |-> alts[t][xalt[t]].v]]
  /\ alts' = [alts EXCEPT ![t] = <<>>]
  /\ UNCHANGED <<ring, altarray, xalt, coopVars>>
-----------------------------------------------------------------------------
(* _chanop() and the wrappers around it make calls with a single Alt.      *)
ChanOp(c, op, v, canblock) ==
  [alts |-> <<[c |-> c, op |-> op, v |-> v]>>, canblock |-> canblock]

(* chancreate(): an empty ring in uninitialized memory.                    *)
chancreate(c) ==
  [nbuf |-> 0, off |-> 0, buf |-> [i \in 0..(BufSize[c] - 1) |-> Junk]]

(* taskmain() has made the channels and the tasks, and has exited.         *)
Init ==
  /\ AllReady
  /\ ring = [c \in Chan |-> chancreate(c)]
  /\ altarray = [c \in Chan |-> [op \in Op |-> {}]]
  /\ alts = [t \in Task |-> <<>>]
  /\ xalt = [t \in Task |-> 1]
  /\ result = [t \in Task |-> NoResult]

(* What a task does between calls; then it has done with the result.       *)
Elsewhere(t) ==
  /\ Calling(t)
  /\ Yield(t) \/ Exit(t)
  /\ result' = [result EXCEPT ![t] = NoResult]
  /\ UNCHANGED <<ring, altarray, alts, xalt>>

Next ==
  \/ \E t \in Task :
       \/ \E k \in Calls : ChanAlt(t, k) \/ ChanAltFails(t, k) \/ ChanAltParks(t, k)
       \/ ChanAltReturns(t)
       \/ Elsewhere(t)
  \/ (Dispatch \/ End) /\ UNCHANGED chanVars
  \/ ended /\ UNCHANGED vars

Spec == Init /\ [][Next]_vars
-----------------------------------------------------------------------------
(* Properties *)

Ptr == Task \X Nat

(* The types of the variables.                                             *)
TypeOK ==
  /\ live \subseteq Task /\ system \subseteq Task
  /\ runqueue \in Seq(Task) /\ running \in Task \cup {NoTask}
  /\ ended \in BOOLEAN
  /\ ring \in [Chan -> [nbuf : Nat, off : Nat,
                        buf : UNION {[0..(BufSize[c] - 1) -> Value \cup {Junk}] :
                                     c \in Chan}]]
  /\ altarray \in [Chan -> [Op -> SUBSET Ptr]]
  /\ alts \in [Task -> Seq(Alt)]
  /\ xalt \in [Task -> Nat]
  /\ result \in [Task -> [i : Int, v : Value \cup {Junk, NullPtr}]]

(* Every Alt on an Altarray belongs to a task parked in chanalt(), and all *)
(* Alts of such a task are there: altdequeue() always finds its entry (its *)
(* abort() is never reached) and no entry outlives the stack frame it      *)
(* points into.                                                            *)
QueueInv ==
  /\ \A c \in Chan, op \in Op :
       chanarray(c, op) = UNION {Entries(t, alts[t], c, op) : t \in Parked}
  /\ ended => running = NoTask

(* Nobody waits for what is there: a sender is parked only on a full       *)
(* buffer, a receiver only on an empty one, and where there is no buffer a *)
(* sender and a receiver are never parked together, unless they are two    *)
(* Alts of one chanalt().  It is what lets altcanexec() look at the buffer *)
(* only, and altcopy() copy past an empty buffer.                          *)
MeetInv ==
  \A c \in Chan :
    /\ chanarray(c, "SND") # {} => ring[c].nbuf = BufSize[c]
    /\ chanarray(c, "RCV") # {} => ring[c].nbuf = 0
    /\ \A p \in chanarray(c, "SND"), q \in chanarray(c, "RCV") : p[1] = q[1]

(* The variables have their types, the ring never overflows, and what      *)
(* waits in it was sent: altcopy() keeps nbuf and off within bufsize.      *)
RingInv ==
  /\ TypeOK
  /\ \A c \in Chan :
       LET q == ring[c]
       IN  /\ q.nbuf <= BufSize[c] /\ (q.off < BufSize[c] \/ q.off = 0)
           /\ \A k \in 0..(q.nbuf - 1) : q.buf[(q.off + k) % BufSize[c]] \in Value

(* What the users of the channels see: the values in a ring, oldest first, *)
(* the Alts of the parked calls, and the results; that of a call whose     *)
(* task has been readied is already in its Alt array.                      *)
Contents(q, n) == [k \in 1..q.nbuf |-> q.buf[(q.off + k - 1) % n]]

seenBuffer  == [c \in Chan |-> Contents(ring[c], BufSize[c])]
seenWaiting == [t \in Task |-> IF t \in Parked THEN alts[t] ELSE <<>>]
seenResult  == [t \in Task |->
                  IF alts[t] # <<>> /\ t \notin Parked
                  THEN [i |-> xalt[t], v |-> alts[t][xalt[t]].v] ELSE result[t]]

(* chanalt() implements the atomic exchange of values of module Exchange:  *)
(* a parked call is settled in the step that readies its task, by exactly  *)
(* one of its Alts, and values leave a buffer in the order they entered    *)
(* it, none lost, none made up.                                            *)
Exchanged == INSTANCE Exchange WITH
  buffer <- seenBuffer, waiting <- seenWaiting, result <- seenResult

ExchangeSpec == Exchanged!Spec
=============================================================================
