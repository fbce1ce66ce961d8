--------------------------------- MODULE Net ---------------------------------
(***************************************************************************)
(* netannounce(), netaccept() and netdial() of net.c on a table of         *)
(* descriptors.  netannounce() never waits; netaccept() waits for the      *)
(* listener and then tries accept() once; netdial() starts a non-blocking  *)
(* connect, waits until it is decided and asks getpeername() how.          *)
(*                                                                         *)
(* The sockets are external: the network completes or refuses connects and *)
(* resets connections when it likes.  netlookup() blocks the whole process *)
(* and either finds an address or not.  Which socket options are set (one  *)
(* depends on an uninitialised length) is not modelled.                    *)
(***************************************************************************)
EXTENDS Integers, FiniteSets

CONSTANTS
  Client,   \* the tasks of the program
  NoTask,   \* no task runs
  Fd,       \* descriptor numbers
  Ops,      \* calls the tasks make: subset of {"announce", "accept", "dial"}
  MaxConn   \* bound: connections that come in

NetAssumption ==
  Fd \subseteq Nat /\ MaxConn \in Nat /\ Ops \subseteq {"announce", "accept", "dial"}

VARIABLES
  runnable, current, parked,  \* ready, running and waiting of FdWait
  sock,      \* state of each descriptor
  pending,   \* connections that wait to be accepted
  arrived,   \* connections that have come in
  stage,     \* "none", the call a task is in, "done" after it
  fd,        \* the descriptor its call works on
  result     \* what its call returned

pollVars == <<runnable, current, parked>>
callVars == <<stage, fd, result>>
vars     == <<pollVars, sock, pending, arrived, callVars>>

Io == Fd \X {"r", "w"}

(* A socket whose connect has failed is writable; a descriptor that has    *)
(* been closed is reported as invalid.                                     *)
Able ==
  {x \in Io : \/ x[2] = "r" /\ sock[x[1]] = "listening" /\ pending > 0
              \/ x[2] = "w" /\ sock[x[1]] \in {"connected", "failed"}
              \/ sock[x[1]] = "free"}

W == INSTANCE FdWait WITH
  ready <- runnable, running <- current, waiting <- parked,
  able <- Able, NoIo <- NoTask, Exc <- "x"

Free      == {f \in Fd : sock[f] = "free"}
Listeners == {f \in Fd : sock[f] = "listening"}

(* socket() and accept() return the lowest free number.                    *)
Lowest(S) == CHOOSE f \in S : \A g \in S : f <= g

Begins(t, op) == current = t /\ stage[t] = "none" /\ op \in Ops

Return(t, r) ==
  /\ stage' = [stage EXCEPT ![t] = "done"]
  /\ result' = [result EXCEPT ![t] = r]
  /\ UNCHANGED <<fd, pollVars>>

(* The call waits in fdwait() for the descriptor f.                        *)
Enter(t, op, f, rw) ==
  /\ stage' = [stage EXCEPT ![t] = op]
  /\ fd' = [fd EXCEPT ![t] = f]
  /\ W!fdwait(t, <<f, rw>>)
  /\ UNCHANGED result
-----------------------------------------------------------------------------
(* Any of its steps may fail; after a failed bind() the socket is closed.  *)
netannounce(t) ==
  /\ Begins(t, "announce")
  /\ \/ Return(t, -1) /\ UNCHANGED sock
     \/ /\ Free # {}
        /\ sock' = [sock EXCEPT ![Lowest(Free)] = "listening"]
        /\ Return(t, Lowest(Free))
  /\ UNCHANGED <<pending, arrived>>

netaccept(t) ==
  /\ Begins(t, "accept")
  /\ \E f \in Listeners : Enter(t, "accept", f, "r")
  /\ UNCHANGED <<sock, pending, arrived>>

(* After the wait: accept(), which fails when no connection is left.       *)
netacceptReturns(t) ==
  /\ current = t /\ stage[t] = "accept"
  /\ IF sock[fd[t]] = "listening" /\ pending > 0 /\ Free # {}
     THEN /\ pending' = pending - 1
          /\ sock' = [sock EXCEPT ![Lowest(Free)] = "accepted"]
          /\ Return(t, Lowest(Free))
     ELSE Return(t, -1) /\ UNCHANGED <<sock, pending>>
  /\ UNCHANGED arrived

(* The lookup, socket() or connect() fails; or connect() goes on, or has   *)
(* succeeded at once, and the task waits.                                  *)
netdial(t) ==
  /\ Begins(t, "dial")
  /\ \/ Return(t, -1) /\ UNCHANGED sock
     \/ /\ Free # {}
        /\ \E s \in {"connecting", "connected"} :
             sock' = [sock EXCEPT ![Lowest(Free)] = s]
        /\ Enter(t, "dial", Lowest(Free), "w")
  /\ UNCHANGED <<pending, arrived>>

(* Mutant of PeerKnown: the wakeup is taken for success.                   *)
PeerKnownAlways(f) == TRUE

(* getpeername() >= 0                                                      *)
PeerKnown(f) == sock[f] = "connected"

(* Mutant of DialFailed: the descriptor is left open.                      *)
DialFailedOpen(f) == UNCHANGED sock

DialFailed(f) == sock' = [sock EXCEPT ![f] = "free"]

netdialReturns(t) ==
  /\ current = t /\ stage[t] = "dial"
  /\ IF PeerKnown(fd[t]) THEN Return(t, fd[t]) /\ UNCHANGED sock
     ELSE DialFailed(fd[t]) /\ Return(t, -1)
  /\ UNCHANGED <<pending, arrived>>

(* The caller closes what it got and may start over.                       *)
Closes(t) ==
  /\ current = t /\ stage[t] = "done"
  /\ IF result[t] >= 0 THEN sock' = [sock EXCEPT ![result[t]] = "free"]
     ELSE UNCHANGED sock
  /\ pending' = IF Listeners = {result[t]} THEN 0 ELSE pending
  /\ stage' = [stage EXCEPT ![t] = "none"]
  /\ result' = [result EXCEPT ![t] = -1]
  /\ UNCHANGED <<arrived, fd, pollVars>>

TaskStep(t) ==
  \/ netannounce(t) \/ netaccept(t) \/ netacceptReturns(t)
  \/ netdial(t) \/ netdialReturns(t) \/ Closes(t)

(* A task gives up the CPU after its call, or before one it cannot make.   *)
Gets(t)  == W!Dispatch(t) /\ UNCHANGED <<sock, pending, arrived, callVars>>
Gives(t) ==
  /\ (stage[t] = "done" /\ W!Leave(t)) \/ (stage[t] = "none" /\ W!Yield(t))
  /\ UNCHANGED <<sock, pending, arrived, callVars>>
Poll     == W!PollRound /\ UNCHANGED <<sock, pending, arrived, callVars>>

(* The network: a connect is decided; a connection comes in; one that is   *)
(* established breaks.                                                     *)
Decides(f) ==
  /\ sock[f] = "connecting"
  /\ \E s \in {"connected", "failed"} : sock' = [sock EXCEPT ![f] = s]
  /\ UNCHANGED <<pending, arrived, callVars, pollVars>>

Network ==
  /\ \/ /\ arrived < MaxConn /\ Listeners # {}
        /\ arrived' = arrived + 1 /\ pending' = pending + 1 /\ UNCHANGED sock
     \/ /\ \E f \in Fd : sock[f] = "connected" /\ sock' = [sock EXCEPT ![f] = "failed"]
        /\ UNCHANGED <<pending, arrived>>
  /\ UNCHANGED <<callVars, pollVars>>
-----------------------------------------------------------------------------
Init ==
  /\ runnable = Client /\ current = NoTask
  /\ parked = [t \in Client |-> NoTask]
  /\ sock = [f \in Fd |-> "free"]
  /\ pending = 0 /\ arrived = 0
  /\ stage = [t \in Client |-> "none"]
  /\ fd = [t \in Client |-> 0]
  /\ result = [t \in Client |-> -1]

Next ==
  \/ \E t \in Client : TaskStep(t) \/ Gets(t) \/ Gives(t)
  \/ Poll \/ (\E f \in Fd : Decides(f)) \/ Network
  \/ current = NoTask /\ runnable = {} /\ UNCHANGED vars

Spec == Init /\ [][Next]_vars

(* A ready task gets the CPU (the run queue is first in, first out) and a  *)
(* call that has been woken goes on; fdtask polls when nobody is ready;    *)
(* connects are decided in the end.                                        *)
Fairness ==
  /\ \A t \in Client : SF_vars(Gets(t)) /\ WF_vars(netdialReturns(t))
  /\ WF_vars(Poll)
  /\ \A f \in Fd : WF_vars(Decides(f))

FairSpec == Spec /\ Fairness
-----------------------------------------------------------------------------
Open == {t \in Client : stage[t] = "done" /\ result[t] >= 0}

(* No call of net.c leaks or shares a descriptor: one that is not free has *)
(* been returned to exactly one task or belongs to a netdial() that is     *)
(* still waiting, whatever fails on the way.                               *)
NoLeak ==
  \A f \in Fd : sock[f] # "free" =>
    Cardinality({t \in Open : result[t] = f}
                  \cup {t \in Client : stage[t] = "dial" /\ fd[t] = f}) = 1

(* The step in which netdial() returns a descriptor finds it connected;    *)
(* a refused connect, which also ends the wait, is never returned.         *)
DialConnects ==
  [][\A t \in Client : stage[t] = "dial" /\ stage'[t] = "done" /\ result'[t] >= 0 =>
       sock[fd[t]] = "connected" /\ result'[t] = fd[t]]_vars

(* netdial() returns once the network has decided about the connection,    *)
(* if the program is idle now and then so that fdtask can poll.            *)
DialReturns ==
  []<>(runnable = {} /\ current = NoTask) =>
    \A t \in Client : (stage[t] = "dial") ~> (stage[t] = "done")
=============================================================================
