------------------------------ MODULE MCPrograms ------------------------------
(***************************************************************************)
(* Model-checking instances of the four programs.  A behaviour runs one of *)
(* them; the others are in a state in which everything has come to an end, *)
(* or in that of a proxy that has not started.                             *)
(***************************************************************************)
EXTENDS Programs, TLC

ASSUME N!NetAssumption /\ Sieve!PrimesAssumption /\ Copy!ProxyAssumption

netState ==
  <<runnable, current, parked, sock, pending, arrived, stage, fd, result>>
primesState == <<prime, sending, created, printed, ended>>
proxyState ==
  <<queue, task, waits, at, rw, file, backlog, toread, closed, dialled, shut, got>>

IoEnded ==
  /\ ready = {} /\ running = NoTask /\ waiting = [t \in Client |-> NoTask]
  /\ call = [t \in Client |-> NoCall]
  /\ done = [t \in Client |-> [op |-> "read", n |-> 1, result |-> 0, moved |-> 0]]
  /\ out = <<>> /\ drained = 0 /\ sent = MaxIn
  /\ readby = [k \in 1..MaxIn |-> NoTask] /\ broken = FALSE /\ eof = TRUE

NetEnded ==
  /\ runnable = {} /\ current = NoTask /\ parked = [t \in NetClient |-> NoTask]
  /\ sock = [f \in Fd |-> "free"] /\ pending = 0 /\ arrived = 0
  /\ stage = [t \in NetClient |-> "done"]
  /\ fd = [t \in NetClient |-> 0] /\ result = [t \in NetClient |-> -1]

PrimesEnded ==
  /\ prime = [k \in 1..Stages |-> 0] /\ created = 1
  /\ sending = [k \in 0..Stages |-> 0]
  /\ printed = SelectSeq([n \in 1..goal |-> n], LAMBDA n : Sieve!IsPrime(n))
  /\ ended = TRUE

AnyInit ==
  /\ \/ Init /\ NetEnded /\ PrimesEnded
     \/ IoEnded /\ N!Init /\ PrimesEnded
     \/ IoEnded /\ NetEnded /\ Sieve!Init
  /\ Copy!Init

AnyNext ==
  /\ \/ Next /\ UNCHANGED <<netState, primesState>>
     \/ N!Next /\ UNCHANGED <<vars, primesState>>
     \/ Sieve!Next /\ UNCHANGED <<vars, netState>>
  /\ UNCHANGED proxyState

AnySpec ==
  /\ AnyInit /\ [][AnyNext]_<<vars, netState, primesState, proxyState>>
  /\ Fairness /\ N!Fairness /\ Sieve!Fairness

(* The proxy.                                                              *)
ProxyInit == IoEnded /\ NetEnded /\ PrimesEnded /\ Copy!Init
ProxyNext == Copy!Next /\ UNCHANGED <<vars, netState, primesState>>
ProxySpec == ProxyInit /\ [][ProxyNext]_<<vars, netState, primesState, proxyState>>

Symmetry == Permutations(Conn)
=============================================================================
