------------------------------- MODULE Programs -------------------------------
(***************************************************************************)
(* Four programs: tasks that read and write a connection (FdIO), tasks     *)
(* that announce, accept and dial (Net), the prime sieve (Primes) and the  *)
(* proxy (Proxy).                                                          *)
(***************************************************************************)
EXTENDS FdIO

CONSTANTS NetClient, Fd, NetOps, MaxConn, goal, Stages, Conn, ProxyFd, Lfd, None

VARIABLES
  runnable, current, parked, sock, pending, arrived, stage, fd, result,  \* Net
  prime, sending, created, printed, ended,                               \* Primes
  queue, task, waits, at, rw, file, backlog, toread, closed, dialled,    \* Proxy
  shut, got

N == INSTANCE Net WITH Client <- NetClient, Ops <- NetOps
Sieve == INSTANCE Primes WITH p <- prime
Copy == INSTANCE Proxy WITH
  Fd <- ProxyFd, ready <- queue, running <- task, waiting <- waits, pc <- at,
  fd <- rw, eof <- closed
-----------------------------------------------------------------------------
(* No call of net.c leaks or shares a descriptor: one that is not free has *)
(* been returned to exactly one task or belongs to a netdial() that waits. *)
NoLeak == N!NoLeak

(* The step in which netdial() returns a descriptor finds it connected.    *)
DialConnects == N!DialConnects

(* primes.c prints primes only, each after all smaller ones, and all of    *)
(* them up to the goal before it ends.                                     *)
SieveInv == Sieve!SieveInv

(* tcpproxy.c keeps its descriptors apart although numbers are reused: its *)
(* tasks read from and close only their own, close all of them, and end    *)
(* when their streams do.                                                  *)
ProxyInv == Copy!ProxyInv

(* Every call of fd.c returns, netdial() once the network has decided, and *)
(* primes.c ends: no task of these programs waits for ever.                *)
AllReturn == CallsReturn /\ N!DialReturns /\ Sieve!Terminates
=============================================================================
