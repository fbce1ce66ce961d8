-------------------------------- MODULE Proxy --------------------------------
(***************************************************************************)
(* tcpproxy.c.  taskmain() accepts connections and starts a proxytask()    *)
(* for each; that dials the server and starts two tasks rwtask(), one per  *)
(* direction, which share the two descriptors of the connection: each      *)
(* copies from one to the other until end of file, then shuts the writing  *)
(* side down and closes the descriptor it has read from.                   *)
(*                                                                         *)
(* A task knows its descriptors by number and the kernel gives a closed    *)
(* number to the next socket; that is what this module is about.  Blocking *)
(* is as in FdWait; fdread() and fdwrite() are single attempts that wait   *)
(* when the descriptor would block (FdIO has their loops), a write always  *)
(* finds room.  sleeptest(), which only sleeps, is left out.               *)
(***************************************************************************)
EXTENDS Integers, Sequences, FiniteSets

CONSTANTS
  Conn,    \* the clients that connect
  Fd,      \* descriptor numbers, the listener's not among them
  Lfd,     \* the listener
  None     \* no socket, no task, no wait

Side   == {"client", "server"}
Sock   == Conn \X Side
Other(d) == IF d = "client" THEN "server" ELSE "client"

(* Tasks: taskmain, proxytask of a connection, rwtask reading from a side. *)
Main     == <<"main">>
Px(k)    == <<"proxy", k>>
Rw(k, d) == <<"rw", k, d>>
RwTasks  == {Rw(k, d) : k \in Conn, d \in Side}
Tasks    == {Main} \cup {Px(k) : k \in Conn} \cup RwTasks
Io       == (Fd \cup {Lfd}) \X {"r", "w"}

ProxyAssumption ==
  Fd \subseteq Nat /\ Lfd \notin Fd /\ None \notin Sock \cup Tasks \cup Io

VARIABLES
  ready, running, waiting,  \* see FdWait
  pc,       \* where each task is
  fd,       \* fd[k][d]: the descriptor proxytask k got for side d
  file,     \* the socket behind a descriptor
  backlog,  \* connections that wait to be accepted
  toread,   \* bytes a peer has sent and the proxy has not read
  eof,      \* sockets whose peer has sent all
  dialled,  \* answers to connects: "none", "ok", "refused"
  shut,     \* sockets whose writing side is shut down
  got       \* for each socket, the connections whose bytes it was sent

pollVars == <<ready, running, waiting>>
peerVars == <<backlog, toread, eof, dialled>>
vars     == <<pollVars, pc, fd, file, shut, got, peerVars>>

Readable(f) == file[f] # None /\ (toread[file[f]] > 0 \/ file[f] \in eof)
Decided(f)  == file[f] # None /\ dialled[file[f][1]] # "none"

(* A number that is not open is reported as invalid.                       *)
Able ==
  {<<Lfd, "r">> : k \in backlog}
    \cup {<<f, "r">> : f \in {g \in Fd : Readable(g) \/ file[g] = None}}
    \cup {<<f, "w">> : f \in {g \in Fd : Decided(g) \/ file[g] = None}}

W == INSTANCE FdWait WITH
  Client <- Tasks, NoTask <- None, NoIo <- None, Exc <- "x", able <- Able

Free      == {f \in Fd : file[f] = None}
Lowest(S) == CHOOSE f \in S : \A g \in S : f <= g

At(t, p)   == running = t /\ pc[t] = p
Goes(t, p) == pc' = [pc EXCEPT ![t] = p]

(* t's function returns: taskexit(0).                                      *)
Exits(t) == Goes(t, "exited") /\ W!Leave(t)
-----------------------------------------------------------------------------
(* taskmain(): netaccept(), then taskcreate(proxytask), then netaccept()   *)
(* again; when accept() fails the loop and the task end.                   *)
Announced ==
  /\ At(Main, "start")
  /\ Goes(Main, "accept") /\ W!fdwait(Main, <<Lfd, "r">>)
  /\ UNCHANGED <<fd, file, shut, got, peerVars>>

Accepts ==
  /\ At(Main, "accept")
  /\ IF Free = {} \/ backlog = {}
     THEN Exits(Main) /\ UNCHANGED <<fd, file, backlog>>
     ELSE \E k \in backlog :
            /\ file' = [file EXCEPT ![Lowest(Free)] = <<k, "client">>]
            /\ fd' = [fd EXCEPT ![k]["client"] = Lowest(Free)]
            /\ backlog' = backlog \ {k}
            /\ pc' = [pc EXCEPT ![Px(k)] = "dial"]
            /\ ready' = ready \cup {Px(k)}
            /\ running' = None
            /\ waiting' = [waiting EXCEPT ![Main] = <<Lfd, "r">>]
  /\ UNCHANGED <<shut, got, toread, eof, dialled>>

(* proxytask(): netdial() up to its fdwait(); without a descriptor it      *)
(* fails and the client's descriptor is closed.                            *)
Dials(k) ==
  /\ At(Px(k), "dial")
  /\ IF Free = {}
     THEN /\ file' = [file EXCEPT ![fd[k]["client"]] = None]
          /\ Exits(Px(k)) /\ UNCHANGED fd
     ELSE /\ file' = [file EXCEPT ![Lowest(Free)] = <<k, "server">>]
          /\ fd' = [fd EXCEPT ![k]["server"] = Lowest(Free)]
          /\ Goes(Px(k), "dialling")
          /\ W!fdwait(Px(k), <<Lowest(Free), "w">>)
  /\ UNCHANGED <<shut, got, peerVars>>

(* netdial() closes its descriptor and proxytask() the client's.           *)
GivenUp(k) == [file EXCEPT ![fd[k]["client"]] = None, ![fd[k]["server"]] = None]

(* The connection is refused: both descriptors are closed.  Or it stands:  *)
(* the two copying tasks are created and proxytask() returns.              *)
Dialled(k) ==
  /\ At(Px(k), "dialling")
  /\ running' = None
  /\ IF dialled[k] = "ok"
     THEN /\ pc' = [pc EXCEPT ![Px(k)] = "exited", ![Rw(k, "client")] = "read",
                             ![Rw(k, "server")] = "read"]
          /\ ready' = ready \cup {Rw(k, "client"), Rw(k, "server")}
          /\ UNCHANGED file
     ELSE /\ file' = GivenUp(k)
          /\ Goes(Px(k), "exited") /\ UNCHANGED ready
  /\ UNCHANGED <<waiting, fd, shut, got, peerVars>>

(* rwtask(): fdread() of the descriptor it reads from.                     *)
Reads(k, d) ==
  LET t == Rw(k, d)
      f == fd[k][d]
  IN
  /\ At(t, "read")
  /\ IF file[f] # None /\ toread[file[f]] > 0
     THEN /\ toread' = [toread EXCEPT ![file[f]] = @ - 1]
          /\ Goes(t, "write") /\ UNCHANGED pollVars
     ELSE /\ IF file[f] = None \/ file[f] \in eof
             THEN Goes(t, "finish") /\ UNCHANGED pollVars
             ELSE W!fdwait(t, <<f, "r">>) /\ UNCHANGED pc
          /\ UNCHANGED toread
  /\ UNCHANGED <<fd, file, shut, got, backlog, eof, dialled>>

(* fdwrite() to the other; its result is not looked at.                    *)
Writes(k, d) ==
  LET t == Rw(k, d)
      f == fd[k][Other(d)]
  IN
  /\ At(t, "write")
  /\ got' = IF file[f] = None \/ file[f] \in shut THEN got
            ELSE [got EXCEPT ![file[f]] = @ \cup {k}]
  /\ Goes(t, "read")
  /\ UNCHANGED <<pollVars, fd, file, shut, peerVars>>

(* Mutant of Closed: the descriptor written to is closed.                  *)
ClosedOther(k, d) == fd[k][Other(d)]

(* The descriptor that rwtask() closes.                                    *)
Closed(k, d) == fd[k][d]

(* shutdown(wfd), close(rfd), and the task returns.                        *)
Finishes(k, d) ==
  LET w == file[fd[k][Other(d)]] IN
  /\ At(Rw(k, d), "finish")
  /\ shut' = IF w = None THEN shut ELSE shut \cup {w}
  /\ file' = [file EXCEPT ![Closed(k, d)] = None]
  /\ Exits(Rw(k, d))
  /\ UNCHANGED <<fd, got, peerVars>>

TaskStep ==
  \/ Announced \/ Accepts
  \/ \E k \in Conn :
       \/ Dials(k) \/ Dialled(k)
       \/ \E d \in Side : Reads(k, d) \/ Writes(k, d) \/ Finishes(k, d)

Gets(t) == W!Dispatch(t) /\ UNCHANGED <<pc, fd, file, shut, got, peerVars>>
Poll    == W!PollRound /\ UNCHANGED <<pc, fd, file, shut, got, peerVars>>
-----------------------------------------------------------------------------
(* The peers: a client connects, the server answers, either sends one byte *)
(* and ends its stream.                                                    *)
Connects(k) ==
  /\ k \notin backlog /\ pc[Px(k)] = "none"
  /\ backlog' = backlog \cup {k}
  /\ UNCHANGED <<toread, eof, dialled>>

Answers(k) ==
  /\ dialled[k] = "none" /\ pc[Px(k)] = "dialling"
  /\ \E r \in {"ok", "refused"} : dialled' = [dialled EXCEPT ![k] = r]
  /\ UNCHANGED <<backlog, toread, eof>>

Sends(k, d) ==
  /\ pc[Rw(k, d)] # "none" /\ <<k, d>> \notin eof
  /\ \/ toread' = [toread EXCEPT ![<<k, d>>] = 1] /\ UNCHANGED eof
     \/ eof' = eof \cup {<<k, d>>} /\ UNCHANGED toread
  /\ UNCHANGED <<backlog, dialled>>

Peer ==
  /\ \E k \in Conn : Connects(k) \/ Answers(k) \/ (\E d \in Side : Sends(k, d))
  /\ UNCHANGED <<pollVars, pc, fd, file, shut, got>>

Init ==
  /\ ready = {Main} /\ running = None
  /\ waiting = [t \in Tasks |-> None]
  /\ pc = [t \in Tasks |-> IF t = Main THEN "start" ELSE "none"]
  /\ fd = [k \in Conn |-> [d \in Side |-> 0]]
  /\ file = [f \in Fd |-> None]
  /\ backlog = {} /\ toread = [s \in Sock |-> 0] /\ eof = {}
  /\ dialled = [k \in Conn |-> "none"]
  /\ shut = {} /\ got = [s \in Sock |-> {}]

Next ==
  \/ TaskStep \/ (\E t \in Tasks : Gets(t)) \/ Poll \/ Peer
  \/ running = None /\ ready = {} /\ UNCHANGED vars

Spec == Init /\ [][Next]_vars
-----------------------------------------------------------------------------
Copying(k, d) == pc[Rw(k, d)] \in {"read", "write", "finish"}

(* While a copying task lives, the number it reads from and will close     *)
(* stands for its own connection: no task closes or takes over another's   *)
(* descriptor, whatever is closed and opened meanwhile.  A peer is sent    *)
(* bytes of another connection only by a task whose partner has closed the *)
(* number it writes to, which has been given to a new connection since.    *)
OwnInv ==
  /\ \A k \in Conn, d \in Side : Copying(k, d) => file[fd[k][d]] = <<k, d>>
  /\ \A s \in Sock : \A k \in got[s] \ {s[1]} :
       \E d \in Side : pc[Rw(k, d)] = "exited"

(* Every open descriptor is one that some task will still close.           *)
NoLeak ==
  \A f \in Fd : file[f] # None => LET k == file[f][1] IN
    pc[Px(k)] \in {"dial", "dialling"} \/ Copying(k, file[f][2])

(* Nobody can run and poll() has nothing to report.                        *)
Settled == running = None /\ ready = {} /\ \A t \in Tasks : ~W!Reported(t)

(* rwtask() ends whenever its peer ends the stream: once the servers have  *)
(* answered and all streams have ended, the proxy settles with every       *)
(* connection closed on both sides and only taskmain() left.               *)
Ends ==
  /\ Settled
  /\ \A k \in Conn : pc[Px(k)] = "dialling" => dialled[k] # "none"
  /\ \A k \in Conn, d \in Side : Copying(k, d) => <<k, d>> \in eof
  => /\ \A f \in Fd : file[f] = None
     /\ \A t \in Tasks \ {Main} : pc[t] \in {"none", "exited"}

(* tcpproxy.c keeps its descriptors apart although numbers are reused: its *)
(* tasks read from and close only their own, close all of them, and end    *)
(* when their streams do.                                                  *)
ProxyInv == OwnInv /\ NoLeak /\ Ends
=============================================================================
