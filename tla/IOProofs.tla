------------------------------ MODULE IOProofs ------------------------------
(***************************************************************************)
(* Theorems about the calls that work on descriptors: fdread() and         *)
(* fdwrite() (module FdIO), for any tasks, lengths and limits of the       *)
(* kernel, and the calls of net.c (module Net) for any tasks and           *)
(* descriptors; about the prime sieve (module Primes) for any goal, and    *)
(* about the proxy (module Proxy) for any clients and descriptors.         *)
(***************************************************************************)
EXTENDS Programs, QueueFacts, FiniteSetTheorems

(* A task is in a call or has the result of one, not both; only fdwrite()  *)
(* counts what it has moved so far.                                        *)
IoTyped ==
  /\ call \in [Client -> Call \cup {NoCall}]
  /\ done \in [Client -> Result \cup {NoCall}]
  /\ out \in Seq(Client \X (1..MaxN))
  /\ drained \in Nat /\ sent \in Nat /\ readby \in Seq(Client)

CallInv ==
  \A t \in Client : call[t] # NoCall =>
    /\ done[t] = NoCall /\ call[t].tot <= call[t].n
    /\ call[t].op # "write" => call[t].tot = 0

IoInv == IoTyped /\ CallInv /\ TransferInv

(* The bytes of t on the stream s are the first n of its buffer, in order. *)
Streamed(s, t, n) ==
  LET places == {k \in DOMAIN s : s[k][1] = t} IN
  /\ {s[k][2] : k \in places} = 1..n
  /\ \A j, k \in places : j < k => s[j][2] < s[k][2]

-----------------------------------------------------------------------------
(* r is the stream s after a write() that took m bytes of t, the first of  *)
(* them the one after n.                                                   *)
Adds(s, t, n, m, r) ==
  \E b \in Seq(Client \X (1..MaxN)) :
    Len(b) = m /\ r = s \o b /\ \A k \in 1..m : b[k] = <<t, n + k>>

(* The writer has its next m bytes on the stream, the others what they had.*)
LEMMA StreamedMore ==
  ASSUME NEW s \in Seq(Client \X (1..MaxN)), NEW t \in Client, NEW n \in Nat,
         NEW m \in Nat, NEW r, Adds(s, t, n, m, r),
         NEW u \in Client, NEW i \in Nat, Streamed(s, u, i), u = t => i = n
  PROVE  Streamed(r, u, IF u = t THEN n + m ELSE i)
<1>0. PICK b \in Seq(Client \X (1..MaxN)) :
        Len(b) = m /\ r = s \o b /\ \A k \in 1..m : b[k] = <<t, n + k>>
  BY Zenon DEF Adds
<1> DEFINE L == Len(s)
           a(k) == r[k][1]
           v(k) == r[k][2]
           P == {k \in 1..L : a(k) = u}
           Q == {k \in 1..(L + m) : a(k) = u}
<1>1. /\ r \in Seq(Client \X (1..MaxN)) /\ Len(r) = L + m /\ L \in Nat
      /\ \A k \in 1..(L + m) : r[k] = IF k <= L THEN s[k] ELSE b[k - L]
  <2> DEFINE C == Client \X (1..MaxN)
  <2>1. s \in Seq(C) /\ b \in Seq(C) /\ r = s \o b
    BY <1>0
  <2> HIDE DEF C
  <2>2. /\ r \in Seq(C) /\ Len(r) = Len(s) + Len(b)
        /\ \A k \in 1..(Len(s) + Len(b)) : r[k] = IF k <= Len(s) THEN s[k] ELSE b[k - Len(s)]
    BY <2>1, JoinIs
  <2> QED BY <1>0, <2>1, <2>2 DEF C
<1>2. \A k \in 1..L : r[k] = s[k] /\ v(k) \in 1..MaxN
  <2> SUFFICES ASSUME NEW k \in 1..L PROVE r[k] = s[k] /\ v(k) \in 1..MaxN
    OBVIOUS
  <2>1. r[k] = s[k] /\ s[k] \in Client \X (1..MaxN)
    BY <1>1
  <2> QED BY <2>1
<1>3. /\ {v(k) : k \in P} = 1..i
      /\ \A j, k \in P : j < k => v(j) < v(k)
  <2>1. {k \in DOMAIN s : s[k][1] = u} = P
    BY <1>2
  <2>2. \A k \in P : v(k) = s[k][2]
    BY <1>2
  <2>3. /\ {s[k][2] : k \in P} = 1..i
        /\ \A j, k \in P : j < k => s[j][2] < s[k][2]
    <3> DEFINE D == {k \in DOMAIN s : s[k][1] = u}
    <3>1. /\ {s[k][2] : k \in D} = 1..i
          /\ \A j, k \in D : j < k => s[j][2] < s[k][2]
      BY DEF Streamed
    <3>2. D = P
      BY <2>1
    <3> HIDE DEF D, P
    <3> QED BY <3>1, <3>2
  <2> HIDE DEF P, v
  <2>4. ASSUME NEW x PROVE x \in {v(k) : k \in P} <=> x \in {s[k][2] : k \in P}
    BY <2>2
  <2>5. {v(k) : k \in P} = {s[k][2] : k \in P}
    BY <2>4
  <2>6. \A j, k \in P : j < k => v(j) < v(k)
    BY <2>2, <2>3
  <2> QED BY <2>3, <2>5, <2>6
<1>4. ASSUME NEW k \in (L + 1)..(L + m) PROVE a(k) = t /\ v(k) = n + (k - L)
  <2>1. k - L \in 1..m /\ k \in 1..(L + m) /\ ~(k <= L)
    BY <1>1
  <2>2. r[k] = <<t, n + (k - L)>>
    <3> HIDE DEF L
    <3> QED BY <1>0, <1>1, <2>1
  <2> QED BY <2>2
<1>5. ASSUME {v(k) : k \in Q} = 1..(IF u = t THEN n + m ELSE i),
             \A j, k \in Q : j < k => v(j) < v(k)
      PROVE  Streamed(r, u, IF u = t THEN n + m ELSE i)
  <2>1. {k \in DOMAIN r : r[k][1] = u} = Q
    BY <1>1
  <2> QED BY <1>5, <2>1 DEF Streamed
<1>6. \A k \in P : v(k) \in Nat
  BY <1>2, FdIOAssumption
<1>7. L \in Nat
  BY <1>1
<1> HIDE DEF L, a, v
<1>8. CASE u # t
  <2>1. Q = P
    BY <1>4, <1>7, <1>8
  <2> QED BY <1>3, <1>5, <1>8, <2>1
<1>9. CASE u = t
  <2>0. i = n
    BY <1>9
  <2>1. Q = P \cup ((L + 1)..(L + m))
    BY <1>4, <1>7, <1>9
  <2>2. ASSUME NEW k \in P PROVE v(k) \in 1..n
    BY <1>3, <2>0
  <2>3. P \subseteq 1..L
    OBVIOUS
  <2> HIDE DEF P, Q
  <2>4. ASSUME NEW x \in {v(k) : k \in Q} PROVE x \in 1..(n + m)
    <3>1. PICK k \in Q : x = v(k)
      OBVIOUS
    <3>2. CASE k \in P
      <4>1. x \in 1..n
        BY <2>2, <3>1, <3>2
      <4> QED BY <4>1
    <3>3. CASE k \in (L + 1)..(L + m)
      BY <1>4, <1>7, <3>1, <3>3
    <3> QED BY <2>1, <3>2, <3>3
  <2>5. ASSUME NEW x \in 1..(n + m) PROVE x \in {v(k) : k \in Q}
    <3>1. CASE x <= n
      <4>1. x \in 1..n
        BY <3>1
      <4>2. PICK k \in P : x = v(k)
        BY <1>3, <2>0, <4>1
      <4> QED BY <2>1, <4>2
    <3>2. CASE x > n
      <4>1. L + (x - n) \in (L + 1)..(L + m) /\ n + ((L + (x - n)) - L) = x
        BY <1>7, <3>2
      <4>2. v(L + (x - n)) = x
        BY <1>4, <4>1
      <4> QED BY <2>1, <4>1, <4>2
    <3> QED BY <3>1, <3>2
  <2>6. {v(k) : k \in Q} = 1..(n + m)
    BY <2>4, <2>5
  <2>7. ASSUME NEW j \in Q, NEW k \in Q, j < k PROVE v(j) < v(k)
    <3>1. CASE k \in P
      <4>1. j \in P
        BY <1>7, <2>1, <2>3, <2>7, <3>1
      <4> QED BY <1>3, <2>7, <3>1, <4>1
    <3>2. CASE k \in (L + 1)..(L + m) /\ j \in P
      <4>1. v(j) \in 1..n /\ v(k) = n + (k - L) /\ k - L \in Nat \ {0}
        BY <1>4, <1>7, <2>2, <3>2
      <4> QED BY <4>1
    <3>3. CASE k \in (L + 1)..(L + m) /\ j \in (L + 1)..(L + m)
      <4>1. v(k) = n + (k - L) /\ v(j) = n + (j - L)
        BY <1>4, <3>3
      <4> QED BY <1>7, <2>7, <3>3, <4>1
    <3> QED BY <2>1, <3>1, <3>2, <3>3
  <2> QED BY <1>5, <1>9, <2>6, <2>7
<1> QED BY <1>8, <1>9

-----------------------------------------------------------------------------
(* What the result of a call says.                                         *)
ResultOK(t) ==
  done[t] # NoCall =>
    IF done[t].result < 0 THEN broken
    ELSE /\ done[t].result = done[t].moved
         /\ done[t].op # "write" /\ done[t].result = 0 => eof

(* TransferInv, task by task.                                              *)
LEMMA TransferIs ==
  TransferInv <=> \A t \in Client : Streamed(out, t, Moved(t)) /\ ResultOK(t)
BY DEF TransferInv, Streamed, Written, ResultOK

(* The records of a call.                                                  *)
LEMMA CallFacts ==
  ASSUME IoTyped, NEW t \in Client
  PROVE  /\ call[t] # NoCall =>
              /\ call[t] \in Call /\ call[t].op \in {"read", "read1", "write"}
              /\ call[t].n \in 1..MaxN /\ call[t].tot \in 0..MaxN
         /\ done[t] # NoCall =>
              /\ done[t] \in Result /\ done[t].result \in -1..MaxN
              /\ done[t].moved \in 0..MaxN
         /\ MaxN \in Nat
<1>1. call[t] # NoCall => call[t] \in Call
  BY DEF IoTyped
<1>2. done[t] # NoCall => done[t] \in Result
  BY DEF IoTyped
<1>3. \A c \in Call : c.op \in {"read", "read1", "write"} /\ c.n \in 1..MaxN /\ c.tot \in 0..MaxN
  BY DEF Call
<1>4. \A d \in Result : d.result \in -1..MaxN /\ d.moved \in 0..MaxN
  BY DEF Result
<1> QED BY <1>1, <1>2, <1>3, <1>4, FdIOAssumption

(* A step after which every task has what it had, and only signs of life   *)
(* of the peer come in.                                                    *)
LEMMA KeepStep ==
  ASSUME IoInv, UNCHANGED <<call, done, out>>, drained' \in Nat, sent' \in Nat, readby' = readby,
         broken => broken', eof => eof'
  PROVE  IoInv'
<1>1. IoTyped' /\ CallInv'
  BY DEF IoInv, IoTyped, CallInv
<1>2. \A t \in Client : Streamed(out, t, Moved(t)) /\ ResultOK(t)
  BY TransferIs DEF IoInv
<1>3. \A t \in Client : Moved(t)' = Moved(t)
  BY DEF Moved
<1>4. \A t \in Client : ResultOK(t)'
  BY <1>2 DEF ResultOK
<1>5. \A t \in Client : Streamed(out', t, Moved(t)')
  BY <1>2, <1>3
<1>6. TransferInv'
  BY <1>4, <1>5 DEF TransferInv, Streamed, Written, ResultOK
<1> QED BY <1>1, <1>6 DEF IoInv

(* A task enters a call, or goes on with it, or comes back from it with    *)
(* the result d; its bytes on the stream are known afterwards.             *)
LEMMA TaskKeeps ==
  ASSUME IoInv, NEW t \in Client,
         NEW c \in Call \cup {NoCall}, call' = [call EXCEPT ![t] = c],
         NEW d \in Result \cup {NoCall}, done' = [done EXCEPT ![t] = d],
         c # NoCall => d = NoCall /\ c.tot <= c.n /\ (c.op # "write" => c.tot = 0),
         out' \in Seq(Client \X (1..MaxN)), readby' \in Seq(Client),
         \A u \in Client \ {t} : Streamed(out', u, Moved(u)),
         Streamed(out', t, Moved(t)'), ResultOK(t)', UNCHANGED <<drained, sent, broken, eof>>
  PROVE  IoInv'
<1>1. /\ call \in [Client -> Call \cup {NoCall}]
      /\ done \in [Client -> Result \cup {NoCall}]
  BY DEF IoInv, IoTyped
<1>2. /\ call'[t] = c /\ done'[t] = d
      /\ \A u \in Client \ {t} : call'[u] = call[u] /\ done'[u] = done[u]
  BY <1>1
<1>3. IoTyped'
  <2>1. call' \in [Client -> Call \cup {NoCall}] /\ done' \in [Client -> Result \cup {NoCall}]
    BY <1>1
  <2> QED BY <2>1 DEF IoInv, IoTyped
<1>4. CallInv'
  <2> SUFFICES ASSUME NEW u \in Client, call'[u] # NoCall
               PROVE  /\ done'[u] = NoCall /\ call'[u].tot <= call'[u].n
                      /\ call'[u].op # "write" => call'[u].tot = 0
    BY DEF CallInv
  <2>1. CASE u = t
    BY <1>2, <2>1
  <2>2. CASE u # t
    BY <1>2, <2>2 DEF IoInv, CallInv
  <2> QED BY <2>1, <2>2
<1>5. \A u \in Client \ {t} : Moved(u)' = Moved(u)
  BY <1>2 DEF Moved
<1>6. \A u \in Client : ResultOK(u)
  BY TransferIs DEF IoInv
<1>7. \A u \in Client \ {t} : ResultOK(u)'
  BY <1>2, <1>6 DEF ResultOK
<1>8. \A u \in Client : Streamed(out', u, Moved(u)') /\ ResultOK(u)'
  BY <1>5, <1>7
<1>9. TransferInv'
  BY <1>8 DEF TransferInv, Streamed, Written, ResultOK
<1> QED BY <1>3, <1>4, <1>9 DEF IoInv

(* A call begins: nothing is moved yet.                                    *)
LEMMA BeginStep ==
  ASSUME IoInv, NEW t \in Client, NEW op \in Ops, NEW n \in 1..MaxN, Begin(t, op, n)
  PROVE  IoInv'
<1> DEFINE c == [op |-> op, n |-> n, tot |-> 0]
<1>1. /\ call[t] = NoCall /\ done[t] = NoCall /\ call' = [call EXCEPT ![t] = c]
      /\ done' = done /\ out' = out /\ readby' = readby /\ UNCHANGED <<drained, sent, broken, eof>>
  BY DEF Begin, netVars
<1>2. c \in Call /\ c # NoCall /\ c.tot = 0 /\ c.n = n /\ n \in Nat
  BY FdIOAssumption DEF Call
<1>3. done' = [done EXCEPT ![t] = NoCall] /\ IoTyped
  BY <1>1 DEF IoInv, IoTyped
<1>4. \A u \in Client : Streamed(out, u, Moved(u)) /\ ResultOK(u)
  BY TransferIs DEF IoInv
<1>5. Moved(t) = 0 /\ call'[t] = c /\ done'[t] = NoCall
  BY <1>1, <1>3 DEF Moved, IoTyped
<1> HIDE DEF c
<1>6. Moved(t)' = 0
  BY <1>2, <1>5 DEF Moved
<1>7. Streamed(out', t, Moved(t)') /\ ResultOK(t)'
  BY <1>1, <1>4, <1>5, <1>6 DEF ResultOK
<1>8. out' \in Seq(Client \X (1..MaxN)) /\ readby' \in Seq(Client)
  BY <1>1, <1>3 DEF IoTyped
<1>9. \A u \in Client \ {t} : Streamed(out', u, Moved(u))
  BY <1>1, <1>4
<1>10. c.tot <= c.n
  BY <1>2
<1> QED BY <1>1, <1>2, <1>3, <1>7, <1>8, <1>9, <1>10, TaskKeeps

(* A call returns r, after what it has moved is k bytes.                   *)
LEMMA ReturnStep ==
  ASSUME IoInv, NEW t \in Client, call[t] # NoCall, NEW r \in -1..MaxN, NEW k \in 0..MaxN,
         Return(t, r, k), UNCHANGED <<out, drained, sent, broken, eof>>, readby' \in Seq(Client),
         call[t].op = "write" => k = call[t].tot,
         IF r < 0 THEN broken ELSE r = k /\ (call[t].op # "write" /\ r = 0 => eof)
  PROVE  IoInv'
<1> DEFINE d == [op |-> call[t].op, n |-> call[t].n, result |-> r, moved |-> k]
<1>1. /\ IoTyped /\ CallInv /\ call[t] \in Call /\ call[t].op \in {"read", "read1", "write"}
      /\ call[t].n \in 1..MaxN
  BY CallFacts DEF IoInv
<1>2. /\ d \in Result /\ d # NoCall /\ d.op = call[t].op /\ d.result = r /\ d.moved = k
  BY <1>1, FdIOAssumption DEF Result
<1>3. call' = [call EXCEPT ![t] = NoCall] /\ done' = [done EXCEPT ![t] = d]
  BY DEF Return
<1> HIDE DEF d
<1>4. call'[t] = NoCall /\ done'[t] = d
  BY <1>1, <1>3 DEF IoTyped
<1>5. Moved(t)' = Moved(t)
  <2>1. Moved(t) = call[t].tot
    BY DEF Moved
  <2>2. Moved(t)' = IF d.op = "write" THEN d.moved ELSE 0
    BY <1>2, <1>4 DEF Moved
  <2> QED BY <1>1, <1>2, <2>1, <2>2 DEF CallInv
<1>6. \A u \in Client : Streamed(out', u, Moved(u))
  BY TransferIs DEF IoInv
<1>7. ResultOK(t)'
  BY <1>2, <1>4 DEF ResultOK
<1>8. /\ out' \in Seq(Client \X (1..MaxN)) /\ Streamed(out', t, Moved(t)')
      /\ \A u \in Client \ {t} : Streamed(out', u, Moved(u))
  BY <1>1, <1>5, <1>6 DEF IoTyped
<1> QED BY <1>2, <1>3, <1>7, <1>8, TaskKeeps

(* read() finds bytes, the end, an error, or nothing.                      *)
LEMMA ReadKeeps ==
  ASSUME IoInv, NEW t \in Client, ReadStep(t)
  PROVE  IoInv'
<1>1. /\ IoTyped /\ call[t] # NoCall /\ call[t].op \in {"read", "read1"}
      /\ UNCHANGED <<out, drained, sent, broken, eof>>
  BY DEF IoInv, ReadStep, InCall
<1>2. /\ call[t].n \in 1..MaxN /\ MaxN \in Nat /\ Len(readby) \in Nat /\ sent \in Nat
  BY <1>1, CallFacts DEF IoTyped
<1>3. PICK n \in 1..MaxN, avail \in Int : n = call[t].n /\ avail = sent - Len(readby)
  <2>1. sent - Len(readby) \in Int
    BY <1>2
  <2> QED BY <1>2, <2>1, Zenon
<1>4. CASE avail > 0
  <2>1. PICK m \in 1..Smaller(n, avail) :
          readby' = readby \o [k \in 1..m |-> t] /\ Return(t, m, m)
    <3>1. sent - Len(readby) # 0
      BY <1>3, <1>4
    <3>2. \E m \in 1..Smaller(call[t].n, sent - Len(readby)) :
            readby' = readby \o [k \in 1..m |-> t] /\ Return(t, m, m)
      BY <3>1, Zenon DEF ReadStep
    <3> QED BY <1>3, <3>2, Zenon
  <2>2. m \in Nat /\ m > 0 /\ m <= n
    BY <1>4, <2>1 DEF Smaller
  <2>3. [k \in 1..m |-> t] \in Seq(Client)
    BY <2>2, FunctionIsQueue
  <2>4. readby' \in Seq(Client)
    BY <1>1, <2>1, <2>3, ConcatProperties DEF IoTyped
  <2>5. m \in -1..MaxN /\ m \in 0..MaxN /\ ~(m < 0) /\ m # 0
    BY <1>2, <2>2
  <2>6. IF m < 0 THEN broken ELSE m = m /\ (call[t].op # "write" /\ m = 0 => eof)
    BY <2>5
  <2>7. call[t].op = "write" => m = call[t].tot
    BY <1>1
  <2>8. UNCHANGED <<out, drained, sent, broken, eof>>
    BY <1>1
  <2> QED BY <1>1, <2>1, <2>4, <2>5, <2>6, <2>7, <2>8, ReturnStep
<1>5. CASE ~(avail > 0)
  <2>1. /\ readby' = readby
        /\ \/ broken /\ Return(t, -1, 0)
           \/ ~broken /\ eof /\ Return(t, 0, 0)
           \/ UNCHANGED <<call, done>>
    BY <1>3, <1>5 DEF ReadStep, Again
  <2>2. readby' \in Seq(Client) /\ -1 \in -1..MaxN /\ 0 \in -1..MaxN /\ 0 \in 0..MaxN
    BY <1>1, <1>2, <2>1 DEF IoTyped
  <2>3. /\ UNCHANGED <<out, drained, sent, broken, eof>> /\ (call[t].op = "write" => 0 = call[t].tot)
        /\ -1 < 0 /\ ~(0 < 0)
    BY <1>1
  <2>4. CASE broken /\ Return(t, -1, 0)
    <3>1. IF -1 < 0 THEN broken ELSE -1 = 0 /\ (call[t].op # "write" /\ -1 = 0 => eof)
      BY <2>4
    <3> QED BY <1>1, <2>2, <2>3, <2>4, <3>1, ReturnStep
  <2>5. CASE eof /\ Return(t, 0, 0)
    <3>1. IF 0 < 0 THEN broken ELSE 0 = 0 /\ (call[t].op # "write" /\ 0 = 0 => eof)
      BY <2>5
    <3> QED BY <1>1, <2>2, <2>3, <2>5, <3>1, ReturnStep
  <2>6. CASE UNCHANGED <<call, done>>
    <3>1. drained' \in Nat /\ sent' \in Nat /\ (broken => broken') /\ (eof => eof')
      BY <1>1, <1>2, <2>3 DEF IoTyped
    <3> QED BY <2>1, <2>3, <2>6, <3>1, KeepStep
  <2> QED BY <2>1, <2>4, <2>5, <2>6
<1> QED BY <1>4, <1>5

(* write() takes the next bytes of the buffer, fails, takes none, or would *)
(* block.                                                                  *)
LEMMA WriteKeeps ==
  ASSUME IoInv, NEW t \in Client, WriteStep(t)
  PROVE  IoInv'
<1>1. /\ IoTyped /\ call[t] # NoCall /\ call[t].op = "write"
      /\ UNCHANGED <<drained, sent, readby, broken, eof>>
  BY DEF IoInv, WriteStep, InCall
<1>2. /\ call[t] \in Call /\ call[t].n \in 1..MaxN /\ call[t].tot \in 0..MaxN
      /\ MaxN \in Nat
  BY <1>1, CallFacts
<1>3. PICK n \in 1..MaxN, k \in 0..MaxN : n = call[t].n /\ k = call[t].tot
  BY <1>2
<1>4. readby' \in Seq(Client) /\ call \in [Client -> Call \cup {NoCall}]
      /\ done \in [Client -> Result \cup {NoCall}] /\ out \in Seq(Client \X (1..MaxN))
      /\ done[t] = NoCall
  BY <1>1 DEF IoInv, IoTyped, CallInv
<1>5. CASE \E m \in 1..Smaller(n - k, Room - (Len(out) - drained)) :
             /\ out' = out \o Chunk(t, m)
             /\ call' = [call EXCEPT ![t].tot = k + m]
             /\ done' = done
  <2>1. PICK m \in 1..Smaller(n - k, Room - (Len(out) - drained)) :
             /\ out' = out \o Chunk(t, m)
             /\ call' = [call EXCEPT ![t].tot = k + m]
             /\ done' = done
    BY <1>5
  <2>2. m \in Nat /\ k + m \in 1..MaxN /\ k + m <= n
    <3>1. Room - (Len(out) - drained) \in Int /\ n - k \in Int /\ n \in Nat /\ k \in Nat
      BY <1>1, <1>2, FdIOAssumption DEF IoTyped
    <3>2. PICK a \in Int, b \in Int :
            a = n - k /\ b = Room - (Len(out) - drained) /\ m \in 1..Smaller(a, b)
      BY <3>1
    <3>3. m \in Nat /\ m >= 1 /\ m <= a
      BY <3>2 DEF Smaller
    <3>4. k + m <= n /\ k + m >= 1 /\ k + m \in Nat
      BY <3>1, <3>2, <3>3
    <3>5. n <= MaxN /\ MaxN \in Nat
      BY <1>2
    <3> QED BY <3>1, <3>3, <3>4, <3>5
  <2> DEFINE c == [op |-> "write", n |-> n, tot |-> k + m]
  <2>3. c \in Call /\ c # NoCall /\ c.tot = k + m /\ c.n = n /\ c.op = "write"
    BY <1>2, <2>2, FdIOAssumption DEF Call
  <2>4. call' = [call EXCEPT ![t] = c]
    <3>1. \A r \in Call : r.op = "write" /\ r.n = n => [r EXCEPT !.tot = k + m] = c
      BY DEF Call
    <3>2. [call[t] EXCEPT !.tot = k + m] = c
      BY <1>1, <1>2, <1>3, <3>1
    <3> QED BY <2>1, <3>2
  <2> HIDE DEF c
  <2>5. PICK b : b = Chunk(t, m)
    OBVIOUS
  <2>6. /\ b \in Seq(Client \X (1..MaxN)) /\ Len(b) = m
        /\ \A i \in 1..m : b[i] = <<t, k + i>>
    <3>1. b = [i \in 1..m |-> <<t, k + i>>]
      BY <1>3, <2>5 DEF Chunk
    <3>2. ASSUME NEW i \in 1..m PROVE k + i \in 1..MaxN
      <4>1. k \in Nat /\ i \in Nat /\ i >= 1 /\ i <= m /\ k + m <= MaxN /\ MaxN \in Nat
        BY <1>2, <2>2
      <4> QED BY <2>2, <4>1
    <3> DEFINE C == Client \X (1..MaxN)
    <3>3. \A i \in 1..m : <<t, k + i>> \in C
      BY <3>2
    <3> HIDE DEF C
    <3>4. b \in [1..m -> C]
      BY <3>1, <3>3
    <3>5. b \in Seq(C) /\ Len(b) = m
      BY <2>2, <3>4, FunctionIsQueue
    <3> QED BY <3>1, <3>5 DEF C
  <2>7. \A u \in Client : Streamed(out, u, Moved(u)) /\ ResultOK(u)
    BY TransferIs DEF IoInv
  <2>8. Moved(t) = k /\ \A u \in Client : Moved(u) \in Nat
    <3>1. \A u \in Client : Moved(u) \in Nat
      BY <1>1, CallFacts DEF Moved
    <3> QED BY <1>1, <1>3, <3>1 DEF Moved
  <2>9. ASSUME NEW u \in Client
        PROVE  Streamed(out', u, IF u = t THEN k + m ELSE Moved(u))
    <3>1. PICK i \in Nat : i = Moved(u)
      BY <2>8
    <3>2. Streamed(out, u, i) /\ (u = t => i = k) /\ k \in Nat
      BY <1>3, <2>7, <2>8, <3>1
    <3>3. PICK s, r : s = out /\ r = out \o b
      OBVIOUS
    <3>4. Adds(s, t, k, m, r)
      BY <2>6, <3>3, Zenon DEF Adds
    <3>5. Streamed(s, u, i) /\ s \in Seq(Client \X (1..MaxN)) /\ m \in Nat
      BY <1>4, <2>2, <3>2, <3>3
    <3>6. Streamed(r, u, IF u = t THEN k + m ELSE i)
      BY <3>2, <3>4, <3>5, StreamedMore
    <3> QED BY <2>1, <2>5, <3>1, <3>3, <3>6
  <2>10. out' \in Seq(Client \X (1..MaxN))
    <3> DEFINE C == Client \X (1..MaxN)
    <3>1. out \in Seq(C) /\ b \in Seq(C) /\ out' = out \o b
      BY <1>4, <2>1, <2>5, <2>6
    <3> HIDE DEF C
    <3>2. out' \in Seq(C)
      BY <3>1
    <3> QED BY <3>2 DEF C
  <2>11. call'[t] = c /\ Moved(t)' = k + m
    <3>1. call'[t] = c
      BY <1>4, <2>4
    <3> QED BY <2>3, <3>1 DEF Moved
  <2>12. /\ done' = [done EXCEPT ![t] = NoCall] /\ ResultOK(t)'
         /\ UNCHANGED <<drained, sent, broken, eof>>
    <3>1. done' = [done EXCEPT ![t] = NoCall]
      BY <1>4, <2>1
    <3>2. ResultOK(t)'
      BY <1>4, <2>1 DEF ResultOK
    <3> QED BY <1>1, <3>1, <3>2
  <2>13. c \in Call \cup {NoCall} /\ NoCall \in Result \cup {NoCall} /\ c.tot <= c.n
         /\ (c # NoCall => NoCall = NoCall /\ c.tot <= c.n /\ (c.op # "write" => c.tot = 0))
    BY <2>2, <2>3
  <2>14. Streamed(out', t, Moved(t)') /\ \A u \in Client \ {t} : Streamed(out', u, Moved(u))
    BY <2>9, <2>11
  <2> QED BY <1>4, <2>4, <2>10, <2>12, <2>13, <2>14, TaskKeeps
<1>6. CASE /\ out' = out
           /\ \/ broken /\ Return(t, -1, k)
              \/ ~broken /\ Return(t, k, k)
              \/ UNCHANGED <<call, done>>
  <2>1. -1 \in -1..MaxN /\ k \in -1..MaxN /\ ~(k < 0) /\ -1 < 0
    BY <1>2, <1>3
  <2>2. UNCHANGED <<out, drained, sent, broken, eof>> /\ (call[t].op = "write" => k = call[t].tot)
    BY <1>1, <1>3, <1>6
  <2>3. CASE broken /\ Return(t, -1, k)
    <3>1. IF -1 < 0 THEN broken ELSE -1 = k /\ (call[t].op # "write" /\ -1 = 0 => eof)
      BY <2>1, <2>3
    <3> QED BY <1>1, <1>4, <2>1, <2>2, <2>3, <3>1, ReturnStep
  <2>4. CASE Return(t, k, k)
    <3>1. IF k < 0 THEN broken ELSE k = k /\ (call[t].op # "write" /\ k = 0 => eof)
      BY <1>1, <2>1
    <3> QED BY <1>1, <1>4, <2>1, <2>2, <2>4, <3>1, ReturnStep
  <2>5. CASE UNCHANGED <<call, done>>
    <3>1. drained' \in Nat /\ sent' \in Nat /\ (broken => broken') /\ (eof => eof') /\ readby' = readby
      BY <1>1 DEF IoTyped
    <3> QED BY <2>2, <2>5, <3>1, KeepStep
  <2> QED BY <1>6, <2>3, <2>4, <2>5
<1> QED BY <1>3, <1>5, <1>6 DEF WriteStep, Again

(* fdwrite() returns when everything is written.                           *)
LEMMA DoneKeeps ==
  ASSUME IoInv, NEW t \in Client, WriteDone(t)
  PROVE  IoInv'
<1>1. /\ IoTyped /\ call[t] # NoCall /\ call[t].op = "write"
      /\ UNCHANGED netVars
  BY DEF IoInv, WriteDone, InCall
<1>2. call[t].tot \in 0..MaxN /\ MaxN \in Nat
  BY <1>1, CallFacts
<1>3. PICK k \in 0..MaxN : k = call[t].tot
  BY <1>2
<1>4. /\ k \in -1..MaxN /\ ~(k < 0) /\ Return(t, k, k) /\ readby' \in Seq(Client)
      /\ UNCHANGED <<out, drained, sent, broken, eof>>
  BY <1>1, <1>2, <1>3 DEF WriteDone, netVars, IoTyped
<1>5. IF k < 0 THEN broken ELSE k = k /\ (call[t].op # "write" /\ k = 0 => eof)
  BY <1>1, <1>4
<1> QED BY <1>1, <1>3, <1>4, <1>5, ReturnStep

(* The tasks, the scheduler, the peer.                                     *)
LEMMA IoStep ==
  ASSUME IoInv, [Next]_vars
  PROVE  IoInv'
<1>0. drained \in Nat /\ sent \in Nat
  BY DEF IoInv, IoTyped
<1>1. ASSUME NEW t \in Client, TaskStep(t) PROVE IoInv'
  BY <1>1, BeginStep, ReadKeeps, WriteKeeps, DoneKeeps DEF TaskStep
<1>2. CASE Schedule
  <2>1. UNCHANGED <<call, done, out, drained, sent, readby, broken, eof>>
    BY <1>2 DEF Schedule, netVars
  <2> QED BY <1>0, <2>1, KeepStep
<1>3. CASE Peer
  <2>1. /\ UNCHANGED <<call, done, out, readby>> /\ drained' \in Nat /\ sent' \in Nat
        /\ (broken => broken') /\ (eof => eof')
    BY <1>0, <1>3 DEF Peer, Drains, Sends, Ends, Resets
  <2> QED BY <2>1, KeepStep
<1>4. CASE UNCHANGED vars
  <2>1. UNCHANGED <<call, done, out, drained, sent, readby, broken, eof>>
    BY <1>4 DEF vars, netVars
  <2> QED BY <1>0, <2>1, KeepStep
<1> QED BY <1>1, <1>2, <1>3, <1>4 DEF Next

(* Nothing is moved at first.                                              *)
LEMMA IoStart == Init => IoInv
<1> SUFFICES ASSUME Init PROVE IoInv
  OBVIOUS
<1>1. IoTyped
  BY DEF Init, IoTyped
<1>2. CallInv
  BY DEF Init, CallInv
<1>3. TransferInv
  <2> SUFFICES ASSUME NEW t \in Client PROVE Streamed(out, t, Moved(t)) /\ ResultOK(t)
    BY TransferIs
  <2>1. Moved(t) = 0 /\ out = <<>> /\ done[t] = NoCall
    BY DEF Init, Moved
  <2>2. {k \in DOMAIN out : out[k][1] = t} = {} /\ 1..0 = {}
    BY <2>1
  <2> QED BY <2>1, <2>2 DEF Streamed, ResultOK
<1> QED BY <1>1, <1>2, <1>3 DEF IoInv

(* Whatever the lengths, the kernel's limits and the order in which tasks  *)
(* and peer go on: fdwrite() puts its bytes on the stream in order and     *)
(* once, and what fdread(), fdread1() and fdwrite() return is what they    *)
(* moved, the end of the stream, or an error of the connection.            *)
THEOREM TransferCorrect == Spec => []TransferInv
<1>1. Spec => []IoInv
  BY IoStart, IoStep, PTL DEF Spec
<1>2. IoInv => TransferInv
  BY DEF IoInv
<1> QED BY <1>1, <1>2, PTL

-----------------------------------------------------------------------------
(* The calls of net.c, of tasks of their own.                              *)
Socket == {"free", "listening", "accepted", "connecting", "connected", "failed"}

(* netdial() waits for a descriptor, and what a call returns is one or -1. *)
NetTyped ==
  /\ sock \in [Fd -> Socket]
  /\ stage \in [NetClient -> {"none", "accept", "dial", "done"}]
  /\ result \in [NetClient -> Fd \cup {-1}]
  /\ fd \in [NetClient -> Fd \cup {0}]
  /\ \A t \in NetClient : stage[t] = "dial" => fd[t] \in Fd

(* The task t has f from a call, or is about to get it from netdial().     *)
Holds(t, f) ==
  \/ stage[t] = "done" /\ result[t] = f
  \/ stage[t] = "dial" /\ fd[t] = f

(* A descriptor in use has one holder, a free one has none: were there     *)
(* holders of free descriptors, the next socket() would make two of one.   *)
OwnInv ==
  \A f \in Fd :
    IF sock[f] = "free" THEN \A u \in NetClient : ~Holds(u, f)
    ELSE \E t \in NetClient : \A u \in NetClient : Holds(u, f) <=> u = t

NetInv == NetTyped /\ OwnInv

(* The least member of a set of numbers.                                   *)
LEMMA LeastIn ==
  ASSUME NEW S, S \subseteq Nat, S # {}
  PROVE  \E c \in S : \A g \in S : c <= g
<1>2. PICK n \in S : TRUE
  OBVIOUS
<1> DEFINE K == S \cap (0..n)
<1>3. n \in Nat /\ K \subseteq 0..n /\ n \in K
  BY <1>2
<1>4. PICK c \in K : \A j \in 0..(c - 1) : j \notin K
  <2> HIDE DEF K
  <2> QED BY <1>3, LeastOf
<1>5. c \in S /\ c \in Nat /\ c <= n
  BY <1>3, <1>4
<1>6. ASSUME NEW g \in S PROVE c <= g
  <2>1. g \in Nat
    OBVIOUS
  <2>2. CASE g <= n
    <3>1. g \in K
      BY <2>1, <2>2
    <3>2. g \notin 0..(c - 1)
      BY <1>4, <3>1
    <3> QED BY <1>5, <2>1, <3>2
  <2> QED BY <1>3, <1>5, <2>1, <2>2
<1> QED BY <1>5, <1>6

(* The lowest free descriptor is a free one.                               *)
LEMMA LowestFree ==
  ASSUME N!NetAssumption, NetTyped, N!Free # {}
  PROVE  N!Lowest(N!Free) \in Fd /\ sock[N!Lowest(N!Free)] = "free"
<1>1. N!Free \subseteq Fd /\ Fd \subseteq Nat /\ \A f \in N!Free : sock[f] = "free"
  BY DEF N!Free, N!NetAssumption
<1>2. \E c \in N!Free : \A g \in N!Free : c <= g
  BY <1>1, LeastIn
<1>3. N!Lowest(N!Free) \in N!Free
  BY <1>2 DEF N!Lowest
<1> QED BY <1>1, <1>3

(* A step that leaves every descriptor with its holder.                    *)
LEMMA HoldersKept ==
  ASSUME OwnInv, \A f \in Fd : sock'[f] = "free" <=> sock[f] = "free",
         \A f \in Fd, u \in NetClient : Holds(u, f)' <=> Holds(u, f)
  PROVE  OwnInv'
BY DEF OwnInv

(* A step in which the task t takes the free descriptor g.                 *)
LEMMA HolderComes ==
  ASSUME OwnInv, NEW t \in NetClient, NEW g \in Fd, sock[g] = "free", sock'[g] # "free",
         \A f \in Fd \ {g} : sock'[f] = sock[f],
         \A f \in Fd, u \in NetClient : Holds(u, f)' <=> Holds(u, f) \/ (u = t /\ f = g)
  PROVE  OwnInv'
BY DEF OwnInv

(* A step in which the task t gives up its descriptor g, which is closed.  *)
LEMMA HolderGoes ==
  ASSUME OwnInv, NEW t \in NetClient, NEW g \in Fd, Holds(t, g), sock'[g] = "free",
         \A f \in Fd \ {g} : sock'[f] = sock[f],
         \A f \in Fd, u \in NetClient : Holds(u, f)' <=> Holds(u, f) /\ ~(u = t /\ f = g)
  PROVE  OwnInv'
BY DEF OwnInv

(* A call that returns the descriptor g it has just opened.                *)
LEMMA ReturnsNew ==
  ASSUME NetInv, Fd \subseteq Nat, NEW t \in NetClient, stage[t] \in {"none", "accept"},
         NEW g \in Fd, sock[g] = "free", NEW s \in Socket \ {"free"},
         sock' = [sock EXCEPT ![g] = s], N!Return(t, g)
  PROVE  NetInv'
<1>1. /\ stage' = [stage EXCEPT ![t] = "done"] /\ fd' = fd
      /\ result' = [result EXCEPT ![t] = g] /\ NetTyped
  BY DEF N!Return, NetInv
<1>2. NetTyped'
  BY <1>1 DEF NetTyped
<1>3. \A f \in Fd, u \in NetClient : Holds(u, f)' <=> Holds(u, f) \/ (u = t /\ f = g)
  BY <1>1 DEF NetTyped, Holds
<1>4. sock'[g] # "free" /\ \A f \in Fd \ {g} : sock'[f] = sock[f]
  BY <1>1 DEF NetTyped
<1> QED BY <1>2, <1>3, <1>4, HolderComes DEF NetInv

(* A call that fails before it has opened a descriptor.                    *)
LEMMA ReturnsNone ==
  ASSUME NetInv, Fd \subseteq Nat, NEW t \in NetClient, stage[t] \in {"none", "accept"},
         sock' = sock, N!Return(t, -1)
  PROVE  NetInv'
<1>1. /\ stage' = [stage EXCEPT ![t] = "done"] /\ fd' = fd
      /\ result' = [result EXCEPT ![t] = -1] /\ NetTyped
  BY DEF N!Return, NetInv
<1>2. NetTyped'
  BY <1>1 DEF NetTyped
<1>3. -1 \notin Fd
  OBVIOUS
<1>4. \A f \in Fd, u \in NetClient : Holds(u, f)' <=> Holds(u, f)
  BY <1>1, <1>3 DEF NetTyped, Holds
<1> QED BY <1>2, <1>4, HoldersKept DEF NetInv

(* A call that begins to wait in fdwait() without a descriptor of its own. *)
LEMMA AcceptKeeps ==
  ASSUME NetInv, NEW t \in NetClient, N!netaccept(t)
  PROVE  NetInv'
<1>1. PICK f \in Fd : /\ stage' = [stage EXCEPT ![t] = "accept"] /\ result' = result
                      /\ fd' = [fd EXCEPT ![t] = f]
  BY DEF N!netaccept, N!Enter, N!Listeners
<1>2. NetTyped /\ stage[t] = "none" /\ sock' = sock
  BY DEF NetInv, N!netaccept, N!Begins
<1>3. NetTyped'
  BY <1>1, <1>2 DEF NetTyped
<1>4. \A g \in Fd, u \in NetClient : Holds(u, g)' <=> Holds(u, g)
  BY <1>1, <1>2 DEF NetTyped, Holds
<1> QED BY <1>2, <1>3, <1>4, HoldersKept DEF NetInv

(* netdial() fails at once, or opens a descriptor and waits.               *)
LEMMA DialKeeps ==
  ASSUME N!NetAssumption, NetInv, NEW t \in NetClient, N!netdial(t)
  PROVE  NetInv'
<1>1. NetTyped /\ stage[t] = "none" /\ Fd \subseteq Nat
  BY DEF NetInv, N!netdial, N!Begins, N!NetAssumption
<1>2. CASE N!Return(t, -1) /\ sock' = sock
  BY <1>1, <1>2, ReturnsNone
<1>3. CASE /\ N!Free # {} /\ N!Enter(t, "dial", N!Lowest(N!Free), "w")
           /\ \E s \in {"connecting", "connected"} :
                sock' = [sock EXCEPT ![N!Lowest(N!Free)] = s]
  <2>1. PICK g \in Fd : g = N!Lowest(N!Free) /\ sock[g] = "free"
    BY <1>1, <1>3, LowestFree
  <2>2. PICK s \in Socket \ {"free"} : sock' = [sock EXCEPT ![g] = s]
    BY <1>3, <2>1 DEF Socket
  <2>3. /\ stage' = [stage EXCEPT ![t] = "dial"] /\ result' = result
        /\ fd' = [fd EXCEPT ![t] = g]
    BY <1>3, <2>1 DEF N!Enter
  <2>4. NetTyped'
    BY <1>1, <2>2, <2>3 DEF NetTyped
  <2>5. \A f \in Fd, u \in NetClient : Holds(u, f)' <=> Holds(u, f) \/ (u = t /\ f = g)
    BY <1>1, <2>3 DEF NetTyped, Holds
  <2>6. sock'[g] # "free" /\ \A f \in Fd \ {g} : sock'[f] = sock[f]
    BY <1>1, <2>2 DEF NetTyped
  <2> QED BY <2>1, <2>4, <2>5, <2>6, HolderComes DEF NetInv
<1> QED BY <1>2, <1>3 DEF N!netdial

(* After the wait of netdial(): connected and returned, or closed.         *)
LEMMA DialReturnKeeps ==
  ASSUME N!NetAssumption, NetInv, NEW t \in NetClient, N!netdialReturns(t)
  PROVE  NetInv'
<1>1. NetTyped /\ stage[t] = "dial" /\ Fd \subseteq Nat
  BY DEF NetInv, N!netdialReturns, N!NetAssumption
<1>2. PICK g \in Fd : g = fd[t]
  BY <1>1 DEF NetTyped
<1>3. CASE N!Return(t, g) /\ sock' = sock
  <2>1. /\ stage' = [stage EXCEPT ![t] = "done"] /\ fd' = fd
        /\ result' = [result EXCEPT ![t] = g]
    BY <1>3 DEF N!Return
  <2>2. NetTyped'
    BY <1>1, <1>3, <2>1 DEF NetTyped
  <2>3. \A f \in Fd, u \in NetClient : Holds(u, f)' <=> Holds(u, f)
    BY <1>1, <1>2, <2>1 DEF NetTyped, Holds
  <2> QED BY <1>3, <2>2, <2>3, HoldersKept DEF NetInv
<1>4. CASE N!Return(t, -1) /\ sock' = [sock EXCEPT ![g] = "free"]
  <2>1. /\ stage' = [stage EXCEPT ![t] = "done"] /\ fd' = fd
        /\ result' = [result EXCEPT ![t] = -1] /\ -1 \notin Fd
    BY <1>1, <1>4 DEF N!Return
  <2>2. NetTyped'
    BY <1>1, <1>4, <2>1 DEF NetTyped, Socket
  <2>3. \A f \in Fd, u \in NetClient : Holds(u, f)' <=> Holds(u, f) /\ ~(u = t /\ f = g)
    BY <1>1, <1>2, <2>1 DEF NetTyped, Holds
  <2>4. Holds(t, g) /\ sock'[g] = "free" /\ \A f \in Fd \ {g} : sock'[f] = sock[f]
    BY <1>1, <1>2, <1>4 DEF NetTyped, Holds
  <2> QED BY <2>2, <2>3, <2>4, HolderGoes DEF NetInv
<1> QED BY <1>2, <1>3, <1>4 DEF N!netdialReturns, N!DialFailed

(* The caller closes the descriptor, if it has got one.                    *)
LEMMA CloseKeeps ==
  ASSUME N!NetAssumption, NetInv, NEW t \in NetClient, N!Closes(t)
  PROVE  NetInv'
<1>1. /\ NetTyped /\ stage[t] = "done" /\ Fd \subseteq Nat /\ -1 \notin Fd
      /\ stage' = [stage EXCEPT ![t] = "none"] /\ fd' = fd
      /\ result' = [result EXCEPT ![t] = -1]
  BY DEF NetInv, N!Closes, N!NetAssumption
<1>2. CASE result[t] >= 0
  <2>1. PICK g \in Fd : g = result[t]
    <3>1. result[t] \in Fd \cup {-1}
      BY <1>1 DEF NetTyped
    <3>2. result[t] # -1
      BY <1>2
    <3> QED BY <3>1, <3>2
  <2>2. sock' = [sock EXCEPT ![g] = "free"]
    BY <1>2, <2>1 DEF N!Closes
  <2>3. NetTyped'
    BY <1>1, <2>2 DEF NetTyped, Socket
  <2>4. \A f \in Fd, u \in NetClient : Holds(u, f)' <=> Holds(u, f) /\ ~(u = t /\ f = g)
    BY <1>1, <2>1 DEF NetTyped, Holds
  <2>5. Holds(t, g) /\ sock'[g] = "free" /\ \A f \in Fd \ {g} : sock'[f] = sock[f]
    BY <1>1, <2>1, <2>2 DEF NetTyped, Holds
  <2> QED BY <2>3, <2>4, <2>5, HolderGoes DEF NetInv
<1>3. CASE ~(result[t] >= 0)
  <2>1. sock' = sock /\ \A f \in Fd : result[t] # f
    BY <1>1, <1>3 DEF N!Closes
  <2>2. NetTyped'
    BY <1>1, <2>1 DEF NetTyped
  <2>3. \A f \in Fd, u \in NetClient : Holds(u, f)' <=> Holds(u, f)
    BY <1>1, <2>1 DEF NetTyped, Holds
  <2> QED BY <2>1, <2>2, <2>3, HoldersKept DEF NetInv
<1> QED BY <1>2, <1>3

(* The calls, the scheduler, the network.                                  *)
LEMMA NetStep ==
  ASSUME N!NetAssumption, NetInv, [N!Next]_N!vars
  PROVE  NetInv'
<1>0. NetTyped /\ OwnInv /\ Fd \subseteq Nat
  BY DEF NetInv, N!NetAssumption
<1>1. ASSUME NEW t \in NetClient, N!netannounce(t) PROVE NetInv'
  <2>1. stage[t] = "none"
    BY <1>1 DEF N!netannounce, N!Begins
  <2>2. CASE N!Return(t, -1) /\ sock' = sock
    BY <1>0, <2>1, <2>2, ReturnsNone
  <2>3. CASE /\ N!Free # {} /\ N!Return(t, N!Lowest(N!Free))
             /\ sock' = [sock EXCEPT ![N!Lowest(N!Free)] = "listening"]
    <3>1. PICK g \in Fd : g = N!Lowest(N!Free) /\ sock[g] = "free"
      BY <1>0, <2>3, LowestFree
    <3>2. "listening" \in Socket \ {"free"}
      BY DEF Socket
    <3> QED BY <1>0, <2>1, <2>3, <3>1, <3>2, ReturnsNew
  <2> QED BY <1>1, <2>2, <2>3 DEF N!netannounce
<1>2. ASSUME NEW t \in NetClient, N!netacceptReturns(t) PROVE NetInv'
  <2>1. stage[t] = "accept"
    BY <1>2 DEF N!netacceptReturns
  <2>2. CASE N!Return(t, -1) /\ sock' = sock
    BY <1>0, <2>1, <2>2, ReturnsNone
  <2>3. CASE /\ N!Free # {} /\ N!Return(t, N!Lowest(N!Free))
             /\ sock' = [sock EXCEPT ![N!Lowest(N!Free)] = "accepted"]
    <3>1. PICK g \in Fd : g = N!Lowest(N!Free) /\ sock[g] = "free"
      BY <1>0, <2>3, LowestFree
    <3>2. "accepted" \in Socket \ {"free"}
      BY DEF Socket
    <3> QED BY <1>0, <2>1, <2>3, <3>1, <3>2, ReturnsNew
  <2> QED BY <1>2, <2>2, <2>3 DEF N!netacceptReturns
<1>3. ASSUME NEW t \in NetClient, N!TaskStep(t) PROVE NetInv'
  BY <1>1, <1>2, <1>3, AcceptKeeps, DialKeeps, DialReturnKeeps, CloseKeeps DEF N!TaskStep
<1>4. ASSUME UNCHANGED <<stage, fd, result>>, sock' \in [Fd -> Socket],
             \A f \in Fd : sock'[f] = "free" <=> sock[f] = "free"
      PROVE  NetInv'
  <2>1. NetTyped'
    BY <1>0, <1>4 DEF NetTyped
  <2>2. \A f \in Fd, u \in NetClient : Holds(u, f)' <=> Holds(u, f)
    BY <1>4 DEF Holds
  <2> QED BY <1>0, <1>4, <2>1, <2>2, HoldersKept DEF NetInv
<1>5. ASSUME UNCHANGED <<stage, fd, result, sock>> PROVE NetInv'
  BY <1>0, <1>4, <1>5 DEF NetTyped
<1>6. ASSUME NEW f \in Fd, sock[f] # "free", NEW s \in Socket \ {"free"},
             sock' = [sock EXCEPT ![f] = s], UNCHANGED <<stage, fd, result>>
      PROVE  NetInv'
  <2>1. sock' \in [Fd -> Socket] /\ \A g \in Fd : sock'[g] = "free" <=> sock[g] = "free"
    BY <1>0, <1>6 DEF NetTyped
  <2> QED BY <1>4, <1>6, <2>1
<1>7. {"connected", "failed"} \subseteq Socket \ {"free"}
  BY DEF Socket
<1>8. ASSUME NEW f \in Fd, N!Decides(f) PROVE NetInv'
  BY <1>6, <1>7, <1>8 DEF N!Decides, N!callVars
<1>9. CASE N!Network
  <2>1. CASE UNCHANGED sock
    BY <1>5, <1>9, <2>1 DEF N!Network, N!callVars
  <2>2. CASE \E f \in Fd : sock[f] = "connected" /\ sock' = [sock EXCEPT ![f] = "failed"]
    BY <1>6, <1>7, <1>9, <2>2 DEF N!Network, N!callVars
  <2> QED BY <1>9, <2>1, <2>2 DEF N!Network
<1>10. ASSUME NEW t \in NetClient, N!Gets(t) \/ N!Gives(t) PROVE NetInv'
  BY <1>5, <1>10 DEF N!Gets, N!Gives, N!callVars
<1>11. CASE N!Poll
  BY <1>5, <1>11 DEF N!Poll, N!callVars
<1>12. CASE UNCHANGED N!vars
  BY <1>5, <1>12 DEF N!vars, N!callVars
<1> QED BY <1>3, <1>8, <1>9, <1>10, <1>11, <1>12 DEF N!Next

(* At first everything is free.                                            *)
LEMMA NetStart == N!Init => NetInv
BY DEF N!Init, NetInv, NetTyped, OwnInv, Holds, Socket

(* NetInv in all behaviours, which the theorems below rest on.             *)
LEMMA NetInvariant ==
  ASSUME N!NetAssumption
  PROVE  N!Spec => []NetInv
<1>1. NetInv /\ [N!Next]_N!vars => NetInv'
  BY NetStep
<1> QED BY <1>1, NetStart, PTL DEF N!Spec

(* No call of net.c leaks or shares a descriptor, however many tasks call  *)
(* it, whichever of its steps fail, and however connects are decided: each *)
(* descriptor in use has exactly one holder.                               *)
THEOREM DescriptorsOwned ==
  ASSUME N!NetAssumption
  PROVE  N!Spec => []NoLeak
<1>0. ASSUME NEW S PROVE N!Cardinality(S) = Cardinality(S)
  BY DEF N!Cardinality, Cardinality
<1>1. ASSUME NetInv PROVE NoLeak
  <2> SUFFICES ASSUME NEW f \in Fd, sock[f] # "free"
               PROVE  Cardinality({t \in N!Open : result[t] = f}
                                   \cup {t \in NetClient : stage[t] = "dial" /\ fd[t] = f}) = 1
    BY <1>0 DEF N!NoLeak, NoLeak
  <2> DEFINE H == {t \in N!Open : result[t] = f}
                    \cup {t \in NetClient : stage[t] = "dial" /\ fd[t] = f}
  <2>1. PICK t \in NetClient : \A u \in NetClient : Holds(u, f) <=> u = t
    BY <1>1 DEF NetInv, OwnInv
  <2>2. f \in Nat
    BY DEF N!NetAssumption
  <2>3. ASSUME NEW u PROVE u \in H <=> u = t
    BY <2>1, <2>2 DEF Holds, N!Open
  <2>4. H = {t}
    <3> HIDE DEF H
    <3> QED BY <2>3
  <2> HIDE DEF H
  <2>5. Cardinality(H) = 1
    BY <2>4, FS_Singleton
  <2> QED BY <2>5 DEF H
<1> QED BY <1>1, NetInvariant, PTL

(* A step in which a netdial() returns a descriptor is the return after    *)
(* its own wait, with its own descriptor, which getpeername() has found    *)
(* connected, however often the network has changed its mind before.       *)
THEOREM DialCorrect ==
  ASSUME N!NetAssumption
  PROVE  N!Spec => DialConnects
<1> DEFINE Connects ==
      \A t \in NetClient : stage[t] = "dial" /\ stage'[t] = "done" /\ result'[t] >= 0 =>
        sock[fd[t]] = "connected" /\ result'[t] = fd[t]
<1>1. ASSUME NetInv, N!Next PROVE Connects
  <2> SUFFICES ASSUME NEW t \in NetClient, stage[t] = "dial", stage'[t] = "done",
                      result'[t] >= 0
               PROVE  sock[fd[t]] = "connected" /\ result'[t] = fd[t]
    OBVIOUS
  <2>0. /\ stage \in [NetClient -> {"none", "accept", "dial", "done"}]
        /\ result \in [NetClient -> Fd \cup {-1}]
    BY <1>1 DEF NetInv, NetTyped
  <2>1. stage' # stage
    OBVIOUS
  <2>2. PICK u \in NetClient : N!TaskStep(u)
    BY <1>1, <2>1 DEF N!Next, N!Gets, N!Gives, N!Poll, N!Decides, N!Network, N!callVars,
                      N!vars
  <2>3. ASSUME stage[u] # "dial", NEW v, stage' = [stage EXCEPT ![u] = v] PROVE FALSE
    BY <2>0, <2>3
  <2>4. N!netdialReturns(u)
    BY <2>2, <2>3 DEF N!TaskStep, N!netannounce, N!netaccept, N!netacceptReturns, N!netdial,
                      N!Closes, N!Begins, N!Return, N!Enter
  <2>5. u = t
    BY <2>0, <2>4 DEF N!netdialReturns, N!Return
  <2>6. CASE N!PeerKnown(fd[t]) /\ N!Return(t, fd[t])
    BY <2>0, <2>6 DEF N!PeerKnown, N!Return
  <2>7. CASE N!Return(t, -1)
    <3>1. result'[t] = -1
      BY <2>0, <2>7 DEF N!Return
    <3> QED BY <3>1
  <2> QED BY <2>4, <2>5, <2>6, <2>7 DEF N!netdialReturns
<1>2. NetInv /\ [N!Next]_N!vars => [Connects]_N!vars
  BY <1>1
<1> QED BY <1>2, NetInvariant, PTL DEF N!Spec, N!DialConnects, DialConnects
-----------------------------------------------------------------------------
(* The prime sieve.                                                        *)

(* What is on its way in the row of tasks has passed all primes so far, is *)
(* larger than those printed, and came in order.                           *)
Sifted(s, q, c) ==
  /\ s \in [0..Stages -> Nat] /\ s[0] >= 2
  /\ \A k \in 1..Stages : s[k] # 0 => k < c /\ \A j \in 1..k : s[k] % q[j] # 0
  /\ \A k \in 0..Stages : s[k] # 0 => \A j \in 1..Len(q) : q[j] < s[k]
  /\ \A k, h \in 0..Stages : k < h /\ s[k] # 0 /\ s[h] # 0 => s[h] < s[k]

(* What has been printed are the first primes.                             *)
Listed(q) ==
  /\ q \in Seq(Nat)
  /\ \A j \in 1..Len(q) : Sieve!IsPrime(q[j])
  /\ \A j \in 1..Len(q) : \A n \in 2..(q[j] - 1) : Sieve!IsPrime(n) =>
       \E h \in 1..(j - 1) : q[h] = n

(* A number that taskmain() has sent is printed, on its way, or divided by *)
(* one that is printed.                                                    *)
Known(s, q, n) ==
  \/ \E j \in 1..Len(q) : q[j] = n
  \/ \E k \in 1..Stages : s[k] = n
  \/ \E j \in 1..Len(q) : q[j] < n /\ n % q[j] = 0

AllKnown(s, q) == \A n \in 2..(s[0] - 1) : Known(s, q, n)

Complete(q) == \A n \in 2..goal : Sieve!IsPrime(n) => \E j \in 1..Len(q) : q[j] = n

RowInv ==
  /\ prime \in [1..Stages -> Nat] /\ created = Len(printed) + 1
  /\ \A k \in 1..Stages : prime[k] = IF k < created THEN printed[k] ELSE 0
  /\ Listed(printed)
  /\ ~ended => Sifted(sending, printed, created) /\ AllKnown(sending, printed)
  /\ ended => Complete(printed)

(* What is on its way after the send of stage k has returned, and a turn   *)
(* of stage k + 1, which has received the number i.                        *)
Sent(s, k) == [s EXCEPT ![k] = IF k = 0 THEN s[k] + 1 ELSE 0]

Turn(s, q, c, k, i, r) ==
  /\ Stages \in Nat /\ k \in 0..(Stages - 1) /\ q \in Seq(Nat) /\ c \in Nat
  /\ Sifted(s, q, c) /\ i = s[k] /\ i # 0 /\ r = Sent(s, k)

(* i is the next prime after those in q.                                   *)
NextPrime(i, q) ==
  /\ Sieve!IsPrime(i)
  /\ \A n \in 2..(i - 1) : Sieve!IsPrime(n) => \E j \in 1..Len(q) : q[j] = n

(* A divisor of a divisor is one.                                          *)
LEMMA DividesOn ==
  ASSUME NEW n \in Nat, NEW d \in Nat \ {0}, NEW e \in Nat \ {0}, n % d = 0, d % e = 0
  PROVE  n % e = 0
<1>1. PICK x \in Nat : n = d * x
  <2>1. n \div d \in Nat /\ n = d * (n \div d)
    OBVIOUS
  <2> QED BY <2>1
<1>2. PICK y \in Nat : d = e * y
  <2>1. d \div e \in Nat /\ d = e * (d \div e)
    OBVIOUS
  <2> QED BY <2>1
<1>3. PICK z \in Nat : z = y * x
  OBVIOUS
<1>4. n = e * z
  <2>1. (e * y) * x = e * (y * x)
    OBVIOUS
  <2> QED BY <1>1, <1>2, <1>3, <2>1
<1>5. (e * z) % e = 0
  BY MultipleOf
<1> QED BY <1>4, <1>5

(* The least divisor of a number is a prime.                               *)
LEMMA PrimeDivisor ==
  ASSUME NEW n \in Nat, n >= 2
  PROVE  \E d \in 2..n : Sieve!IsPrime(d) /\ n % d = 0
<1> DEFINE K == {d \in 2..n : n % d = 0}
<1>1. K \subseteq 0..n /\ n \in K
  <2>1. PICK x \in Nat : x = 1
    OBVIOUS
  <2>2. (n * x) % n = 0
    BY MultipleOf
  <2>3. n * x = n
    BY <2>1
  <2>4. n \in K
    BY <2>2, <2>3
  <2> QED BY <2>4
<1>2. PICK d \in K : \A j \in 0..(d - 1) : j \notin K
  <2> HIDE DEF K
  <2> QED BY <1>1, LeastOf
<1>3. d \in 2..n /\ n % d = 0
  BY <1>2
<1>4. ASSUME NEW e \in 2..(d - 1) PROVE d % e # 0
  <2> SUFFICES ASSUME d % e = 0 PROVE FALSE
    OBVIOUS
  <2>1. d \in Nat \ {0} /\ e \in Nat \ {0}
    BY <1>3
  <2>2. n % e = 0
    BY <1>3, <2>1, DividesOn
  <2>3. e \in K /\ e \in 0..(d - 1)
    BY <1>3, <2>2
  <2> QED BY <1>2, <2>3
<1> HIDE DEF K
<1>5. Sieve!IsPrime(d)
  <2>1. d > 1
    BY <1>3
  <2> QED BY <1>4, <2>1 DEF Sieve!IsPrime
<1> QED BY <1>3, <1>5

(* The first number that the last primetask() gets is the next prime.      *)
LEMMA NextIsPrime ==
  ASSUME NEW s, NEW q, NEW c, NEW k, NEW i, NEW r, Turn(s, q, c, k, i, r),
         Listed(q), AllKnown(s, q), c = Len(q) + 1, c = k + 1
  PROVE  NextPrime(i, q)
<1>0. /\ Stages \in Nat /\ k \in 0..(Stages - 1) /\ Sifted(s, q, c) /\ i = s[k] /\ i # 0
  BY DEF Turn
<1>1. /\ i \in Nat /\ Len(q) = k /\ q \in Seq(Nat) /\ s[0] \in Nat /\ s[0] >= 2 /\ s[0] # 0
      /\ \A h \in 1..Stages : s[h] \in Nat
  BY <1>0 DEF Sifted, Listed
<1>2. i <= s[0] /\ i >= 2
  <2>1. CASE k = 0
    BY <1>0, <1>1, <2>1
  <2>2. CASE k # 0
    <3>1. s[k] < s[0]
      BY <1>0, <1>1, <2>2 DEF Sifted
    <3>2. i >= 2
      <4>1. 1 \in 1..Len(q)
        BY <1>0, <1>1, <2>2
      <4>2. q[1] < i /\ q[1] \in Nat /\ q[1] > 1
        BY <1>0, <1>1, <4>1 DEF Sifted, Listed, Sieve!IsPrime
      <4> QED BY <1>1, <4>2
    <3> QED BY <1>0, <1>1, <3>1, <3>2
  <2> QED BY <2>1, <2>2
<1>3. ASSUME NEW n \in 2..(i - 1), Sieve!IsPrime(n) PROVE \E j \in 1..Len(q) : q[j] = n
  <2>1. Known(s, q, n)
    BY <1>1, <1>2 DEF AllKnown
  <2>2. ASSUME NEW h \in 1..Stages, s[h] = n PROVE FALSE
    <3>1. h < c /\ s[h] # 0
      BY <1>0, <1>1, <2>2 DEF Sifted
    <3>2. h # k
      BY <1>0, <1>1, <2>2
    <3>3. h < k /\ h \in 0..Stages /\ k \in 0..Stages
      BY <1>0, <3>1, <3>2
    <3>4. s[k] < s[h]
      BY <1>0, <3>1, <3>3 DEF Sifted
    <3> QED BY <1>0, <1>1, <2>2, <3>4
  <2>3. ASSUME NEW j \in 1..Len(q), q[j] < n, n % q[j] = 0 PROVE FALSE
    <3>1. q[j] \in Nat /\ q[j] > 1
      BY <1>1 DEF Listed, Sieve!IsPrime
    <3>2. q[j] \in 2..(n - 1)
      BY <2>3, <3>1
    <3> QED BY <1>3, <2>3, <3>2 DEF Sieve!IsPrime
  <2> QED BY <2>1, <2>2, <2>3 DEF Known
<1>4. Sieve!IsPrime(i)
  <2>1. PICK d \in 2..i : Sieve!IsPrime(d) /\ i % d = 0
    BY <1>1, <1>2, PrimeDivisor
  <2>2. ASSUME d # i PROVE FALSE
    <3>1. d \in 2..(i - 1)
      BY <1>1, <2>2
    <3>2. PICK j \in 1..Len(q) : q[j] = d
      BY <1>3, <2>1, <3>1
    <3>3. k \in 1..Stages /\ j \in 1..k
      BY <1>0, <1>1
    <3>4. s[k] % q[j] # 0
      BY <1>0, <3>3 DEF Sifted
    <3> QED BY <1>0, <2>1, <3>2, <3>4
  <2> QED BY <2>1, <2>2
<1> QED BY <1>3, <1>4 DEF NextPrime

(* Stage k + 1 has received the number: the others are as they were.       *)
LEMMA SentIs ==
  ASSUME NEW s, NEW q, NEW c, NEW k, NEW i, NEW r, Turn(s, q, c, k, i, r)
  PROVE  /\ r \in [0..Stages -> Nat] /\ r[0] >= 2 /\ i \in Nat
         /\ r[k] = IF k = 0 THEN i + 1 ELSE 0
         /\ \A h \in (0..Stages) \ {k} : r[h] = s[h]
BY DEF Turn, Sifted, Sent

(* A number that is not passed on is dropped.                              *)
LEMMA DroppedSifted ==
  ASSUME NEW s, NEW q, NEW c, NEW k, NEW i, NEW r, Turn(s, q, c, k, i, r)
  PROVE  Sifted(r, q, c)
<1>0. /\ Stages \in Nat /\ k \in 0..(Stages - 1) /\ q \in Seq(Nat) /\ c \in Nat
      /\ Sifted(s, q, c) /\ i = s[k] /\ i # 0
  BY DEF Turn
<1>1. /\ r \in [0..Stages -> Nat] /\ r[0] >= 2 /\ i \in Nat
      /\ r[k] = IF k = 0 THEN i + 1 ELSE 0
      /\ \A h \in (0..Stages) \ {k} : r[h] = s[h]
  BY SentIs
<1>2. ASSUME NEW h \in 1..Stages, r[h] # 0 PROVE h # k /\ r[h] = s[h]
  BY <1>0, <1>1, <1>2
<1>3. \A h \in 1..Stages : r[h] # 0 => h < c /\ \A j \in 1..h : r[h] % q[j] # 0
  BY <1>0, <1>2 DEF Sifted
<1>4. ASSUME NEW h \in 0..Stages, r[h] # 0, NEW j \in 1..Len(q) PROVE q[j] < r[h]
  <2>1. q[j] \in Nat /\ (s[h] # 0 => q[j] < s[h])
    BY <1>0 DEF Sifted
  <2>2. CASE h = k
    <3>1. k = 0 /\ r[h] = i + 1 /\ q[j] < i
      BY <1>0, <1>1, <1>4, <2>1, <2>2
    <3> QED BY <1>0, <1>1, <2>1, <3>1
  <2> QED BY <1>0, <1>1, <1>4, <2>1, <2>2
<1>5. ASSUME NEW g \in 0..Stages, NEW h \in 0..Stages, g < h, r[g] # 0, r[h] # 0
      PROVE  r[h] < r[g]
  <2>1. h # k /\ r[h] = s[h] /\ s[h] \in Nat /\ s[h] # 0
    <3>1. h \in 1..Stages
      BY <1>0, <1>5
    <3> QED BY <1>0, <1>2, <1>5, <3>1 DEF Sifted
  <2>2. CASE g = k
    <3>1. s[h] < i
      BY <1>0, <1>5, <2>1, <2>2 DEF Sifted
    <3>2. r[g] = i + 1
      BY <1>0, <1>1, <1>5, <2>2
    <3> QED BY <1>0, <1>1, <2>1, <3>1, <3>2
  <2>3. CASE g # k
    <3>1. r[g] = s[g]
      BY <1>0, <1>1, <2>3
    <3> QED BY <1>0, <1>5, <2>1, <3>1 DEF Sifted
  <2> QED BY <1>0, <2>2, <2>3
<1> QED BY <1>0, <1>1, <1>3, <1>4, <1>5 DEF Sifted

(* A number that is passed on is not divided by one prime more.            *)
LEMMA PassedSifted ==
  ASSUME NEW s, NEW q, NEW c, NEW k, NEW i, NEW r, Turn(s, q, c, k, i, r),
         s[k + 1] = 0, k + 1 < c, i % q[k + 1] # 0, NEW r2, r2 = [r EXCEPT ![k + 1] = i]
  PROVE  Sifted(r2, q, c)
<1>0. /\ Stages \in Nat /\ k \in 0..(Stages - 1) /\ q \in Seq(Nat) /\ c \in Nat
      /\ Sifted(s, q, c) /\ i = s[k] /\ i # 0
  BY DEF Turn
<1>1. /\ r \in [0..Stages -> Nat] /\ r[0] >= 2 /\ i \in Nat
      /\ r[k] = IF k = 0 THEN i + 1 ELSE 0
      /\ \A h \in (0..Stages) \ {k} : r[h] = s[h]
  BY SentIs
<1>2. Sifted(r, q, c)
  BY DroppedSifted
<1>3. /\ r2 \in [0..Stages -> Nat] /\ r2[0] >= 2 /\ r2[k + 1] = i
      /\ \A h \in (0..Stages) \ {k + 1} : r2[h] = r[h]
      /\ k + 1 \in 1..Stages
  BY <1>0, <1>1
<1>4. ASSUME NEW h \in 1..Stages, r2[h] # 0
      PROVE  h < c /\ \A j \in 1..h : r2[h] % q[j] # 0
  <2>1. CASE h = k + 1
    <3>1. ASSUME NEW j \in 1..k PROVE i % q[j] # 0
      <4>1. k \in 1..Stages
        BY <1>0, <3>1
      <4> QED BY <1>0, <4>1 DEF Sifted
    <3> QED BY <1>0, <1>3, <2>1, <3>1
  <2>2. CASE h # k + 1
    <3>1. r2[h] = r[h]
      BY <1>0, <1>3, <2>2
    <3> QED BY <1>0, <1>2, <1>4, <3>1 DEF Sifted
  <2> QED BY <1>0, <2>1, <2>2
<1>5. \A h \in 0..Stages : r2[h] # 0 => \A j \in 1..Len(q) : q[j] < r2[h]
  <2>1. \A j \in 1..Len(q) : q[j] < i
    BY <1>0 DEF Sifted
  <2> QED BY <1>0, <1>2, <1>3, <2>1 DEF Sifted
<1>6. ASSUME NEW g \in 0..Stages, NEW h \in 0..Stages, g < h, r2[g] # 0, r2[h] # 0
      PROVE  r2[h] < r2[g]
  <2>1. CASE g = k + 1
    <3>1. h # k /\ h # k + 1 /\ k < h
      BY <1>0, <1>6, <2>1
    <3>2. r2[h] = s[h] /\ s[h] # 0
      BY <1>0, <1>1, <1>3, <1>6, <3>1
    <3>3. s[h] < s[k]
      BY <1>0, <3>1, <3>2 DEF Sifted
    <3> QED BY <1>0, <1>3, <2>1, <3>2, <3>3
  <2>2. CASE h = k + 1
    <3>1. CASE g = k
      <4>1. r2[g] = i + 1
        <5>1. r2[g] = r[g]
          BY <1>0, <1>3, <2>2, <3>1
        <5> QED BY <1>0, <1>1, <1>6, <3>1, <5>1
      <4> QED BY <1>0, <1>1, <1>3, <2>2, <4>1
    <3>2. CASE g # k
      <4>1. g < k /\ g # k + 1
        BY <1>0, <1>6, <2>2, <3>2
      <4>2. r2[g] = s[g] /\ s[g] # 0
        BY <1>1, <1>3, <1>6, <3>2, <4>1
      <4>3. s[k] < s[g]
        BY <1>0, <4>1, <4>2 DEF Sifted
      <4> QED BY <1>0, <1>3, <2>2, <4>2, <4>3
    <3> QED BY <1>0, <3>1, <3>2
  <2>3. CASE g # k + 1 /\ h # k + 1
    <3>1. r2[g] = r[g] /\ r2[h] = r[h]
      BY <1>0, <1>3, <2>3
    <3> QED BY <1>0, <1>2, <1>6, <3>1 DEF Sifted
  <2> QED BY <1>0, <2>1, <2>2, <2>3
<1> QED BY <1>0, <1>3, <1>4, <1>5, <1>6 DEF Sifted

(* A number that is printed divides none of those on their way.            *)
LEMMA FoundSifted ==
  ASSUME NEW s, NEW q, NEW c, NEW k, NEW i, NEW r, Turn(s, q, c, k, i, r),
         c = Len(q) + 1, c = k + 1, NEW q2, q2 = Append(q, i)
  PROVE  Sifted(r, q2, c + 1)
<1>0. /\ Stages \in Nat /\ k \in 0..(Stages - 1) /\ q \in Seq(Nat) /\ c \in Nat
      /\ Sifted(s, q, c) /\ i = s[k] /\ i # 0
  BY DEF Turn
<1>1. /\ r \in [0..Stages -> Nat] /\ r[0] >= 2 /\ i \in Nat
      /\ r[k] = IF k = 0 THEN i + 1 ELSE 0
      /\ \A h \in (0..Stages) \ {k} : r[h] = s[h]
  BY SentIs
<1>2. Sifted(r, q, c)
  BY DroppedSifted
<1>3. /\ q2 \in Seq(Nat) /\ Len(q2) = k + 1 /\ q2[k + 1] = i /\ Len(q) = k
      /\ \A j \in 1..k : q2[j] = q[j]
  BY <1>0, <1>1
<1>4. ASSUME NEW h \in 1..Stages, r[h] # 0
      PROVE  h < c + 1 /\ \A j \in 1..h : r[h] % q2[j] # 0
  <2>1. h < c /\ \A j \in 1..h : r[h] % q[j] # 0
    BY <1>0, <1>2, <1>4 DEF Sifted
  <2> QED BY <1>0, <1>3, <2>1
<1>5. ASSUME NEW h \in 0..Stages, r[h] # 0, NEW j \in 1..(k + 1) PROVE q2[j] < r[h]
  <2>1. CASE j \in 1..k
    BY <1>0, <1>2, <1>3, <1>5, <2>1 DEF Sifted
  <2>2. CASE j = k + 1
    <3>1. CASE h = k
      <4>1. k = 0 /\ r[h] = i + 1 /\ q2[j] = i
        BY <1>0, <1>1, <1>3, <1>5, <2>2, <3>1
      <4> QED BY <1>0, <1>1, <4>1
    <3>2. CASE h # k
      <4>1. r[h] = s[h] /\ s[h] # 0
        BY <1>0, <1>1, <1>5, <3>2
      <4>2. h < k
        <5>1. h \in 1..Stages => h < c
          BY <1>0, <1>2, <1>5 DEF Sifted
        <5> QED BY <1>0, <3>2, <5>1
      <4>3. s[k] < s[h]
        BY <1>0, <4>1, <4>2 DEF Sifted
      <4> QED BY <1>0, <1>3, <2>2, <4>1, <4>3
    <3> QED BY <1>0, <3>1, <3>2
  <2> QED BY <1>0, <2>1, <2>2
<1> QED BY <1>0, <1>1, <1>2, <1>3, <1>4, <1>5 DEF Sifted

(* What is known of the numbers sent stays known, and the next one is.     *)
LEMMA StaysKnown ==
  ASSUME NEW s, NEW q, NEW c, NEW k, NEW i, NEW r, Turn(s, q, c, k, i, r), AllKnown(s, q),
         NEW q2, q2 \in Seq(Nat), Len(q) <= Len(q2), \A j \in 1..Len(q) : q2[j] = q[j],
         NEW r2, r2[0] = r[0], \A h \in 1..Stages : r[h] # 0 => r2[h] = r[h],
         Known(r2, q2, i)
  PROVE  AllKnown(r2, q2)
<1>1. /\ r \in [0..Stages -> Nat] /\ r[0] >= 2 /\ i \in Nat
      /\ r[k] = IF k = 0 THEN i + 1 ELSE 0
      /\ \A h \in (0..Stages) \ {k} : r[h] = s[h]
  BY SentIs
<1>0. /\ Stages \in Nat /\ k \in 0..(Stages - 1) /\ q \in Seq(Nat) /\ c \in Nat
      /\ Sifted(s, q, c) /\ i = s[k] /\ i # 0
  BY DEF Turn
<1>2. s[0] \in Nat /\ Len(q) \in Nat /\ Len(q2) \in Nat
  BY <1>0 DEF Sifted
<1> SUFFICES ASSUME NEW n \in 2..(r2[0] - 1), n # i PROVE Known(r2, q2, n)
  BY <1>0 DEF AllKnown
<1>3. n \in 2..(s[0] - 1)
  <2>1. CASE k = 0
    BY <1>0, <1>1, <2>1
  <2>2. CASE k # 0
    BY <1>0, <1>1, <2>2
  <2> QED BY <1>0, <2>1, <2>2
<1>4. Known(s, q, n)
  BY <1>0, <1>3 DEF AllKnown
<1>5. \A j \in 1..Len(q) : j \in 1..Len(q2)
  BY <1>0, <1>2
<1>6. ASSUME NEW h \in 1..Stages, s[h] = n PROVE r2[h] = n
  <2>1. h # k
    BY <1>0, <1>6
  <2>2. r[h] = n /\ r[h] # 0
    BY <1>0, <1>1, <1>6, <2>1
  <2> QED BY <1>0, <2>2
<1> QED BY <1>0, <1>4, <1>5, <1>6 DEF Known

(* A stage has got a number and looks at it.                               *)
LEMMA TransferKeeps ==
  ASSUME Sieve!PrimesAssumption, RowInv, NEW k \in 0..(Stages - 1), Sieve!Transfer(k)
  PROVE  RowInv'
<1>0. PICK i, r : i = sending[k] /\ r = Sent(sending, k)
  OBVIOUS
<1>1. /\ ~ended /\ i # 0 /\ k + 1 <= created /\ sending[k + 1] = 0
      /\ Sieve!Gets(k + 1, i, r)
  BY <1>0 DEF Sieve!Transfer, Sieve!Receiving, Sieve!AfterSend, Sent
<1>2. /\ Stages \in Nat /\ goal \in Nat /\ k + 1 \in 1..Stages
      /\ printed \in Seq(Nat) /\ Len(printed) \in Nat /\ created = Len(printed) + 1
  BY DEF Sieve!PrimesAssumption, RowInv, Listed
<1>3. Sifted(sending, printed, created) /\ AllKnown(sending, printed) /\ Listed(printed)
  BY <1>1 DEF RowInv
<1>4. Turn(sending, printed, created, k, i, r)
  BY <1>0, <1>1, <1>2, <1>3 DEF Turn
<1>5. Sifted(r, printed, created)
  BY <1>4, DroppedSifted
<1>6. /\ r \in [0..Stages -> Nat] /\ i \in Nat
  BY <1>4, SentIs
<1>7. CASE prime[k + 1] # 0
  <2>1. k + 1 < created /\ prime[k + 1] = printed[k + 1] /\ k + 1 \in 1..Len(printed)
    BY <1>2, <1>7 DEF RowInv
  <2>2. /\ sending' = IF i % printed[k + 1] # 0 THEN [r EXCEPT ![k + 1] = i] ELSE r
        /\ prime' = prime /\ created' = created /\ printed' = printed /\ ended' = ended
    BY <1>1, <1>7, <2>1 DEF Sieve!Gets, Sieve!Passes
  <2>3. printed[k + 1] < i /\ k \in 0..Stages
    BY <1>0, <1>1, <1>2, <1>3, <2>1 DEF Sifted
  <2>4. Sifted(sending', printed, created)
    <3>1. CASE i % printed[k + 1] # 0
      <4>1. sending' = [r EXCEPT ![k + 1] = i]
        BY <2>2, <3>1
      <4> QED BY <1>1, <1>4, <2>1, <3>1, <4>1, PassedSifted
    <3>2. CASE i % printed[k + 1] = 0
      BY <1>5, <2>2, <3>2
    <3> QED BY <3>1, <3>2
  <2>5. Known(sending', printed, i)
    <3>1. CASE i % printed[k + 1] # 0
      <4>1. sending'[k + 1] = i
        BY <1>2, <1>6, <2>2, <3>1
      <4> QED BY <1>2, <4>1 DEF Known
    <3>2. CASE i % printed[k + 1] = 0
      BY <2>1, <2>3, <3>2 DEF Known
    <3> QED BY <3>1, <3>2
  <2>6. sending'[0] = r[0] /\ \A h \in 1..Stages : r[h] # 0 => sending'[h] = r[h]
    <3>1. r[k + 1] = 0
      BY <1>1, <1>2, <1>4, SentIs
    <3> QED BY <1>2, <1>6, <2>2, <3>1
  <2>7. AllKnown(sending', printed)
    <3>1. Len(printed) <= Len(printed)
      BY <1>2
    <3> QED BY <1>2, <1>3, <1>4, <2>5, <2>6, <3>1, StaysKnown
  <2> QED BY <1>1, <2>2, <2>4, <2>7 DEF RowInv
<1>8. CASE prime[k + 1] = 0
  <2>1. created = k + 1
    <3>1. k + 1 < created => prime[k + 1] = printed[k + 1] /\ k + 1 \in 1..Len(printed)
      BY <1>2 DEF RowInv
    <3>2. \A j \in 1..Len(printed) : printed[j] # 0
      BY <1>3 DEF Listed, Sieve!IsPrime
    <3> QED BY <1>1, <1>2, <1>8, <3>1, <3>2
  <2>2. NextPrime(i, printed)
    BY <1>2, <1>3, <1>4, <2>1, NextIsPrime
  <2>3. CASE i > goal
    <3>1. /\ ended' = TRUE /\ sending' = r
          /\ prime' = prime /\ created' = created /\ printed' = printed
      BY <1>1, <1>8, <2>3 DEF Sieve!Gets, Sieve!Exceeds
    <3>2. Complete(printed)
      BY <1>2, <1>6, <2>2, <2>3 DEF Complete, NextPrime
    <3> QED BY <3>1, <3>2 DEF RowInv
  <2>4. CASE ~(i > goal)
    <3>1. /\ prime' = [prime EXCEPT ![k + 1] = i] /\ printed' = Append(printed, i)
          /\ created' = created + 1 /\ sending' = r /\ ended' = ended
      BY <1>1, <1>8, <2>4 DEF Sieve!Gets, Sieve!Exceeds
    <3>2. PICK q : q = Append(printed, i)
      OBVIOUS
    <3>3. /\ q \in Seq(Nat) /\ Len(q) = k + 1 /\ Len(printed) = k /\ q[k + 1] = i
          /\ \A j \in 1..k : q[j] = printed[j]
      BY <1>2, <1>6, <2>1, <3>2
    <3>4. Sifted(r, q, created + 1)
      BY <1>2, <1>4, <2>1, <3>2, FoundSifted
    <3>5. AllKnown(r, q)
      <4>1. Known(r, q, i)
        BY <3>3 DEF Known
      <4>2. Len(printed) <= Len(q) /\ \A j \in 1..Len(printed) : q[j] = printed[j]
        BY <3>3
      <4>3. r[0] = r[0] /\ \A h \in 1..Stages : r[h] # 0 => r[h] = r[h]
        OBVIOUS
      <4> QED BY <1>3, <1>4, <3>3, <4>1, <4>2, <4>3, StaysKnown
    <3>6. Listed(q)
      <4>1. ASSUME NEW j \in 1..(k + 1)
            PROVE  /\ Sieve!IsPrime(q[j])
                   /\ \A n \in 2..(q[j] - 1) : Sieve!IsPrime(n) =>
                        \E h \in 1..(j - 1) : q[h] = n
        <5>1. CASE j \in 1..k
          <6>1. q[j] = printed[j] /\ \A h \in 1..(j - 1) : q[h] = printed[h]
            BY <3>3, <5>1
          <6> QED BY <1>3, <3>3, <5>1, <6>1 DEF Listed
        <5>2. CASE j = k + 1
          <6>1. q[j] = i /\ j - 1 = k
            BY <3>3, <5>2
          <6> QED BY <2>2, <3>3, <6>1 DEF NextPrime
        <5> QED BY <5>1, <5>2
      <4> QED BY <3>3, <4>1 DEF Listed
    <3>7. \A h \in 1..Stages : prime'[h] = IF h < created + 1 THEN q[h] ELSE 0
      <4>1. /\ prime \in [1..Stages -> Nat]
            /\ \A h \in 1..Stages : prime[h] = IF h < created THEN printed[h] ELSE 0
        BY DEF RowInv
      <4> QED BY <1>2, <2>1, <3>1, <3>3, <4>1
    <3>8. prime' \in [1..Stages -> Nat]
      BY <1>2, <1>6, <3>1 DEF RowInv
    <3>9. created' = Len(q) + 1
      BY <2>1, <3>1, <3>3
    <3> QED BY <1>1, <3>1, <3>2, <3>4, <3>5, <3>6, <3>7, <3>8, <3>9 DEF RowInv
  <2> QED BY <2>3, <2>4
<1> QED BY <1>7, <1>8

(* taskmain() is about to send 2.                                          *)
LEMMA RowStart ==
  ASSUME Sieve!PrimesAssumption, Sieve!Init
  PROVE  RowInv
<1>1. /\ prime = [k \in 1..Stages |-> 0] /\ created = 1
      /\ sending = [k \in 0..Stages |-> IF k = 0 THEN 2 ELSE 0]
      /\ printed = <<>> /\ ~ended /\ Stages \in Nat
  BY DEF Sieve!Init, Sieve!Stage, Sieve!PrimesAssumption
<1>2. Len(printed) = 0 /\ printed \in Seq(Nat)
  BY <1>1
<1>3. /\ sending \in [0..Stages -> Nat] /\ sending[0] = 2
      /\ \A k \in 1..Stages : sending[k] = 0
  BY <1>1
<1>4. Sifted(sending, printed, created)
  BY <1>2, <1>3 DEF Sifted
<1>5. AllKnown(sending, printed)
  BY <1>3 DEF AllKnown
<1>6. Listed(printed)
  BY <1>2 DEF Listed
<1> QED BY <1>1, <1>2, <1>4, <1>5, <1>6 DEF RowInv

(* primes.c prints exactly the primes up to any goal, in order: however    *)
(* far the stages run ahead of one another, the number that the last one   *)
(* gets first has no divisor that an earlier one has not seen.             *)
THEOREM SieveCorrect ==
  ASSUME Sieve!PrimesAssumption
  PROVE  Sieve!Spec => []SieveInv
<1>1. Sieve!Init => RowInv
  BY RowStart
<1>2. RowInv /\ [Sieve!Next]_(Sieve!vars) => RowInv'
  <2> SUFFICES ASSUME RowInv, [Sieve!Next]_(Sieve!vars) PROVE RowInv'
    OBVIOUS
  <2>1. ASSUME NEW k \in 0..(Stages - 1), Sieve!Transfer(k) PROVE RowInv'
    BY <2>1, TransferKeeps
  <2>2. CASE UNCHANGED Sieve!vars
    BY <2>2 DEF Sieve!vars, RowInv
  <2> QED BY <2>1, <2>2 DEF Sieve!Next
<1>3. RowInv => SieveInv
  <2> SUFFICES ASSUME RowInv PROVE SieveInv
    OBVIOUS
  <2>1. printed \in Seq(Nat) /\ DOMAIN printed = 1..Len(printed) /\ Listed(printed)
    BY LenProperties DEF RowInv, Listed
  <2> QED BY <2>1 DEF SieveInv, Sieve!SieveInv, RowInv, Listed, Complete
<1> QED BY <1>1, <1>2, <1>3, PTL DEF Sieve!Spec

-----------------------------------------------------------------------------
(* The proxy *)

Place == {"start", "accept", "none", "dial", "dialling", "read", "write", "finish",
          "exited"}

CopyTyped ==
  /\ queue \subseteq Copy!Tasks /\ task \in Copy!Tasks \cup {None}
  /\ waits \in [Copy!Tasks -> Copy!Io \cup {None}]
  /\ at \in [Copy!Tasks -> Place]
  /\ rw \in [Conn -> [Copy!Side -> ProxyFd \cup {0}]]
  /\ file \in [ProxyFd -> Copy!Sock \cup {None}]
  /\ got \in [Copy!Sock -> SUBSET Conn] /\ backlog \subseteq Conn

(* How far the tasks of a connection have got: proxytask() returns when it *)
(* has created both copying tasks, or none.                                *)
Course(k) ==
  /\ k \in backlog => at[Copy!Px(k)] = "none"
  /\ at[Copy!Px(k)] \in {"none", "dial", "dialling", "exited"}
  /\ \A d \in Copy!Side : at[Copy!Rw(k, d)] \in {"none", "read", "write", "finish", "exited"}
  /\ \A d, e \in Copy!Side : at[Copy!Rw(k, d)] = "none" => at[Copy!Rw(k, e)] = "none"
  /\ \A d \in Copy!Side : at[Copy!Px(k)] # "exited" => at[Copy!Rw(k, d)] = "none"
  /\ \A d, e \in Copy!Side : at[Copy!Rw(k, d)] # "none" => rw[k][e] \in ProxyFd

(* A task of k will close the descriptor of side d.                        *)
Kept(k, d) ==
  \/ d = "client" /\ at[Copy!Px(k)] = "dial"
  \/ at[Copy!Px(k)] = "dialling"
  \/ Copy!Copying(k, d)

(* The open descriptors are the kept ones.                                 *)
KeptOpen ==
  \A k \in Conn, d \in Copy!Side : Kept(k, d) =>
    rw[k][d] \in ProxyFd /\ file[rw[k][d]] = <<k, d>>

OpenKept ==
  \A f \in ProxyFd : file[f] # None =>
    \E k \in Conn, d \in Copy!Side : file[f] = <<k, d>> /\ Kept(k, d) /\ rw[k][d] = f

(* A task that has not exited is ready, runs, or waits for its descriptor. *)
Alert(t) == t \in queue \/ t = task

PxWatches(k) ==
  /\ at[Copy!Px(k)] = "dial" => Alert(Copy!Px(k))
  /\ at[Copy!Px(k)] = "dialling" =>
       Alert(Copy!Px(k)) \/ waits[Copy!Px(k)] = <<rw[k]["server"], "w">>

RwWatches(k, d) ==
  /\ at[Copy!Rw(k, d)] \in {"write", "finish"} => Alert(Copy!Rw(k, d))
  /\ at[Copy!Rw(k, d)] = "read" =>
       Alert(Copy!Rw(k, d)) \/ waits[Copy!Rw(k, d)] = <<rw[k][d], "r">>

Watching ==
  \A k \in Conn : PxWatches(k) /\ \A d \in Copy!Side : RwWatches(k, d)

(* Bytes that go to another connection.                                    *)
Astray ==
  \A s \in Copy!Sock : \A k \in got[s] \ {s[1]} :
    \E d \in Copy!Side : at[Copy!Rw(k, d)] = "exited"

Courses == \A k \in Conn : Course(k)

CopyInv == CopyTyped /\ Courses /\ KeptOpen /\ OpenKept /\ Watching /\ Astray

(* The tasks of the proxy are different ones.                              *)
LEMMA ProxyTasks ==
  /\ Copy!Main \in Copy!Tasks
  /\ \A k \in Conn : Copy!Px(k) \in Copy!Tasks /\ Copy!Px(k) # Copy!Main
  /\ \A k \in Conn, d \in Copy!Side :
       Copy!Rw(k, d) \in Copy!Tasks /\ Copy!Rw(k, d) # Copy!Main
  /\ \A k, j \in Conn : Copy!Px(k) = Copy!Px(j) => k = j
  /\ \A k, j \in Conn, d \in Copy!Side : Copy!Px(k) # Copy!Rw(j, d)
  /\ \A k, j \in Conn, d, e \in Copy!Side : Copy!Rw(k, d) = Copy!Rw(j, e) => k = j /\ d = e
  /\ Copy!Side = {"client", "server"}
BY DEF Copy!Tasks, Copy!RwTasks, Copy!Main, Copy!Px, Copy!Rw, Copy!Side

(* The descriptor that the kernel gives away is a free one.                *)
LEMMA LowestProxyFd ==
  ASSUME Copy!ProxyAssumption, CopyTyped, Copy!Free # {}
  PROVE  Copy!Lowest(Copy!Free) \in ProxyFd /\ file[Copy!Lowest(Copy!Free)] = None
<1>1. Copy!Free \subseteq ProxyFd /\ ProxyFd \subseteq Nat /\ \A f \in Copy!Free : file[f] = None
  BY DEF Copy!Free, Copy!ProxyAssumption
<1>2. \E c \in Copy!Free : \A g \in Copy!Free : c <= g
  BY <1>1, LeastIn
<1>3. Copy!Lowest(Copy!Free) \in Copy!Free
  BY <1>2 DEF Copy!Lowest
<1> QED BY <1>1, <1>3

(* What the invariant says of the properties.                              *)
LEMMA CopyInvImplies ==
  ASSUME Copy!ProxyAssumption, CopyInv
  PROVE  ProxyInv
<1>1. Copy!OwnInv
  BY DEF CopyInv, KeptOpen, Kept, Astray, Copy!OwnInv
<1>2. Copy!NoLeak
  <2> SUFFICES ASSUME NEW f \in ProxyFd, file[f] # None
               PROVE  \/ at[Copy!Px(file[f][1])] \in {"dial", "dialling"}
                      \/ Copy!Copying(file[f][1], file[f][2])
    BY DEF Copy!NoLeak
  <2>1. PICK k \in Conn, d \in Copy!Side : file[f] = <<k, d>> /\ Kept(k, d)
    BY DEF CopyInv, OpenKept
  <2>2. file[f][1] = k /\ file[f][2] = d
    BY <2>1
  <2> QED BY <2>1, <2>2 DEF Kept
<1>3. Copy!Ends
  <2> SUFFICES ASSUME Copy!Settled,
                      \A k \in Conn : at[Copy!Px(k)] = "dialling" => dialled[k] # "none",
                      \A k \in Conn, d \in Copy!Side :
                        Copy!Copying(k, d) => <<k, d>> \in closed
               PROVE  /\ \A f \in ProxyFd : file[f] = None
                      /\ \A t \in Copy!Tasks \ {Copy!Main} : at[t] \in {"none", "exited"}
    BY DEF Copy!Ends
  <2>1. /\ \A t \in Copy!Tasks : ~Alert(t)
        /\ \A t \in Copy!Tasks : waits[t] # None => waits[t] \notin Copy!Able
    BY DEF Copy!Settled, Copy!W!Reported, Alert, Copy!ProxyAssumption
  <2>2. None \notin Copy!Io /\ None \notin Copy!Sock
    BY DEF Copy!ProxyAssumption
  <2>3. ASSUME NEW k \in Conn PROVE at[Copy!Px(k)] \in {"none", "exited"}
    <3>1. at[Copy!Px(k)] # "dial"
      BY <2>1, ProxyTasks DEF CopyInv, Watching, PxWatches
    <3>2. at[Copy!Px(k)] # "dialling"
      <4> SUFFICES ASSUME at[Copy!Px(k)] = "dialling" PROVE FALSE
        OBVIOUS
      <4>1. PICK f : f = rw[k]["server"]
        OBVIOUS
      <4>2. f \in ProxyFd /\ file[f] = <<k, "server">>
        BY <4>1, ProxyTasks DEF CopyInv, KeptOpen, Kept
      <4>3. waits[Copy!Px(k)] = <<f, "w">>
        BY <2>1, <4>1, ProxyTasks DEF CopyInv, Watching, PxWatches
      <4>4. Copy!Decided(f)
        <5>1. <<k, "server">> \in Copy!Sock /\ <<k, "server">>[1] = k
          BY ProxyTasks DEF Copy!Sock
        <5>2. file[f] # None
          BY <2>2, <4>2, <5>1
        <5>3. dialled[file[f][1]] # "none"
          BY <4>2, <5>1
        <5> QED BY <5>2, <5>3 DEF Copy!Decided
      <4>5. <<f, "w">> \in Copy!Able
        BY <4>2, <4>4 DEF Copy!Able
      <4>6. <<f, "w">> \in Copy!Io
        BY <4>2 DEF Copy!Io
      <4> QED BY <2>1, <2>2, <4>3, <4>5, <4>6, ProxyTasks
    <3> QED BY <3>1, <3>2 DEF CopyInv, Courses, Course
  <2>4. ASSUME NEW k \in Conn, NEW d \in Copy!Side
        PROVE  at[Copy!Rw(k, d)] \in {"none", "exited"}
    <3>1. at[Copy!Rw(k, d)] \notin {"write", "finish"}
      BY <2>1, ProxyTasks DEF CopyInv, Watching, RwWatches
    <3>2. at[Copy!Rw(k, d)] # "read"
      <4> SUFFICES ASSUME at[Copy!Rw(k, d)] = "read" PROVE FALSE
        OBVIOUS
      <4>1. PICK f : f = rw[k][d]
        OBVIOUS
      <4>0. Copy!Copying(k, d)
        BY DEF Copy!Copying
      <4>2. f \in ProxyFd /\ file[f] = <<k, d>>
        BY <4>0, <4>1 DEF CopyInv, KeptOpen, Kept
      <4>3. waits[Copy!Rw(k, d)] = <<f, "r">>
        BY <2>1, <4>1, ProxyTasks DEF CopyInv, Watching, RwWatches
      <4>4. Copy!Readable(f)
        <5>1. <<k, d>> \in Copy!Sock /\ <<k, d>> \in closed
          BY <4>0 DEF Copy!Sock
        <5> QED BY <2>2, <4>2, <5>1 DEF Copy!Readable
      <4>5. <<f, "r">> \in Copy!Able
        BY <4>2, <4>4 DEF Copy!Able
      <4>6. <<f, "r">> \in Copy!Io
        BY <4>2 DEF Copy!Io
      <4> QED BY <2>1, <2>2, <4>3, <4>5, <4>6, ProxyTasks
    <3> QED BY <3>1, <3>2 DEF CopyInv, Courses, Course
  <2>5. \A f \in ProxyFd : file[f] = None
    <3>1. \A k \in Conn, d \in Copy!Side : ~Kept(k, d)
      BY <2>3, <2>4 DEF Kept, Copy!Copying
    <3> QED BY <3>1 DEF CopyInv, OpenKept
  <2>6. ASSUME NEW t \in Copy!Tasks \ {Copy!Main} PROVE at[t] \in {"none", "exited"}
    <3>1. (\E k \in Conn : t = Copy!Px(k)) \/ (\E k \in Conn, d \in Copy!Side : t = Copy!Rw(k, d))
      BY DEF Copy!Tasks, Copy!RwTasks
    <3> QED BY <3>1, <2>3, <2>4
  <2> QED BY <2>5, <2>6
<1> QED BY <1>1, <1>2, <1>3 DEF ProxyInv, Copy!ProxyInv

-----------------------------------------------------------------------------
(* A task that did not move, and one that moved but not in connection k.   *)
Same(u) == at'[u] = at[u] /\ (Alert(u)' \/ (~Alert(u) /\ waits'[u] = waits[u]))
SameAt(k) == k \in Conn /\ rw'[k] = rw[k] /\ Same(Copy!Px(k))
               /\ \A d \in Copy!Side : Same(Copy!Rw(k, d))

(* The invariant of a connection no task of which moves: where its tasks   *)
(* may be.                                                                 *)
LEMMA CourseStays ==
  ASSUME NEW k, SameAt(k), Course(k), k \in backlog' => at[Copy!Px(k)] = "none"
  PROVE  Course(k)'
BY DEF Course, SameAt, Same

(* Its proxytask() is still watched.                                       *)
LEMMA PxStays ==
  ASSUME NEW k, PxWatches(k), Same(Copy!Px(k)), rw'[k]["server"] = rw[k]["server"]
  PROVE  PxWatches(k)'
<1>1. PICK t : t = Copy!Px(k)
  OBVIOUS
<1> QED BY <1>1 DEF PxWatches, Same

(* Its copying tasks are still watched.                                    *)
LEMMA RwStays ==
  ASSUME NEW k, NEW d, RwWatches(k, d), Same(Copy!Rw(k, d)), rw'[k][d] = rw[k][d]
  PROVE  RwWatches(k, d)'
<1>1. PICK t : t = Copy!Rw(k, d)
  OBVIOUS
<1> QED BY <1>1 DEF RwWatches, Same

(* Tasks of the connections other than those in K do not move.             *)
Elsewhere(K) ==
  \A k \in Conn \ K : SameAt(k) /\ (k \in backlog' => k \in backlog \/ at[Copy!Px(k)] = "none")

(* Only the connections in K need be looked at.                            *)
LEMMA OthersStay ==
  ASSUME CopyInv, NEW K, Elsewhere(K),
         \A k \in K : Course(k)' /\ PxWatches(k)' /\ \A d \in Copy!Side : RwWatches(k, d)'
  PROVE  Courses' /\ Watching'
<1>1. ASSUME NEW k \in Conn, k \notin K
      PROVE  Course(k)' /\ PxWatches(k)' /\ \A d \in Copy!Side : RwWatches(k, d)'
  <2>1. SameAt(k) /\ Course(k) /\ PxWatches(k) /\ (k \in backlog' => at[Copy!Px(k)] = "none")
    BY <1>1 DEF Elsewhere, CopyInv, Courses, Course, Watching
  <2>2. Course(k)'
    BY <2>1, CourseStays
  <2>3. PxWatches(k)'
    BY <2>1, PxStays DEF SameAt
  <2>4. ASSUME NEW d \in Copy!Side PROVE RwWatches(k, d)'
    <3>1. RwWatches(k, d) /\ Same(Copy!Rw(k, d)) /\ rw'[k][d] = rw[k][d]
      BY <2>1 DEF SameAt, CopyInv, Watching
    <3> QED BY <3>1, RwStays
  <2> QED BY <2>2, <2>3, <2>4
<1> QED BY <1>1 DEF Courses, Watching

(* Nothing is written and nobody comes back from exit.                     *)
LEMMA AstrayStays ==
  ASSUME Astray, got' = got,
         \A k \in Conn, d \in Copy!Side :
           at[Copy!Rw(k, d)] = "exited" => at'[Copy!Rw(k, d)] = "exited",
         CopyTyped
  PROVE  Astray'
<1> SUFFICES ASSUME NEW s \in Copy!Sock, NEW k \in got[s] \ {s[1]}
             PROVE  \E d \in Copy!Side : at'[Copy!Rw(k, d)] = "exited"
  BY DEF Astray
<1>1. k \in Conn
  BY DEF CopyTyped
<1>2. PICK d \in Copy!Side : at[Copy!Rw(k, d)] = "exited"
  BY DEF Astray
<1> QED BY <1>1, <1>2

(* No descriptor is opened or closed.                                      *)
LEMMA KeptSame ==
  ASSUME KeptOpen, OpenKept, file' = file, rw' = rw,
         \A k \in Conn, d \in Copy!Side : Kept(k, d)' <=> Kept(k, d)
  PROVE  KeptOpen' /\ OpenKept'
BY DEF KeptOpen, OpenKept

(* One is opened for side d of k.                                          *)
LEMMA KeptMore ==
  ASSUME Copy!ProxyAssumption, CopyTyped, KeptOpen, OpenKept,
         NEW k \in Conn, NEW d \in Copy!Side, NEW g \in ProxyFd, file[g] = None,
         ~Kept(k, d), file' = [file EXCEPT ![g] = <<k, d>>],
         rw' = [rw EXCEPT ![k][d] = g],
         \A j \in Conn, e \in Copy!Side :
           Kept(j, e)' <=> Kept(j, e) \/ (j = k /\ e = d)
  PROVE  KeptOpen' /\ OpenKept'
<1>0. \A j \in Conn, e \in Copy!Side : <<j, e>> # None
  BY DEF Copy!ProxyAssumption, Copy!Sock
<1>1. /\ file'[g] = <<k, d>> /\ \A f \in ProxyFd \ {g} : file'[f] = file[f]
      /\ rw'[k][d] = g
      /\ \A j \in Conn, e \in Copy!Side : j # k \/ e # d => rw'[j][e] = rw[j][e]
  BY DEF CopyTyped
<1>2. KeptOpen'
  <2> SUFFICES ASSUME NEW j \in Conn, NEW e \in Copy!Side, Kept(j, e)'
               PROVE  rw'[j][e] \in ProxyFd /\ file'[rw'[j][e]] = <<j, e>>
    BY DEF KeptOpen
  <2>1. CASE j = k /\ e = d
    BY <1>1, <2>1
  <2>2. CASE ~(j = k /\ e = d)
    <3>1. rw[j][e] \in ProxyFd /\ file[rw[j][e]] = <<j, e>> /\ rw'[j][e] = rw[j][e]
      BY <1>1, <2>2 DEF KeptOpen
    <3> QED BY <1>0, <1>1, <3>1
  <2> QED BY <2>1, <2>2
<1>3. OpenKept'
  <2> SUFFICES ASSUME NEW f \in ProxyFd, file'[f] # None
               PROVE  \E j \in Conn, e \in Copy!Side :
                        file'[f] = <<j, e>> /\ Kept(j, e)' /\ rw'[j][e] = f
    BY DEF OpenKept
  <2>1. CASE f = g
    BY <1>1, <2>1
  <2>2. CASE f # g
    <3>1. file'[f] = file[f]
      BY <1>1, <2>2
    <3>2. PICK j \in Conn, e \in Copy!Side : file[f] = <<j, e>> /\ Kept(j, e) /\ rw[j][e] = f
      BY <3>1 DEF OpenKept
    <3> QED BY <1>1, <3>1, <3>2
  <2> QED BY <2>1, <2>2
<1> QED BY <1>2, <1>3

(* Those of the sides D of k are closed.                                   *)
LEMMA KeptLess ==
  ASSUME Copy!ProxyAssumption, CopyTyped, KeptOpen, OpenKept,
         NEW k \in Conn, NEW D \in SUBSET Copy!Side, \A d \in D : Kept(k, d),
         \A f \in ProxyFd : file'[f] = IF \E d \in D : f = rw[k][d] THEN None ELSE file[f],
         rw' = rw,
         \A j \in Conn, e \in Copy!Side :
           Kept(j, e)' <=> Kept(j, e) /\ ~(j = k /\ e \in D)
  PROVE  KeptOpen' /\ OpenKept'
<1>1. KeptOpen'
  <2> SUFFICES ASSUME NEW j \in Conn, NEW e \in Copy!Side, Kept(j, e), ~(j = k /\ e \in D)
               PROVE  rw[j][e] \in ProxyFd /\ file'[rw[j][e]] = <<j, e>>
    BY DEF KeptOpen
  <2>1. rw[j][e] \in ProxyFd /\ file[rw[j][e]] = <<j, e>>
    BY DEF KeptOpen
  <2>2. \A d \in D : rw[j][e] # rw[k][d]
    <3> SUFFICES ASSUME NEW d \in D, rw[j][e] = rw[k][d] PROVE FALSE
      OBVIOUS
    <3>1. file[rw[k][d]] = <<k, d>>
      BY DEF KeptOpen
    <3> QED BY <2>1, <3>1
  <2> QED BY <2>1, <2>2
<1>2. OpenKept'
  <2> SUFFICES ASSUME NEW f \in ProxyFd, file'[f] # None
               PROVE  \E j \in Conn, e \in Copy!Side :
                        file'[f] = <<j, e>> /\ Kept(j, e)' /\ rw[j][e] = f
    BY DEF OpenKept
  <2>1. file'[f] = file[f] /\ ~\E d \in D : f = rw[k][d]
    OBVIOUS
  <2>2. PICK j \in Conn, e \in Copy!Side : file[f] = <<j, e>> /\ Kept(j, e) /\ rw[j][e] = f
    BY <2>1 DEF OpenKept
  <2>3. ~(j = k /\ e \in D)
    BY <2>1, <2>2
  <2> QED BY <2>1, <2>2, <2>3
<1> QED BY <1>1, <1>2

(* A step in which no task of a connection moves.                          *)
LEMMA NobodyMoves ==
  ASSUME CopyInv, CopyTyped', Elsewhere({}), file' = file, rw' = rw, got' = got
  PROVE  CopyInv'
<1>1. \A k \in Conn : SameAt(k)
  BY DEF Elsewhere
<1>2. Courses' /\ Watching'
  BY OthersStay
<1>3. KeptOpen' /\ OpenKept'
  <2>1. \A k \in Conn, d \in Copy!Side : Kept(k, d)' <=> Kept(k, d)
    BY <1>1 DEF SameAt, Same, Kept, Copy!Copying
  <2> QED BY <2>1, KeptSame DEF CopyInv
<1>4. Astray'
  <2>1. \A k \in Conn, d \in Copy!Side :
          at[Copy!Rw(k, d)] = "exited" => at'[Copy!Rw(k, d)] = "exited"
    BY <1>1 DEF SameAt, Same
  <2> QED BY <2>1, AstrayStays DEF CopyInv
<1> QED BY <1>2, <1>3, <1>4 DEF CopyInv

(* The tasks that copy: one moves on, waits for its descriptor or ends.    *)
LEMMA RwMoves ==
  ASSUME CopyInv, NEW k \in Conn, NEW d \in Copy!Side, task = Copy!Rw(k, d),
         Copy!Copying(k, d), NEW p \in {"read", "write", "finish", "exited"},
         at' = [at EXCEPT ![Copy!Rw(k, d)] = p],
         backlog' = backlog, rw' = rw, queue' = queue,
         \/ task' = task /\ waits' = waits
         \/ task' = None /\ p = "exited" /\ waits' = waits
         \/ task' = None /\ p = "read"
              /\ waits' = [waits EXCEPT ![Copy!Rw(k, d)] = <<rw[k][d], "r">>]
  PROVE  Courses' /\ Watching'
<1>1. PICK t : t = Copy!Rw(k, d)
  OBVIOUS
<1>2. t \in Copy!Tasks /\ CopyTyped
  BY <1>1, ProxyTasks DEF CopyInv
<1>3. \A u \in Copy!Tasks : u # t => Same(u)
  BY <1>1, <1>2 DEF Same, Alert, CopyTyped
<1>4. ASSUME NEW j \in Conn, NEW e \in Copy!Side, ~(j = k /\ e = d) PROVE Same(Copy!Rw(j, e))
  <2>1. Copy!Rw(j, e) \in Copy!Tasks /\ Copy!Rw(j, e) # t
    BY <1>1, <1>4, ProxyTasks
  <2> QED BY <1>3, <2>1
<1>5. ASSUME NEW j \in Conn PROVE Same(Copy!Px(j))
  <2>1. Copy!Px(j) \in Copy!Tasks /\ Copy!Px(j) # t
    BY <1>1, ProxyTasks
  <2> QED BY <1>3, <2>1
<1>6. Elsewhere({k})
  BY <1>4, <1>5 DEF Elsewhere, SameAt
<1>7. Course(k) /\ at[t] \in {"read", "write", "finish"} /\ at'[t] = p
  BY <1>1, <1>2 DEF CopyInv, Courses, CopyTyped, Copy!Copying
<1>8. Course(k)'
  <2>1. \A e \in Copy!Side : e # d => at'[Copy!Rw(k, e)] = at[Copy!Rw(k, e)]
    BY <1>4 DEF Same
  <2>2. at'[Copy!Px(k)] = at[Copy!Px(k)]
    BY <1>5 DEF Same
  <2>3. \A e \in Copy!Side : at[Copy!Rw(k, e)] # "none" /\ at'[Copy!Rw(k, e)] # "none"
    BY <1>1, <1>7, <2>1 DEF Course
  <2>4. \A e \in Copy!Side :
          at'[Copy!Rw(k, e)] \in {"none", "read", "write", "finish", "exited"}
    BY <1>1, <1>7, <2>1 DEF Course
  <2> QED BY <1>7, <2>2, <2>3, <2>4 DEF Course
<1>9. PxWatches(k)'
  <2>1. at[Copy!Px(k)] = "exited"
    BY <1>1, <1>7 DEF Course
  <2>2. at'[Copy!Px(k)] = "exited"
    BY <1>5, <2>1 DEF Same
  <2> QED BY <2>2 DEF PxWatches
<1>10. ASSUME NEW e \in Copy!Side PROVE RwWatches(k, e)'
  <2>1. CASE e = d
    <3>1. \/ Alert(t)' \/ p = "exited"
          \/ p = "read" /\ waits'[t] = <<rw'[k][d], "r">>
      BY <1>1, <1>2 DEF Alert, CopyTyped
    <3> QED BY <1>1, <1>7, <2>1, <3>1 DEF RwWatches
  <2>2. CASE e # d
    <3>1. RwWatches(k, e) /\ Same(Copy!Rw(k, e)) /\ rw'[k][e] = rw[k][e]
      BY <1>4, <2>2 DEF CopyInv, Watching
    <3> QED BY <3>1, RwStays
  <2> QED BY <2>1, <2>2
<1> QED BY <1>6, <1>8, <1>9, <1>10, OthersStay

(* What it keeps meanwhile.                                                *)
LEMMA RwKeeps ==
  ASSUME CopyTyped, NEW k \in Conn, NEW d \in Copy!Side, Copy!Copying(k, d),
         at[Copy!Px(k)] = "exited",
         NEW p \in {"read", "write", "finish", "exited"},
         at' = [at EXCEPT ![Copy!Rw(k, d)] = p]
  PROVE  /\ \A j \in Conn, e \in Copy!Side :
              Kept(j, e)' <=> Kept(j, e) /\ (p # "exited" \/ ~(j = k /\ e = d))
         /\ \A j \in Conn, e \in Copy!Side :
              at[Copy!Rw(j, e)] = "exited" => at'[Copy!Rw(j, e)] = "exited"
<1>1. PICK t : t = Copy!Rw(k, d)
  OBVIOUS
<1>2. t \in Copy!Tasks /\ at'[t] = p /\ \A u \in Copy!Tasks : u # t => at'[u] = at[u]
  BY <1>1, ProxyTasks DEF CopyTyped
<1>3. at[t] \in {"read", "write", "finish"}
  BY <1>1 DEF Copy!Copying
<1>4. \A j \in Conn, e \in Copy!Side :
        /\ Copy!Px(j) # t
        /\ ~(j = k /\ e = d) => Copy!Rw(j, e) # t
  BY <1>1, ProxyTasks
<1>5. ASSUME NEW j \in Conn, NEW e \in Copy!Side
      PROVE  Kept(j, e)' <=> Kept(j, e) /\ (p # "exited" \/ ~(j = k /\ e = d))
  <2>1. at'[Copy!Px(j)] = at[Copy!Px(j)]
    BY <1>2, <1>4, ProxyTasks
  <2>2. CASE j = k /\ e = d
    <3>1. Copy!Px(j) \in Copy!Tasks /\ Kept(j, e)
      BY <2>2, ProxyTasks DEF Kept
    <3>2. Copy!Copying(j, e)' <=> p # "exited"
      BY <1>1, <1>2, <2>2 DEF Copy!Copying
    <3>3. CASE p # "exited"
      BY <3>1, <3>2, <3>3 DEF Kept
    <3>4. CASE p = "exited"
      <4>1. ~(d = "client" /\ at[Copy!Px(k)] = "dial") /\ at[Copy!Px(k)] # "dialling"
        OBVIOUS
      <4> QED BY <2>1, <2>2, <3>2, <3>4, <4>1 DEF Kept
    <3> QED BY <3>3, <3>4
  <2>3. CASE ~(j = k /\ e = d)
    <3>1. Copy!Copying(j, e)' <=> Copy!Copying(j, e)
      BY <1>2, <1>4, <2>3, ProxyTasks DEF Copy!Copying
    <3> QED BY <2>1, <2>3, <3>1 DEF Kept
  <2> QED BY <2>2, <2>3
<1>6. ASSUME NEW j \in Conn, NEW e \in Copy!Side, at[Copy!Rw(j, e)] = "exited"
      PROVE  at'[Copy!Rw(j, e)] = "exited"
  BY <1>1, <1>2, <1>3, <1>4, <1>6, ProxyTasks
<1> QED BY <1>5, <1>6

(* rwtask() reads, or waits.                                               *)
LEMMA ProxyReads ==
  ASSUME Copy!ProxyAssumption, CopyInv, NEW k \in Conn, NEW d \in Copy!Side, Copy!Reads(k, d)
  PROVE  CopyInv'
<1>1. PICK t : t = Copy!Rw(k, d)
  OBVIOUS
<1>2. t \in Copy!Tasks /\ CopyTyped /\ task = t /\ at[t] = "read"
  BY <1>1, ProxyTasks DEF CopyInv, Copy!Reads, Copy!At
<1>3. Copy!Copying(k, d)
  BY <1>1, <1>2 DEF Copy!Copying
<1>4. rw[k][d] \in ProxyFd
  BY <1>3 DEF CopyInv, KeptOpen, Kept
<1>5. rw' = rw /\ file' = file /\ got' = got /\ backlog' = backlog /\ queue' = queue
  BY DEF Copy!Reads, Copy!pollVars, Copy!W!fdwait
<1>6. PICK p \in {"read", "write", "finish"} :
        /\ at' = [at EXCEPT ![t] = p]
        /\ \/ task' = task /\ waits' = waits
           \/ task' = None /\ p = "read"
                /\ waits' = [waits EXCEPT ![t] = <<rw[k][d], "r">>]
  <2>1. CASE Copy!Goes(t, "write") /\ UNCHANGED Copy!pollVars
    BY <2>1 DEF Copy!Goes, Copy!pollVars
  <2>2. CASE Copy!Goes(t, "finish") /\ UNCHANGED Copy!pollVars
    BY <2>2 DEF Copy!Goes, Copy!pollVars
  <2>3. CASE Copy!W!fdwait(t, <<rw[k][d], "r">>) /\ UNCHANGED at
    <3>1. at' = [at EXCEPT ![t] = "read"]
      BY <1>2, <2>3 DEF CopyTyped
    <3> QED BY <2>3, <3>1 DEF Copy!W!fdwait
  <2> QED BY <1>1, <2>1, <2>2, <2>3 DEF Copy!Reads
<1>7. Courses' /\ Watching'
  BY <1>1, <1>2, <1>3, <1>5, <1>6, RwMoves
<1>8. CopyTyped'
  <2>1. <<rw[k][d], "r">> \in Copy!Io
    BY <1>4 DEF Copy!Io
  <2>2. at' \in [Copy!Tasks -> Place]
    BY <1>2, <1>6 DEF CopyTyped, Place
  <2>3. waits' \in [Copy!Tasks -> Copy!Io \cup {None}]
    BY <1>2, <1>6, <2>1 DEF CopyTyped
  <2> QED BY <1>2, <1>5, <1>6, <2>2, <2>3 DEF CopyTyped
<1>9. at[Copy!Px(k)] = "exited"
  BY <1>1, <1>2 DEF CopyInv, Courses, Course
<1>10. \A j \in Conn, e \in Copy!Side : Kept(j, e)' <=> Kept(j, e)
  BY <1>1, <1>2, <1>3, <1>6, <1>9, RwKeeps
<1>11. KeptOpen' /\ OpenKept'
  BY <1>5, <1>10, KeptSame DEF CopyInv
<1>12. \A j \in Conn, e \in Copy!Side :
        at[Copy!Rw(j, e)] = "exited" => at'[Copy!Rw(j, e)] = "exited"
  BY <1>1, <1>2, <1>3, <1>6, <1>9, RwKeeps
<1>13. Astray'
  BY <1>2, <1>5, <1>12, AstrayStays DEF CopyInv
<1> QED BY <1>7, <1>8, <1>11, <1>13 DEF CopyInv

(* rwtask() writes, to whatever stands behind the number by now: if it is  *)
(* not its partner's, its partner has closed it.                           *)
LEMMA ProxyWrites ==
  ASSUME Copy!ProxyAssumption, CopyInv, NEW k \in Conn, NEW d \in Copy!Side, Copy!Writes(k, d)
  PROVE  CopyInv'
<1>1. PICK t : t = Copy!Rw(k, d)
  OBVIOUS
<1>2. t \in Copy!Tasks /\ CopyTyped /\ task = t /\ at[t] = "write"
  BY <1>1, ProxyTasks DEF CopyInv, Copy!Writes, Copy!At
<1>3. Copy!Copying(k, d)
  BY <1>1, <1>2 DEF Copy!Copying
<1>4. /\ rw' = rw /\ file' = file /\ backlog' = backlog /\ queue' = queue
      /\ task' = task /\ waits' = waits /\ at' = [at EXCEPT ![t] = "read"]
  BY <1>1 DEF Copy!Writes, Copy!pollVars, Copy!peerVars, Copy!Goes
<1>5. Courses' /\ Watching'
  BY <1>1, <1>2, <1>3, <1>4, RwMoves
<1>6. Course(k) /\ at[Copy!Px(k)] = "exited"
  BY <1>1, <1>2 DEF CopyInv, Courses, Course
<1>7. \A j \in Conn, e \in Copy!Side : Kept(j, e)' <=> Kept(j, e)
  BY <1>1, <1>2, <1>3, <1>4, <1>6, RwKeeps
<1>8. KeptOpen' /\ OpenKept'
  BY <1>4, <1>7, KeptSame DEF CopyInv
<1>9. \A j \in Conn, e \in Copy!Side :
        at[Copy!Rw(j, e)] = "exited" => at'[Copy!Rw(j, e)] = "exited"
  BY <1>1, <1>2, <1>3, <1>4, <1>6, RwKeeps
<1>10. PICK o \in Copy!Side : o = Copy!Other(d)
  BY ProxyTasks DEF Copy!Other
<1>11. PICK f \in ProxyFd : f = rw[k][o]
  BY <1>1, <1>2, <1>6, <1>10 DEF Course
<1>12. \/ got' = got
       \/ file[f] # None /\ got' = [got EXCEPT ![file[f]] = @ \cup {k}]
  BY <1>10, <1>11 DEF Copy!Writes
<1>13. ASSUME file[f] # None, file[f][1] # k PROVE at[Copy!Rw(k, o)] = "exited"
  <2>1. file[f] # <<k, o>>
    BY <1>13
  <2>2. ~Copy!Copying(k, o)
    BY <1>11, <2>1 DEF CopyInv, KeptOpen, Kept
  <2>3. at[Copy!Rw(k, o)] # "none" /\ at[Copy!Rw(k, o)] \in {"none", "read", "write", "finish", "exited"}
    BY <1>1, <1>2, <1>6 DEF Course
  <2> QED BY <2>2, <2>3 DEF Copy!Copying
<1>14. CopyTyped'
  <2>1. file[f] # None => file[f] \in Copy!Sock
    BY <1>2 DEF CopyTyped
  <2>2. got' \in [Copy!Sock -> SUBSET Conn]
    BY <1>2, <1>12, <2>1 DEF CopyTyped
  <2>3. at' \in [Copy!Tasks -> Place]
    BY <1>2, <1>4 DEF CopyTyped, Place
  <2> QED BY <1>2, <1>4, <2>2, <2>3 DEF CopyTyped
<1>15. Astray'
  <2> SUFFICES ASSUME NEW s \in Copy!Sock, NEW j \in got'[s] \ {s[1]}
               PROVE  \E e \in Copy!Side : at'[Copy!Rw(j, e)] = "exited"
    BY DEF Astray
  <2>1. j \in Conn
    BY <1>14 DEF CopyTyped
  <2>2. CASE j \in got[s]
    <3>1. PICK e \in Copy!Side : at[Copy!Rw(j, e)] = "exited"
      BY <2>2 DEF CopyInv, Astray
    <3> QED BY <1>9, <2>1, <3>1
  <2>3. CASE j \notin got[s]
    <3>1. j = k /\ file[f] # None /\ s = file[f]
      BY <1>2, <1>12, <2>3 DEF CopyTyped
    <3>2. at[Copy!Rw(k, o)] = "exited"
      BY <1>13, <3>1
    <3> QED BY <1>9, <3>1, <3>2
  <2> QED BY <2>2, <2>3
<1> QED BY <1>5, <1>8, <1>14, <1>15 DEF CopyInv

(* rwtask() closes the descriptor it has read from, and returns.           *)
LEMMA ProxyFinishes ==
  ASSUME Copy!ProxyAssumption, CopyInv, NEW k \in Conn, NEW d \in Copy!Side,
         Copy!Finishes(k, d)
  PROVE  CopyInv'
<1>1. PICK t : t = Copy!Rw(k, d)
  OBVIOUS
<1>2. t \in Copy!Tasks /\ CopyTyped /\ task = t /\ at[t] = "finish"
  BY <1>1, ProxyTasks DEF CopyInv, Copy!Finishes, Copy!At
<1>3. Copy!Copying(k, d)
  BY <1>1, <1>2 DEF Copy!Copying
<1>4. /\ rw' = rw /\ got' = got /\ backlog' = backlog /\ queue' = queue
      /\ task' = None /\ waits' = waits /\ at' = [at EXCEPT ![t] = "exited"]
      /\ file' = [file EXCEPT ![rw[k][d]] = None]
  BY <1>1 DEF Copy!Finishes, Copy!peerVars, Copy!Goes, Copy!Exits, Copy!W!Leave, Copy!Closed
<1>5. Courses' /\ Watching'
  BY <1>1, <1>2, <1>3, <1>4, RwMoves
<1>6. at[Copy!Px(k)] = "exited"
  BY <1>1, <1>2 DEF CopyInv, Courses, Course
<1>7. \A j \in Conn, e \in Copy!Side : Kept(j, e)' <=> Kept(j, e) /\ ~(j = k /\ e \in {d})
  <2>1. \A j \in Conn, e \in Copy!Side :
          Kept(j, e)' <=> Kept(j, e) /\ ("exited" # "exited" \/ ~(j = k /\ e = d))
    BY <1>1, <1>2, <1>3, <1>4, <1>6, RwKeeps
  <2> QED BY <2>1
<1>8. KeptOpen' /\ OpenKept'
  <2>1. \A e \in {d} : Kept(k, e)
    BY <1>3 DEF Kept
  <2>2. \A f \in ProxyFd : file'[f] = IF \E e \in {d} : f = rw[k][e] THEN None ELSE file[f]
    BY <1>2, <1>4 DEF CopyTyped
  <2>3. {d} \in SUBSET Copy!Side
    OBVIOUS
  <2> QED BY <1>2, <1>4, <1>7, <2>1, <2>2, <2>3, KeptLess DEF CopyInv
<1>9. \A j \in Conn, e \in Copy!Side :
        at[Copy!Rw(j, e)] = "exited" => at'[Copy!Rw(j, e)] = "exited"
  BY <1>1, <1>2, <1>3, <1>4, <1>6, RwKeeps
<1>10. Astray'
  BY <1>2, <1>4, <1>9, AstrayStays DEF CopyInv
<1>11. CopyTyped'
  BY <1>2, <1>4 DEF CopyTyped, Place
<1> QED BY <1>5, <1>8, <1>10, <1>11 DEF CopyInv

(* taskmain() announces, or ends.                                          *)
LEMMA MainMoves ==
  ASSUME Copy!ProxyAssumption, CopyInv, task = Copy!Main, queue' = queue, task' = None,
         NEW p \in Place, at' = [at EXCEPT ![Copy!Main] = p],
         \/ waits' = waits
         \/ waits' = [waits EXCEPT ![Copy!Main] = <<Lfd, "r">>],
         file' = file, rw' = rw, got' = got, backlog' = backlog
  PROVE  CopyInv'
<1>1. CopyTyped /\ Copy!Main \in Copy!Tasks
  BY ProxyTasks DEF CopyInv
<1>2. <<Lfd, "r">> \in Copy!Io
  BY DEF Copy!Io
<1>3. CopyTyped'
  BY <1>1, <1>2 DEF CopyTyped
<1>4. \A u \in Copy!Tasks : u # Copy!Main => Same(u)
  BY <1>1 DEF Same, Alert, CopyTyped
<1>5. Elsewhere({})
  BY <1>4, ProxyTasks DEF Elsewhere, SameAt
<1> QED BY <1>3, <1>5, NobodyMoves

(* taskmain() starts a task for a connection.                              *)
LEMMA ProxyAccepts ==
  ASSUME Copy!ProxyAssumption, CopyInv, Copy!Accepts
  PROVE  CopyInv'
<1>1. CopyTyped /\ Copy!Main \in Copy!Tasks /\ task = Copy!Main
  BY ProxyTasks DEF CopyInv, Copy!Accepts, Copy!At
<1>2. CASE Copy!Free = {} \/ backlog = {}
  BY <1>1, <1>2, MainMoves
     DEF Copy!Accepts, Copy!Exits, Copy!Goes, Copy!W!Leave, Place
<1>3. CASE ~(Copy!Free = {} \/ backlog = {})
  <2>1. PICK g : g = Copy!Lowest(Copy!Free)
    OBVIOUS
  <2>2. g \in ProxyFd /\ file[g] = None
    BY <1>1, <1>3, <2>1, LowestProxyFd
  <2>3. PICK k \in backlog :
          /\ file' = [file EXCEPT ![g] = <<k, "client">>]
          /\ rw' = [rw EXCEPT ![k]["client"] = g]
          /\ backlog' = backlog \ {k}
          /\ at' = [at EXCEPT ![Copy!Px(k)] = "dial"]
          /\ queue' = queue \cup {Copy!Px(k)}
          /\ task' = None
          /\ waits' = [waits EXCEPT ![Copy!Main] = <<Lfd, "r">>]
          /\ got' = got
    BY <1>3, <2>1 DEF Copy!Accepts
  <2>4. k \in Conn
    BY <1>1 DEF CopyTyped
  <2>5. PICK t : t = Copy!Px(k)
    OBVIOUS
  <2>6. t \in Copy!Tasks /\ at[t] = "none" /\ Course(k)
    BY <2>4, <2>5, ProxyTasks DEF CopyInv, Courses, Course
  <2>7. \A u \in Copy!Tasks : u # t => at'[u] = at[u] /\ (u # Copy!Main => Same(u))
    BY <1>1, <2>3, <2>5 DEF Same, Alert, CopyTyped
  <2>8. ASSUME NEW j \in Conn, j # k PROVE SameAt(j)
    <3>1. Same(Copy!Px(j)) /\ \A d \in Copy!Side : Same(Copy!Rw(j, d))
      BY <2>4, <2>5, <2>7, <2>8, ProxyTasks
    <3>2. rw'[j] = rw[j]
      BY <1>1, <2>3, <2>4, <2>8 DEF CopyTyped
    <3> QED BY <3>1, <3>2 DEF SameAt
  <2>9. Elsewhere({k})
    BY <2>3, <2>8 DEF Elsewhere
  <2>10. /\ at'[t] = "dial" /\ t \in queue'
         /\ \A d \in Copy!Side : at'[Copy!Rw(k, d)] = "none"
    <3>1. \A d \in Copy!Side : at'[Copy!Rw(k, d)] = at[Copy!Rw(k, d)]
      BY <2>4, <2>5, <2>7, ProxyTasks
    <3>2. \A d \in Copy!Side : at[Copy!Rw(k, d)] = "none"
      BY <2>5, <2>6 DEF Course
    <3> QED BY <1>1, <2>3, <2>5, <2>6, <3>1, <3>2 DEF CopyTyped
  <2>11. Course(k)' /\ PxWatches(k)' /\ \A d \in Copy!Side : RwWatches(k, d)'
    BY <2>3, <2>5, <2>10 DEF Course, PxWatches, RwWatches, Alert
  <2>12. Courses' /\ Watching'
    BY <2>9, <2>11, OthersStay
  <2>13. CopyTyped'
    <3>1. <<k, "client">> \in Copy!Sock /\ <<Lfd, "r">> \in Copy!Io
      BY <2>4, ProxyTasks DEF Copy!Sock, Copy!Io
    <3>2. "client" \in Copy!Side
      BY ProxyTasks
    <3>3. rw' \in [Conn -> [Copy!Side -> ProxyFd \cup {0}]]
      BY <1>1, <2>2, <2>3, <2>4, <3>2 DEF CopyTyped
    <3>4. file' \in [ProxyFd -> Copy!Sock \cup {None}]
      BY <1>1, <2>2, <2>3, <3>1 DEF CopyTyped
    <3>5. /\ at' \in [Copy!Tasks -> Place] /\ waits' \in [Copy!Tasks -> Copy!Io \cup {None}]
          /\ queue' \subseteq Copy!Tasks
      BY <1>1, <2>3, <2>5, <2>6, <3>1 DEF CopyTyped, Place
    <3> QED BY <1>1, <2>3, <3>3, <3>4, <3>5 DEF CopyTyped
  <2>14. \A j \in Conn, e \in Copy!Side :
           Kept(j, e)' <=> Kept(j, e) \/ (j = k /\ e = "client")
    <3>1. ASSUME NEW j \in Conn, j # k, NEW e \in Copy!Side PROVE Kept(j, e)' <=> Kept(j, e)
      BY <2>8, <3>1 DEF SameAt, Same, Kept, Copy!Copying
    <3>2. ASSUME NEW e \in Copy!Side PROVE Kept(k, e)' <=> e = "client"
      BY <2>5, <2>10 DEF Kept, Copy!Copying
    <3>3. ASSUME NEW e \in Copy!Side PROVE ~Kept(k, e)
      BY <2>5, <2>6 DEF Kept, Copy!Copying, Course
    <3> QED BY <2>4, <3>1, <3>2, <3>3
  <2>15. KeptOpen' /\ OpenKept'
    <3>1. ~Kept(k, "client")
      BY <2>5, <2>6, ProxyTasks DEF Kept, Copy!Copying, Course
    <3>2. "client" \in Copy!Side
      BY ProxyTasks
    <3> QED BY <1>1, <2>2, <2>3, <2>4, <2>14, <3>1, <3>2, KeptMore DEF CopyInv
  <2>16. Astray'
    <3>1. \A j \in Conn, e \in Copy!Side :
            at[Copy!Rw(j, e)] = "exited" => at'[Copy!Rw(j, e)] = "exited"
      BY <2>4, <2>5, <2>7, ProxyTasks
    <3> QED BY <1>1, <2>3, <3>1, AstrayStays DEF CopyInv
  <2> QED BY <2>12, <2>13, <2>15, <2>16 DEF CopyInv
<1> QED BY <1>2, <1>3

(* A step of proxytask() that leaves its copying tasks uncreated.          *)
LEMMA PxMoves ==
  ASSUME CopyInv, NEW k \in Conn, task = Copy!Px(k), at[Copy!Px(k)] \in {"dial", "dialling"},
         NEW p \in {"dialling", "exited"}, at' = [at EXCEPT ![Copy!Px(k)] = p],
         backlog' = backlog, queue' = queue, task' = None,
         \A j \in Conn : j # k => rw'[j] = rw[j],
         \/ p = "exited" /\ waits' = waits
         \/ waits' = [waits EXCEPT ![Copy!Px(k)] = <<rw'[k]["server"], "w">>]
  PROVE  /\ Courses' /\ Watching'
         /\ \A j \in Conn, e \in Copy!Side : Kept(j, e)' <=>
              IF j = k THEN p = "dialling" ELSE Kept(j, e)
         /\ \A j \in Conn, e \in Copy!Side :
              at[Copy!Rw(j, e)] = "exited" => at'[Copy!Rw(j, e)] = "exited"
<1>1. PICK t : t = Copy!Px(k)
  OBVIOUS
<1>2. t \in Copy!Tasks /\ CopyTyped /\ Course(k)
  BY <1>1, ProxyTasks DEF CopyInv, Courses
<1>3. \A u \in Copy!Tasks : u # t => at'[u] = at[u] /\ Same(u)
  BY <1>1, <1>2 DEF Same, Alert, CopyTyped
<1>4. ASSUME NEW j \in Conn, j # k PROVE SameAt(j)
  <2>1. Same(Copy!Px(j)) /\ \A d \in Copy!Side : Same(Copy!Rw(j, d))
    BY <1>1, <1>3, <1>4, ProxyTasks
  <2> QED BY <1>4, <2>1 DEF SameAt
<1>5. Elsewhere({k})
  BY <1>4 DEF Elsewhere
<1>6. /\ at'[t] = p
      /\ \A d \in Copy!Side : at[Copy!Rw(k, d)] = "none" /\ at'[Copy!Rw(k, d)] = "none"
  <2>1. \A d \in Copy!Side : at'[Copy!Rw(k, d)] = at[Copy!Rw(k, d)]
    BY <1>1, <1>3, ProxyTasks
  <2>2. \A d \in Copy!Side : at[Copy!Rw(k, d)] = "none"
    BY <1>1, <1>2 DEF Course
  <2> QED BY <1>1, <1>2, <2>1, <2>2 DEF CopyTyped
<1>7. Course(k)'
  <2>1. k \notin backlog'
    BY <1>1, <1>2 DEF Course
  <2> QED BY <1>1, <1>6, <2>1 DEF Course
<1>8. PxWatches(k)'
  <2>1. p = "dialling" => waits'[t] = <<rw'[k]["server"], "w">>
    BY <1>1, <1>2 DEF CopyTyped
  <2> QED BY <1>1, <1>6, <2>1 DEF PxWatches
<1>9. \A d \in Copy!Side : RwWatches(k, d)'
  BY <1>6 DEF RwWatches
<1>10. Courses' /\ Watching'
  BY <1>5, <1>7, <1>8, <1>9, OthersStay
<1>11. ASSUME NEW j \in Conn, NEW e \in Copy!Side
       PROVE  Kept(j, e)' <=> IF j = k THEN p = "dialling" ELSE Kept(j, e)
  <2>1. CASE j = k
    BY <1>1, <1>6, <2>1 DEF Kept, Copy!Copying
  <2>2. CASE j # k
    BY <1>4, <2>2 DEF SameAt, Same, Kept, Copy!Copying
  <2> QED BY <2>1, <2>2
<1>12. \A j \in Conn, e \in Copy!Side :
         at[Copy!Rw(j, e)] = "exited" => at'[Copy!Rw(j, e)] = "exited"
  BY <1>1, <1>3, ProxyTasks
<1> QED BY <1>10, <1>11, <1>12

(* proxytask() dials.                                                      *)
LEMMA ProxyDials ==
  ASSUME Copy!ProxyAssumption, CopyInv, NEW k \in Conn, Copy!Dials(k)
  PROVE  CopyInv'
<1>1. PICK t : t = Copy!Px(k)
  OBVIOUS
<1>2. t \in Copy!Tasks /\ CopyTyped /\ task = t /\ at[t] = "dial" /\ Course(k)
  BY <1>1, ProxyTasks DEF CopyInv, Courses, Copy!Dials, Copy!At
<1>3. /\ got' = got /\ backlog' = backlog
      /\ "client" \in Copy!Side /\ "server" \in Copy!Side /\ Copy!Side = {"client", "server"}
  BY ProxyTasks DEF Copy!Dials, Copy!peerVars
<1>4. \A e \in Copy!Side : Kept(k, e) <=> e = "client"
  BY <1>1, <1>2 DEF Kept, Copy!Copying, Course
<1>5. CASE Copy!Free = {}
  <2>1. /\ file' = [file EXCEPT ![rw[k]["client"]] = None] /\ rw' = rw
        /\ at' = [at EXCEPT ![t] = "exited"]
        /\ task' = None /\ queue' = queue /\ waits' = waits
    BY <1>1, <1>5 DEF Copy!Dials, Copy!Exits, Copy!Goes, Copy!W!Leave
  <2>2. /\ Courses' /\ Watching'
        /\ \A j \in Conn, e \in Copy!Side : Kept(j, e)' <=>
             IF j = k THEN "exited" = "dialling" ELSE Kept(j, e)
        /\ \A j \in Conn, e \in Copy!Side :
             at[Copy!Rw(j, e)] = "exited" => at'[Copy!Rw(j, e)] = "exited"
    BY <1>1, <1>2, <1>3, <2>1, PxMoves
  <2>3. \A j \in Conn, e \in Copy!Side :
          Kept(j, e)' <=> Kept(j, e) /\ ~(j = k /\ e \in {"client"})
    BY <1>4, <2>2
  <2>4. KeptOpen' /\ OpenKept'
    <3>1. \A e \in {"client"} : Kept(k, e)
      BY <1>3, <1>4
    <3>2. \A f \in ProxyFd :
            file'[f] = IF \E e \in {"client"} : f = rw[k][e] THEN None ELSE file[f]
      BY <1>2, <2>1 DEF CopyTyped
    <3>3. {"client"} \in SUBSET Copy!Side
      BY <1>3
    <3> QED BY <1>2, <2>1, <2>3, <3>1, <3>2, <3>3, KeptLess DEF CopyInv
  <2>5. Astray'
    BY <1>2, <1>3, <2>2, AstrayStays DEF CopyInv
  <2>6. CopyTyped'
    BY <1>2, <1>3, <2>1 DEF CopyTyped, Place
  <2> QED BY <2>2, <2>4, <2>5, <2>6 DEF CopyInv
<1>6. CASE Copy!Free # {}
  <2>1. PICK g : g = Copy!Lowest(Copy!Free)
    OBVIOUS
  <2>2. g \in ProxyFd /\ file[g] = None
    BY <1>2, <1>6, <2>1, LowestProxyFd
  <2>3. /\ file' = [file EXCEPT ![g] = <<k, "server">>]
        /\ rw' = [rw EXCEPT ![k]["server"] = g]
        /\ at' = [at EXCEPT ![t] = "dialling"]
        /\ waits' = [waits EXCEPT ![t] = <<g, "w">>]
        /\ task' = None /\ queue' = queue
    BY <1>1, <1>6, <2>1 DEF Copy!Dials, Copy!Goes, Copy!W!fdwait
  <2>4. rw'[k]["server"] = g /\ \A j \in Conn : j # k => rw'[j] = rw[j]
    BY <1>2, <1>3, <2>3 DEF CopyTyped
  <2>5. /\ Courses' /\ Watching'
        /\ \A j \in Conn, e \in Copy!Side : Kept(j, e)' <=>
             IF j = k THEN "dialling" = "dialling" ELSE Kept(j, e)
        /\ \A j \in Conn, e \in Copy!Side :
             at[Copy!Rw(j, e)] = "exited" => at'[Copy!Rw(j, e)] = "exited"
    BY <1>1, <1>2, <1>3, <2>3, <2>4, PxMoves
  <2>6. \A j \in Conn, e \in Copy!Side :
          Kept(j, e)' <=> Kept(j, e) \/ (j = k /\ e = "server")
    BY <1>3, <1>4, <2>5
  <2>7. KeptOpen' /\ OpenKept'
    <3>1. ~Kept(k, "server")
      BY <1>3, <1>4
    <3> QED BY <1>2, <1>3, <2>2, <2>3, <2>6, <3>1, KeptMore DEF CopyInv
  <2>8. Astray'
    BY <1>2, <1>3, <2>5, AstrayStays DEF CopyInv
  <2>9. CopyTyped'
    <3>1. <<k, "server">> \in Copy!Sock /\ <<g, "w">> \in Copy!Io
      BY <1>3, <2>2 DEF Copy!Sock, Copy!Io
    <3>2. rw' \in [Conn -> [Copy!Side -> ProxyFd \cup {0}]]
      BY <1>2, <1>3, <2>2, <2>3 DEF CopyTyped
    <3>3. file' \in [ProxyFd -> Copy!Sock \cup {None}]
      BY <1>2, <2>2, <2>3, <3>1 DEF CopyTyped
    <3>4. at' \in [Copy!Tasks -> Place] /\ waits' \in [Copy!Tasks -> Copy!Io \cup {None}]
      BY <1>2, <2>3, <3>1 DEF CopyTyped, Place
    <3> QED BY <1>2, <1>3, <2>3, <3>2, <3>3, <3>4 DEF CopyTyped
  <2> QED BY <2>5, <2>7, <2>8, <2>9 DEF CopyInv
<1> QED BY <1>5, <1>6

(* The server refuses.                                                     *)
LEMMA ProxyGivesUp ==
  ASSUME Copy!ProxyAssumption, CopyInv, NEW k \in Conn, Copy!Dialled(k), dialled[k] # "ok"
  PROVE  CopyInv'
<1>1. PICK t : t = Copy!Px(k)
  OBVIOUS
<1>2. t \in Copy!Tasks /\ CopyTyped /\ task = t /\ at[t] = "dialling"
  BY <1>1, ProxyTasks DEF CopyInv, Copy!Dialled, Copy!At
<1>3. /\ got' = got /\ backlog' = backlog /\ rw' = rw /\ task' = None
      /\ queue' = queue /\ waits' = waits
      /\ at' = [at EXCEPT ![t] = "exited"] /\ file' = Copy!GivenUp(k)
  BY <1>1 DEF Copy!Dialled, Copy!peerVars, Copy!Goes
<1>4. /\ Courses' /\ Watching'
      /\ \A j \in Conn, e \in Copy!Side : Kept(j, e)' <=>
           IF j = k THEN "exited" = "dialling" ELSE Kept(j, e)
      /\ \A j \in Conn, e \in Copy!Side :
           at[Copy!Rw(j, e)] = "exited" => at'[Copy!Rw(j, e)] = "exited"
  BY <1>1, <1>2, <1>3, PxMoves
<1>5. \A e \in Copy!Side : Kept(k, e)
  BY <1>1, <1>2 DEF Kept
<1>6. \A j \in Conn, e \in Copy!Side :
        Kept(j, e)' <=> Kept(j, e) /\ ~(j = k /\ e \in Copy!Side)
  BY <1>4
<1>7. KeptOpen' /\ OpenKept'
  <2>1. \A f \in ProxyFd :
          file'[f] = IF \E e \in Copy!Side : f = rw[k][e] THEN None ELSE file[f]
    BY <1>2, <1>3, ProxyTasks DEF CopyTyped, Copy!GivenUp
  <2>2. Copy!Side \in SUBSET Copy!Side
    OBVIOUS
  <2> QED BY <1>2, <1>3, <1>5, <1>6, <2>1, <2>2, KeptLess DEF CopyInv
<1>8. Astray'
  BY <1>2, <1>3, <1>4, AstrayStays DEF CopyInv
<1>9. CopyTyped'
  BY <1>2, <1>3 DEF CopyTyped, Place, Copy!GivenUp
<1> QED BY <1>4, <1>7, <1>8, <1>9 DEF CopyInv

(* The server accepts, and the copying tasks are created.                  *)
LEMMA ProxyConnects ==
  ASSUME Copy!ProxyAssumption, CopyInv, NEW k \in Conn, Copy!Dialled(k), dialled[k] = "ok"
  PROVE  CopyInv'
<1>1. PICK t : t = Copy!Px(k)
  OBVIOUS
<1>2. t \in Copy!Tasks /\ CopyTyped /\ task = t /\ at[t] = "dialling" /\ Course(k)
  BY <1>1, ProxyTasks DEF CopyInv, Courses, Copy!Dialled, Copy!At
<1>3. /\ got' = got /\ backlog' = backlog /\ rw' = rw /\ file' = file /\ task' = None
      /\ waits' = waits
  BY DEF Copy!Dialled, Copy!peerVars
<1>4. PICK c \in Copy!Tasks, s \in Copy!Tasks :
        c = Copy!Rw(k, "client") /\ s = Copy!Rw(k, "server") /\ c # s /\ c # t /\ s # t
  BY <1>1, ProxyTasks
<1>5. /\ at' = [at EXCEPT ![t] = "exited", ![c] = "read", ![s] = "read"]
      /\ queue' = queue \cup {c, s}
  BY <1>1, <1>4 DEF Copy!Dialled
<1>6. /\ at'[t] = "exited" /\ at'[c] = "read" /\ at'[s] = "read"
      /\ \A u \in Copy!Tasks \ {t, c, s} : Same(u)
  BY <1>2, <1>3, <1>4, <1>5 DEF CopyTyped, Same, Alert
<1>7. \A d \in Copy!Side : at'[Copy!Rw(k, d)] = "read" /\ Copy!Rw(k, d) \in queue'
                             /\ at[Copy!Rw(k, d)] = "none"
  BY <1>1, <1>2, <1>4, <1>5, <1>6, ProxyTasks DEF Course
<1>8. ASSUME NEW j \in Conn, j # k PROVE SameAt(j)
  <2>1. Copy!Px(j) \in Copy!Tasks \ {t, c, s}
    BY <1>1, <1>4, <1>8, ProxyTasks
  <2>2. \A d \in Copy!Side : Copy!Rw(j, d) \in Copy!Tasks \ {t, c, s}
    BY <1>1, <1>4, <1>8, ProxyTasks
  <2> QED BY <1>3, <1>6, <1>8, <2>1, <2>2 DEF SameAt
<1>9. Elsewhere({k})
  BY <1>3, <1>8 DEF Elsewhere
<1>10. Course(k)'
  <2>1. k \notin backlog' /\ \A d \in Copy!Side : rw'[k][d] \in ProxyFd
    BY <1>1, <1>2, <1>3 DEF Course, CopyInv, KeptOpen, Kept
  <2> QED BY <1>1, <1>6, <1>7, <2>1 DEF Course
<1>11. PxWatches(k)' /\ \A d \in Copy!Side : RwWatches(k, d)'
  BY <1>1, <1>6, <1>7 DEF PxWatches, RwWatches, Alert
<1>12. Courses' /\ Watching'
  BY <1>9, <1>10, <1>11, OthersStay
<1>13. \A j \in Conn, e \in Copy!Side : Kept(j, e)' <=> Kept(j, e)
  <2>1. \A e \in Copy!Side : Kept(k, e) /\ Kept(k, e)'
    BY <1>1, <1>2, <1>7 DEF Kept, Copy!Copying
  <2>2. ASSUME NEW j \in Conn, j # k, NEW e \in Copy!Side PROVE Kept(j, e)' <=> Kept(j, e)
    BY <1>8, <2>2 DEF SameAt, Same, Kept, Copy!Copying
  <2> QED BY <2>1, <2>2
<1>14. KeptOpen' /\ OpenKept'
  BY <1>3, <1>13, KeptSame DEF CopyInv
<1>15. Astray'
  <2>1. \A j \in Conn, e \in Copy!Side :
          at[Copy!Rw(j, e)] = "exited" => at'[Copy!Rw(j, e)] = "exited"
    BY <1>7, <1>8 DEF SameAt, Same
  <2> QED BY <1>2, <1>3, <2>1, AstrayStays DEF CopyInv
<1>16. CopyTyped'
  <2>1. at' \in [Copy!Tasks -> Place]
    BY <1>2, <1>5 DEF CopyTyped, Place
  <2> QED BY <1>2, <1>3, <1>4, <1>5, <2>1 DEF CopyTyped
<1> QED BY <1>12, <1>14, <1>15, <1>16 DEF CopyInv

(* The scheduler, a round of fdtask, and what the peers do.                *)
LEMMA ProxyWaits ==
  ASSUME Copy!ProxyAssumption, CopyInv,
         (\E t \in Copy!Tasks : Copy!Gets(t)) \/ Copy!Poll \/ Copy!Peer \/ UNCHANGED Copy!vars
  PROVE  CopyInv'
<1>1. CopyTyped
  BY DEF CopyInv
<1>2. /\ at' = at /\ rw' = rw /\ file' = file /\ got' = got
      /\ backlog' \subseteq Conn
      /\ \A k \in backlog' : k \in backlog \/ at[Copy!Px(k)] = "none"
  <2>1. CASE \E t \in Copy!Tasks : Copy!Gets(t)
    BY <1>1, <2>1 DEF Copy!Gets, Copy!peerVars, CopyTyped
  <2>2. CASE Copy!Poll
    BY <1>1, <2>2 DEF Copy!Poll, Copy!peerVars, CopyTyped
  <2>3. CASE Copy!Peer
    BY <1>1, <2>3
       DEF Copy!Peer, Copy!Connects, Copy!Answers, Copy!Sends, CopyTyped
  <2>4. CASE UNCHANGED Copy!vars
    BY <1>1, <2>4 DEF Copy!vars, Copy!peerVars, CopyTyped
  <2> QED BY <2>1, <2>2, <2>3, <2>4
<1>3. /\ queue' \subseteq Copy!Tasks /\ task' \in Copy!Tasks \cup {None}
      /\ waits' \in [Copy!Tasks -> Copy!Io \cup {None}]
      /\ \A u \in Copy!Tasks : Alert(u)' \/ (~Alert(u) /\ waits'[u] = waits[u])
  <2>1. CASE \E t \in Copy!Tasks : Copy!Gets(t)
    <3>1. PICK t \in Copy!Tasks : /\ task = None /\ t \in queue /\ task' = t
                                  /\ queue' = queue \ {t} /\ waits' = waits
      BY <2>1 DEF Copy!Gets, Copy!W!Dispatch
    <3>2. None \notin Copy!Tasks
      BY DEF Copy!ProxyAssumption
    <3> QED BY <1>1, <3>1, <3>2 DEF CopyTyped, Alert
  <2>2. CASE Copy!Poll
    <3>1. PICK R \in SUBSET Copy!Tasks :
            /\ task = None /\ queue = {} /\ queue' = R /\ task' = task
            /\ waits' = [t \in Copy!Tasks |-> IF t \in R THEN None ELSE waits[t]]
      BY <2>2 DEF Copy!Poll, Copy!W!PollRound
    <3>2. None \notin Copy!Tasks
      BY DEF Copy!ProxyAssumption
    <3> QED BY <1>1, <3>1, <3>2 DEF CopyTyped, Alert
  <2>3. CASE Copy!Peer
    BY <1>1, <2>3 DEF Copy!Peer, Copy!pollVars, CopyTyped, Alert
  <2>4. CASE UNCHANGED Copy!vars
    BY <1>1, <2>4 DEF Copy!vars, Copy!pollVars, CopyTyped, Alert
  <2> QED BY <2>1, <2>2, <2>3, <2>4
<1>4. CopyTyped'
  BY <1>1, <1>2, <1>3 DEF CopyTyped
<1>5. Elsewhere({})
  BY <1>2, <1>3, ProxyTasks DEF Elsewhere, SameAt, Same
<1> QED BY <1>2, <1>4, <1>5, NobodyMoves

(* tcpproxy.c, for any number of clients and of descriptors, although the  *)
(* kernel gives the numbers of closed ones away at once: a copying task    *)
(* reads from and closes only its own connection's descriptor, and bytes   *)
(* of another connection reach a peer only from a task whose partner has   *)
(* returned; some task will close every open descriptor; and once the      *)
(* servers have answered and all streams have ended the proxy settles with *)
(* every connection closed and only taskmain() left.                       *)
THEOREM ProxyCorrect ==
  ASSUME Copy!ProxyAssumption
  PROVE  Copy!Spec => []ProxyInv
<1>1. Copy!Init => CopyInv
  <2> SUFFICES ASSUME Copy!Init PROVE CopyInv
    OBVIOUS
  <2>1. Copy!Main \in Copy!Tasks
    BY ProxyTasks
  <2>2. CopyTyped
    BY <2>1 DEF Copy!Init, CopyTyped, Place
  <2>3. /\ \A k \in Conn : at[Copy!Px(k)] = "none"
        /\ \A k \in Conn, d \in Copy!Side : at[Copy!Rw(k, d)] = "none"
    BY ProxyTasks DEF Copy!Init
  <2>4. Courses
    BY <2>3 DEF Courses, Course
  <2>5. KeptOpen /\ OpenKept
    BY <2>3 DEF Copy!Init, KeptOpen, OpenKept, Kept, Copy!Copying
  <2>6. Watching
    BY <2>3 DEF Watching, PxWatches, RwWatches
  <2>7. Astray
    BY DEF Copy!Init, Astray
  <2> QED BY <2>2, <2>4, <2>5, <2>6, <2>7 DEF CopyInv
<1>2. CopyInv /\ [Copy!Next]_(Copy!vars) => CopyInv'
  <2> SUFFICES ASSUME CopyInv, [Copy!Next]_(Copy!vars) PROVE CopyInv'
    OBVIOUS
  <2>1. CASE Copy!Announced
    BY <2>1, MainMoves
       DEF Copy!Announced, Copy!At, Copy!Goes, Copy!W!fdwait, Copy!peerVars, Place
  <2>2. CASE Copy!Accepts
    BY <2>2, ProxyAccepts
  <2>3. ASSUME NEW k \in Conn, Copy!Dials(k) PROVE CopyInv'
    BY <2>3, ProxyDials
  <2>4. ASSUME NEW k \in Conn, Copy!Dialled(k) PROVE CopyInv'
    BY <2>4, ProxyGivesUp, ProxyConnects
  <2>5. ASSUME NEW k \in Conn, NEW d \in Copy!Side, Copy!Reads(k, d) PROVE CopyInv'
    BY <2>5, ProxyReads
  <2>6. ASSUME NEW k \in Conn, NEW d \in Copy!Side, Copy!Writes(k, d) PROVE CopyInv'
    BY <2>6, ProxyWrites
  <2>7. ASSUME NEW k \in Conn, NEW d \in Copy!Side, Copy!Finishes(k, d) PROVE CopyInv'
    BY <2>7, ProxyFinishes
  <2>8. CASE \/ \E t \in Copy!Tasks : Copy!Gets(t)
             \/ Copy!Poll \/ Copy!Peer \/ UNCHANGED Copy!vars
    BY <2>8, ProxyWaits
  <2> QED BY <2>1, <2>2, <2>3, <2>4, <2>5, <2>6, <2>7, <2>8 DEF Copy!Next, Copy!TaskStep
<1>3. CopyInv => ProxyInv
  BY CopyInvImplies
<1> QED BY <1>1, <1>2, <1>3, PTL DEF Copy!Spec
=============================================================================
