---------------------------- MODULE ChannelProofs ----------------------------
(***************************************************************************)
(* Theorems about channel.c (module Channel), for any tasks, any channels  *)
(* of any capacity and any set of chanalt() calls.                         *)
(*                                                                         *)
(* The inductive invariant is IInv.  MeetInv and QueueInv lean on each     *)
(* other: who is parked where is known from the Altarrays only while each  *)
(* of their entries belongs to a parked call, and altexec() finds a parked *)
(* peer only where the buffer is empty or full.  That what waits in a ring *)
(* was sent needs the Alts of parked senders to point to values (AltInv).  *)
(***************************************************************************)
EXTENDS Channel, CoopFacts

(* A ring of n slots with its counters in range, values where they say.    *)
RingOK(q, n) ==
  /\ q \in [nbuf : 0..n, off : Nat, buf : [0..(n - 1) -> Value \cup {Junk}]]
  /\ q.off < n \/ q.off = 0
  /\ \A k \in 0..(q.nbuf - 1) : q.buf[(q.off + k) % n] \in Value

RingPart == \A c \in Chan : RingOK(ring[c], BufSize[c])

(* A parked call remembers one of its Alts, and its sends have a value.    *)
AltInv ==
  \A t \in Task :
    /\ alts[t] # <<>> => xalt[t] \in DOMAIN alts[t]
    /\ \A i \in DOMAIN alts[t] : alts[t][i].op = "SND" => alts[t][i].v # Junk

IInv == CoopOK /\ TypeOK /\ RingPart /\ AltInv /\ QueueInv /\ MeetInv

-----------------------------------------------------------------------------
(* The index of a slot, once around the ring.                              *)
LEMMA Wrap ==
  ASSUME NEW n \in Nat \ {0}, NEW x \in 0..(2 * n - 1)
  PROVE  /\ x % n = IF x < n THEN x ELSE x - n
         /\ x % n \in 0..(n - 1)
<1>1. x % n = IF x < n THEN x ELSE x - n
  OBVIOUS
<1> QED BY <1>1

(* The index of a slot that is in range.                                   *)
LEMMA WrapNot ==
  ASSUME NEW n \in Nat \ {0}, NEW x \in 0..(n - 1)
  PROVE  x % n = x
OBVIOUS

(* Different distances from the first slot are different slots.            *)
LEMMA SlotsDiffer ==
  ASSUME NEW n \in Nat \ {0}, NEW o \in 0..(n - 1), NEW b \in 0..(n - 1),
         NEW k \in 0..(b - 1)
  PROVE  /\ (o + k) % n # (o + b) % n
         /\ (o + k) % n \in 0..(n - 1) /\ (o + b) % n \in 0..(n - 1)
<1> DEFINE x == o + k
           y == o + b
<1>1. x \in 0..(2 * n - 1) /\ y \in 0..(2 * n - 1) /\ y - x \in 1..(n - 1)
  OBVIOUS
<1> HIDE DEF x, y
<1>2. x % n = (IF x < n THEN x ELSE x - n) /\ x % n \in 0..(n - 1)
  BY <1>1, Wrap
<1>3. y % n = (IF y < n THEN y ELSE y - n) /\ y % n \in 0..(n - 1)
  BY <1>1, Wrap
<1>4. x % n # y % n
  BY <1>1, <1>2, <1>3
<1> QED BY <1>2, <1>3, <1>4 DEF x, y

(* Advancing the first slot by one brings every slot one closer.           *)
LEMMA SlotAdvance ==
  ASSUME NEW n \in Nat \ {0}, NEW o \in 0..(n - 1), NEW k \in 0..(n - 2),
         NEW o1, o1 = IF o + 1 = n THEN 0 ELSE o + 1
  PROVE  (o1 + k) % n = (o + (k + 1)) % n
<1>1. CASE o + 1 = n
  <2>1. o1 + k = k /\ o + (k + 1) = n + k
    BY <1>1
  <2>2. k \in 0..(2 * n - 1) /\ k < n /\ n + k \in 0..(2 * n - 1) /\ n + k - n = k
    OBVIOUS
  <2>3. k % n = k
    BY <2>2, Wrap
  <2>4. (n + k) % n = k
    BY <2>2, Wrap
  <2> QED BY <2>1, <2>3, <2>4
<1>2. CASE o + 1 # n
  <2>1. o1 + k = o + (k + 1)
    BY <1>2
  <2> QED BY <2>1
<1> QED BY <1>1, <1>2

(* What a ring holds is a sequence of values.                              *)
LEMMA ContentsIs ==
  ASSUME NEW n \in Nat, NEW q, RingOK(q, n)
  PROVE  /\ Contents(q, n) \in Seq(Value) /\ Len(Contents(q, n)) = q.nbuf
         /\ \A k \in 1..q.nbuf : Contents(q, n)[k] = q.buf[(q.off + k - 1) % n]
         /\ q.nbuf \in Nat /\ q.nbuf <= n /\ q.off \in Nat
<1>1. q.nbuf \in Nat /\ q.nbuf <= n /\ q.off \in Nat
  BY DEF RingOK
<1>2. ASSUME NEW k \in 1..q.nbuf PROVE q.buf[(q.off + k - 1) % n] \in Value
  <2>1. k - 1 \in 0..(q.nbuf - 1) /\ q.off + (k - 1) = q.off + k - 1
    BY <1>1
  <2> QED BY <2>1 DEF RingOK
<1>3. Contents(q, n) \in [1..q.nbuf -> Value]
  BY <1>2 DEF Contents
<1>4. Contents(q, n) \in Seq(Value) /\ Len(Contents(q, n)) = q.nbuf
  BY <1>1, <1>3, FunctionIsQueue
<1> QED BY <1>1, <1>4 DEF Contents

(* Taking the oldest value out of a ring.                                  *)
LEMMA RingTakeOK ==
  ASSUME NEW n \in Nat, NEW q, RingOK(q, n), q.nbuf > 0
  PROVE  /\ RingOK(RingTake(q, n), n) /\ RingTake(q, n).nbuf = q.nbuf - 1
         /\ RingHead(q) \in Value /\ RingHead(q) = Head(Contents(q, n))
         /\ Contents(RingTake(q, n), n) = Tail(Contents(q, n))
<1> DEFINE r == RingTake(q, n)
<1>1. /\ q \in [nbuf : 0..n, off : Nat, buf : [0..(n - 1) -> Value \cup {Junk}]]
      /\ q.nbuf \in 1..n /\ q.off \in 0..(n - 1) /\ n \in Nat \ {0}
      /\ \A k \in 0..(q.nbuf - 1) : q.buf[(q.off + k) % n] \in Value
  BY DEF RingOK
<1>2. /\ r \in [nbuf : 0..n, off : Nat, buf : [0..(n - 1) -> Value \cup {Junk}]]
      /\ r.nbuf = q.nbuf - 1 /\ r.buf = q.buf
      /\ r.off = (IF q.off + 1 = n THEN 0 ELSE q.off + 1)
  <2> DEFINE o == IF q.off + 1 = n THEN 0 ELSE q.off + 1
  <2>1. q.nbuf - 1 \in 0..n /\ o \in Nat
    BY <1>1
  <2>2. r = [q EXCEPT !.nbuf = q.nbuf - 1, !.off = o]
    BY <1>1 DEF RingTake
  <2> HIDE DEF r, o
  <2>3. /\ r \in [nbuf : 0..n, off : Nat, buf : [0..(n - 1) -> Value \cup {Junk}]]
        /\ r.nbuf = q.nbuf - 1 /\ r.buf = q.buf /\ r.off = o
    BY <1>1, <2>1, <2>2
  <2> QED BY <2>3 DEF o
<1> HIDE DEF r
<1>3. ASSUME NEW k \in 0..(q.nbuf - 2)
      PROVE  (r.off + k) % n = (q.off + (k + 1)) % n
  <2>1. k \in 0..(n - 2)
    BY <1>1
  <2> QED BY <1>1, <1>2, <2>1, SlotAdvance
<1>4. RingOK(r, n)
  <2>1. r.off < n \/ r.off = 0
    BY <1>1, <1>2
  <2>2. ASSUME NEW k \in 0..(r.nbuf - 1) PROVE r.buf[(r.off + k) % n] \in Value
    <3>1. k \in 0..(q.nbuf - 2) /\ k + 1 \in 0..(q.nbuf - 1)
      BY <1>1, <1>2
    <3> QED BY <1>1, <1>2, <1>3, <3>1
  <2> QED BY <1>2, <2>1, <2>2 DEF RingOK
<1>5. /\ Contents(q, n) \in Seq(Value) /\ Len(Contents(q, n)) = q.nbuf
      /\ \A k \in 1..q.nbuf : Contents(q, n)[k] = q.buf[(q.off + k - 1) % n]
  BY ContentsIs
<1>6. /\ Contents(r, n) \in Seq(Value) /\ Len(Contents(r, n)) = q.nbuf - 1
      /\ \A k \in 1..(q.nbuf - 1) : Contents(r, n)[k] = q.buf[(r.off + k - 1) % n]
  <2>1. /\ Contents(r, n) \in Seq(Value) /\ Len(Contents(r, n)) = r.nbuf
        /\ \A k \in 1..r.nbuf : Contents(r, n)[k] = r.buf[(r.off + k - 1) % n]
    BY <1>4, ContentsIs
  <2> QED BY <1>2, <2>1
<1>7. RingHead(q) \in Value /\ RingHead(q) = Head(Contents(q, n))
  <2>1. q.off % n = q.off
    BY <1>1, WrapNot
  <2>2. 0 \in 0..(q.nbuf - 1) /\ q.off + 0 = q.off /\ q.off + 1 - 1 = q.off
        /\ 1 \in 1..q.nbuf
    BY <1>1
  <2>3. q.buf[q.off] \in Value
    BY <1>1, <2>1, <2>2
  <2>4. Contents(q, n)[1] = q.buf[q.off]
    BY <1>5, <2>1, <2>2
  <2>5. Head(Contents(q, n)) = Contents(q, n)[1]
    BY <1>1, <1>5
  <2> QED BY <2>3, <2>4, <2>5 DEF RingHead
<1>8. Contents(r, n) = Tail(Contents(q, n))
  <2> DEFINE s == Contents(q, n)
  <2>1. s # <<>> /\ Tail(s) \in Seq(Value) /\ Len(Tail(s)) = q.nbuf - 1
        /\ \A k \in 1..(q.nbuf - 1) : Tail(s)[k] = s[k + 1]
    BY <1>1, <1>5, HeadTailProperties
  <2>2. ASSUME NEW k \in 1..(q.nbuf - 1) PROVE Contents(r, n)[k] = Tail(s)[k]
    <3>1. k - 1 \in 0..(q.nbuf - 2) /\ k + 1 \in 1..q.nbuf
          /\ r.off + (k - 1) = r.off + k - 1 /\ q.off + ((k - 1) + 1) = q.off + (k + 1) - 1
      BY <1>1, <1>2
    <3>2. (r.off + k - 1) % n = (q.off + (k + 1) - 1) % n
      BY <1>3, <3>1
    <3> QED BY <1>5, <1>6, <2>1, <3>1, <3>2
  <2> QED BY <1>6, <2>1, <2>2, SeqEqual
<1> QED BY <1>2, <1>4, <1>7, <1>8 DEF r

(* Putting a value into a ring that is not full.                           *)
LEMMA RingPutOK ==
  ASSUME NEW n \in Nat, NEW q, RingOK(q, n), q.nbuf < n, NEW v \in Value
  PROVE  /\ RingOK(RingPut(q, n, v), n) /\ RingPut(q, n, v).nbuf = q.nbuf + 1
         /\ Contents(RingPut(q, n, v), n) = Append(Contents(q, n), v)
<1> DEFINE r == RingPut(q, n, v)
           j == (q.off + q.nbuf) % n
<1>1. /\ q \in [nbuf : 0..n, off : Nat, buf : [0..(n - 1) -> Value \cup {Junk}]]
      /\ q.nbuf \in 0..(n - 1) /\ q.off \in 0..(n - 1) /\ n \in Nat \ {0}
      /\ \A k \in 0..(q.nbuf - 1) : q.buf[(q.off + k) % n] \in Value
  BY DEF RingOK
<1>2. j \in 0..(n - 1)
  BY <1>1, Wrap
<1>3. /\ r \in [nbuf : 0..n, off : Nat, buf : [0..(n - 1) -> Value \cup {Junk}]]
      /\ r.nbuf = q.nbuf + 1 /\ r.off = q.off
      /\ r.buf = [q.buf EXCEPT ![j] = v]
  <2> DEFINE b == [q.buf EXCEPT ![j] = v]
  <2>1. q.nbuf + 1 \in 0..n
    BY <1>1
  <2>2. r = [q EXCEPT !.buf = b, !.nbuf = q.nbuf + 1]
    BY <1>1 DEF RingPut
  <2> HIDE DEF j
  <2>3. b \in [0..(n - 1) -> Value \cup {Junk}]
    BY <1>1, <1>2
  <2> HIDE DEF r, b
  <2>4. /\ r \in [nbuf : 0..n, off : Nat, buf : [0..(n - 1) -> Value \cup {Junk}]]
        /\ r.nbuf = q.nbuf + 1 /\ r.off = q.off /\ r.buf = b
    BY <1>1, <2>1, <2>2, <2>3
  <2> QED BY <2>4 DEF b
<1>4. ASSUME NEW k \in 0..(q.nbuf - 1)
      PROVE  (q.off + k) % n # j /\ (q.off + k) % n \in 0..(n - 1)
  BY <1>1, SlotsDiffer
<1> HIDE DEF r, j
<1>5. ASSUME NEW k \in 0..(q.nbuf - 1)
      PROVE  r.buf[(q.off + k) % n] = q.buf[(q.off + k) % n]
  BY <1>1, <1>2, <1>3, <1>4
<1>6. r.buf[(q.off + q.nbuf) % n] = v
  BY <1>1, <1>2, <1>3 DEF j
<1>7. RingOK(r, n)
  <2>1. ASSUME NEW k \in 0..(r.nbuf - 1) PROVE r.buf[(r.off + k) % n] \in Value
    <3>1. CASE k = q.nbuf
      BY <1>3, <1>6, <3>1
    <3>2. CASE k # q.nbuf
      <4>1. k \in 0..(q.nbuf - 1)
        BY <1>1, <1>3, <3>2
      <4> QED BY <1>1, <1>3, <1>5, <4>1
    <3> QED BY <3>1, <3>2
  <2> QED BY <1>1, <1>3, <2>1 DEF RingOK
<1>8. Contents(r, n) = Append(Contents(q, n), v)
  <2> DEFINE s == Contents(q, n)
  <2>1. /\ s \in Seq(Value) /\ Len(s) = q.nbuf
        /\ \A k \in 1..q.nbuf : s[k] = q.buf[(q.off + k - 1) % n]
    BY ContentsIs
  <2>2. /\ Contents(r, n) \in Seq(Value) /\ Len(Contents(r, n)) = q.nbuf + 1
        /\ \A k \in 1..(q.nbuf + 1) : Contents(r, n)[k] = r.buf[(q.off + k - 1) % n]
    BY <1>3, <1>7, ContentsIs
  <2> HIDE DEF s
  <2>3. /\ Append(s, v) \in Seq(Value) /\ Len(Append(s, v)) = q.nbuf + 1
        /\ \A k \in 1..q.nbuf : Append(s, v)[k] = s[k]
        /\ Append(s, v)[q.nbuf + 1] = v
    BY <2>1, AppendProperties
  <2>4. ASSUME NEW k \in 1..(q.nbuf + 1) PROVE Contents(r, n)[k] = Append(s, v)[k]
    <3>1. CASE k = q.nbuf + 1
      <4>1. q.off + k - 1 = q.off + q.nbuf
        BY <1>1, <3>1
      <4> QED BY <1>6, <2>2, <2>3, <3>1, <4>1
    <3>2. CASE k # q.nbuf + 1
      <4>1. k \in 1..q.nbuf /\ k - 1 \in 0..(q.nbuf - 1) /\ q.off + (k - 1) = q.off + k - 1
        BY <1>1, <3>2
      <4>2. r.buf[(q.off + k - 1) % n] = q.buf[(q.off + k - 1) % n]
        BY <1>5, <4>1
      <4> QED BY <2>1, <2>2, <2>3, <4>1, <4>2
    <3> QED BY <3>1, <3>2
  <2> QED BY <2>2, <2>3, <2>4, SeqEqual DEF s
<1> QED BY <1>3, <1>7, <1>8 DEF r

-----------------------------------------------------------------------------
(* What altcopy() does when a sender and a receiver meet: the value goes   *)
(* in at the back of the buffer and the oldest one comes out at its front. *)
LEMMA BothOK ==
  ASSUME RingPart, NEW c \in Chan, NEW v \in Value \cup {NullPtr}
  PROVE  LET n == BufSize[c]
             s == Append(Contents(ring[c], n), Fetch(v))
         IN  /\ RingOK(AfterBoth(c, v), n) /\ AfterBoth(c, v).nbuf = ring[c].nbuf
             /\ Received(c, v) \in Value /\ Fetch(v) \in Value
             /\ Received(c, v) = Head(s) /\ Contents(AfterBoth(c, v), n) = Tail(s)
<1> DEFINE n == BufSize[c]
           q == ring[c]
           x == Fetch(v)
<1>1. n \in Nat /\ RingOK(q, n) /\ x \in Value
  BY ChannelAssumption DEF RingPart, Fetch
<1>2. Contents(q, n) \in Seq(Value) /\ Len(Contents(q, n)) = q.nbuf /\ q.nbuf \in Nat
      /\ q.nbuf <= n
  BY <1>1, ContentsIs
<1> HIDE DEF n, x
<1>3. CASE q.nbuf = 0
  <2>1. AfterBoth(c, v) = q /\ Received(c, v) = x
    BY <1>3 DEF AfterBoth, Received, Direct, x
  <2>2. Contents(q, n) = <<>>
    BY <1>2, <1>3
  <2>3. Append(Contents(q, n), x) = <<x>> /\ Head(<<x>>) = x /\ Tail(<<x>>) = <<>>
    BY <2>2
  <2> QED BY <1>1, <2>1, <2>2, <2>3 DEF n, x
<1>4. CASE q.nbuf # 0
  <2> DEFINE r == RingTake(q, n)
  <2>1. /\ RingOK(r, n) /\ r.nbuf = q.nbuf - 1
        /\ RingHead(q) \in Value /\ RingHead(q) = Head(Contents(q, n))
        /\ Contents(r, n) = Tail(Contents(q, n))
    BY <1>1, <1>2, <1>4, RingTakeOK
  <2>2. AfterBoth(c, v) = RingPut(r, n, x) /\ Received(c, v) = RingHead(q)
    BY <1>4 DEF AfterBoth, AfterRecv, Received, Direct, x, n
  <2> HIDE DEF r
  <2>3. r.nbuf < n
    BY <1>1, <1>2, <1>4, <2>1
  <2>4. /\ RingOK(RingPut(r, n, x), n) /\ RingPut(r, n, x).nbuf = r.nbuf + 1
        /\ Contents(RingPut(r, n, x), n) = Append(Contents(r, n), x)
    BY <1>1, <2>1, <2>3, RingPutOK
  <2>5. r.nbuf + 1 = q.nbuf
    BY <1>2, <2>1
  <2>6. Contents(q, n) # <<>>
    BY <1>2, <1>4
  <2>7. /\ Head(Append(Contents(q, n), x)) = Head(Contents(q, n))
        /\ Tail(Append(Contents(q, n), x)) = Append(Tail(Contents(q, n)), x)
    BY <1>2, <2>6, HeadTailAppend
  <2> QED BY <1>1, <2>1, <2>2, <2>4, <2>5, <2>7 DEF n, x
<1> QED BY <1>3, <1>4

(* A ring in order has its type.                                           *)
LEMMA RingTyped ==
  ASSUME NEW c \in Chan, NEW q, RingOK(q, BufSize[c])
  PROVE  q \in [nbuf : Nat, off : Nat,
                buf : UNION {[0..(BufSize[d] - 1) -> Value \cup {Junk}] : d \in Chan}]
<1>1. /\ q \in [nbuf : 0..BufSize[c], off : Nat,
                buf : [0..(BufSize[c] - 1) -> Value \cup {Junk}]]
  BY DEF RingOK
<1>2. q.buf \in UNION {[0..(BufSize[d] - 1) -> Value \cup {Junk}] : d \in Chan}
  BY <1>1
<1>3. q.nbuf \in Nat /\ q.off \in Nat
  BY <1>1, ChannelAssumption
<1> QED BY <1>1, <1>2, <1>3

(* The rings after a step that gives channel c a ring in order.            *)
LEMMA RingUpdate ==
  ASSUME TypeOK, RingPart, NEW c \in Chan, NEW q, RingOK(q, BufSize[c]),
         ring' = [ring EXCEPT ![c] = q]
  PROVE  /\ RingPart' /\ ring'[c] = q /\ \A d \in Chan \ {c} : ring'[d] = ring[d]
         /\ ring' \in [Chan -> [nbuf : Nat, off : Nat,
              buf : UNION {[0..(BufSize[d] - 1) -> Value \cup {Junk}] : d \in Chan}]]
<1> DEFINE R == [nbuf : Nat, off : Nat,
                 buf : UNION {[0..(BufSize[d] - 1) -> Value \cup {Junk}] : d \in Chan}]
<1>1. ring \in [Chan -> R] /\ q \in R
  BY RingTyped DEF TypeOK
<1> HIDE DEF R
<1>2. ring'[c] = q /\ (\A d \in Chan \ {c} : ring'[d] = ring[d]) /\ ring' \in [Chan -> R]
  BY <1>1
<1>3. RingPart'
  BY <1>2 DEF RingPart
<1> QED BY <1>2, <1>3 DEF R

(* Of the Alts of a call.                                                  *)
LEMMA CallFacts ==
  ASSUME NEW k \in Calls, NEW i \in DOMAIN k.alts
  PROVE  /\ k.alts \in Seq(Alt) /\ k.alts[i] \in Alt /\ i \in Nat \ {0}
         /\ k.alts[i].op = "SND" => k.alts[i].v \in Value \cup {NullPtr}
<1>1. k.alts \in Seq(Alt) /\ (k.alts[i].op = "SND" => k.alts[i].v # Junk)
  BY ChannelAssumption
<1>2. i \in 1..Len(k.alts) /\ Len(k.alts) \in Nat
  BY <1>1
<1>3. k.alts[i] \in Alt
  BY <1>1, <1>2
<1> QED BY <1>1, <1>2, <1>3 DEF Alt

(* Whoever an Altarray entry belongs to is parked at that very Alt, and    *)
(* all its entries are where altdequeue() looks for them.                  *)
LEMMA PeerFacts ==
  ASSUME IInv, NEW c \in Chan, NEW op \in Op, NEW p \in chanarray(c, op)
  PROVE  /\ p[1] \in Parked /\ p[1] \in Task /\ p[2] \in DOMAIN alts[p[1]]
         /\ p = <<p[1], p[2]>> /\ p[2] \in Nat
         /\ alts[p[1]][p[2]] \in Alt
         /\ alts[p[1]][p[2]].c = c /\ alts[p[1]][p[2]].op = op
         /\ alts[p[1]][p[2]].op = "SND" => alts[p[1]][p[2]].v \in Value \cup {NullPtr}
         /\ Queued(p[1])
<1> USE DEF IInv
<1>1. p \in UNION {Entries(t, alts[t], c, op) : t \in Parked}
  BY DEF QueueInv
<1>2. PICK u \in Parked : p \in Entries(u, alts[u], c, op)
  BY <1>1
<1>3. PICK j \in DOMAIN alts[u] : p = <<u, j>> /\ alts[u][j].c = c /\ alts[u][j].op = op
  BY <1>2 DEF Entries
<1>4. u \in Task /\ alts[u] \in Seq(Alt)
  BY <1>2, ParkedFacts DEF TypeOK
<1>5. j \in 1..Len(alts[u]) /\ Len(alts[u]) \in Nat
  BY <1>3, <1>4
<1>6. alts[u][j] \in Alt
  BY <1>4, <1>5
<1>7. alts[u][j].op = "SND" => alts[u][j].v \in Value \cup {NullPtr}
  BY <1>3, <1>4, <1>6 DEF AltInv, Alt
<1>8. Queued(u)
  <2> SUFFICES ASSUME NEW d \in Chan, NEW o \in Op
               PROVE  Entries(u, alts[u], d, o) \subseteq chanarray(d, o)
    BY DEF Queued
  <2> QED BY <1>2 DEF QueueInv
<1>9. p[1] = u /\ p[2] = j
  BY <1>3
<1> QED BY <1>2, <1>3, <1>4, <1>5, <1>6, <1>7, <1>8, <1>9

-----------------------------------------------------------------------------
(* The Altarrays once all entries of a parked call are taken off and its   *)
(* task is readied.                                                        *)
LEMMA DequeueKeeps ==
  ASSUME IInv, NEW u \in Parked, Parked' = Parked \ {u},
         altarray' = [c \in Chan |-> [op \in Op |->
                        altarray[c][op] \ Entries(u, alts[u], c, op)]],
         \A x \in Task \ {u} : alts'[x] = alts[x],
         ended' => running' = NoTask
  PROVE  /\ QueueInv'
         /\ \A c \in Chan, op \in Op : chanarray(c, op)' \subseteq chanarray(c, op)
         /\ altarray' \in [Chan -> [Op -> SUBSET Ptr]]
<1> USE DEF IInv
<1>1. \A c \in Chan, op \in Op :
        chanarray(c, op)' = chanarray(c, op) \ Entries(u, alts[u], c, op)
  BY DEF chanarray
<1>2. ASSUME NEW c \in Chan, NEW op \in Op
      PROVE  chanarray(c, op)' = UNION {Entries(x, alts'[x], c, op) : x \in Parked'}
  <2>1. chanarray(c, op) = UNION {Entries(x, alts[x], c, op) : x \in Parked}
    BY DEF QueueInv
  <2>2. \A x \in Parked' : x \in Parked /\ x # u /\ alts'[x] = alts[x]
    BY ParkedFacts
  <2>3. \A x \in Parked' : Entries(x, alts[x], c, op) \cap Entries(u, alts[u], c, op) = {}
    BY <2>2 DEF Entries
  <2> HIDE DEF IInv
  <2>4. ASSUME NEW e
        PROVE  e \in chanarray(c, op)' <=> e \in UNION {Entries(x, alts'[x], c, op) : x \in Parked'}
    <3>1. ASSUME e \in chanarray(c, op)'
          PROVE  e \in UNION {Entries(x, alts'[x], c, op) : x \in Parked'}
      <4>1. e \in chanarray(c, op) /\ e \notin Entries(u, alts[u], c, op)
        BY <1>1, <3>1
      <4>2. PICK x \in Parked : e \in Entries(x, alts[x], c, op)
        BY <2>1, <4>1
      <4>3. x \in Parked'
        BY <4>1, <4>2
      <4> QED BY <2>2, <4>2, <4>3
    <3>2. ASSUME e \in UNION {Entries(x, alts'[x], c, op) : x \in Parked'}
          PROVE  e \in chanarray(c, op)'
      <4>1. PICK x \in Parked' : e \in Entries(x, alts'[x], c, op)
        BY <3>2
      <4>2. x \in Parked /\ e \in Entries(x, alts[x], c, op)
        BY <2>2, <4>1
      <4>3. e \notin Entries(u, alts[u], c, op)
        BY <2>3, <4>1, <4>2
      <4>4. e \in chanarray(c, op)
        BY <2>1, <4>2
      <4> QED BY <1>1, <4>3, <4>4
    <3> QED BY <3>1, <3>2
  <2> QED BY <2>4
<1>3. QueueInv'
  BY <1>2 DEF QueueInv
<1>4. altarray' \in [Chan -> [Op -> SUBSET Ptr]]
  <2>1. \A c \in Chan, op \in Op : altarray[c][op] \subseteq Ptr
    BY DEF TypeOK
  <2> QED BY <2>1
<1> QED BY <1>1, <1>3, <1>4

(* A chanalt() that meets a parked peer.                                   *)
LEMMA PeerKeeps ==
  ASSUME IInv, NEW t \in Task, NEW a \in Alt, a.op \in Op, NEW i \in Nat,
         a.op = "SND" => a.v \in Value \cup {NullPtr},
         NEW p \in chanarray(a.c, otherop(a.op)), ExecWithPeer(t, a, i, p), Running(t)
  PROVE  IInv' /\ Wake(t, <<p[1]>>) /\ Parked' = Parked \ {p[1]} /\ CoopNext
<1> USE DEF IInv
<1> DEFINE c == a.c
           u == p[1]
           j == p[2]
           b == alts[u][j]
           v == IF a.op = "SND" THEN a.v ELSE b.v
           w == Received(c, v)
<1>1. c \in Chan /\ otherop(a.op) \in Op /\ a.v \in Value \cup {Junk, NullPtr}
  BY DEF Alt, otherop, Op
<1>2. /\ u \in Parked /\ u \in Task /\ j \in DOMAIN alts[u] /\ j \in Nat
      /\ b \in Alt /\ b.c = c /\ b.op = otherop(a.op)
      /\ b.op = "SND" => b.v \in Value \cup {NullPtr}
      /\ Queued(u)
  BY <1>1, PeerFacts
<1>3. b.v \in Value \cup {Junk, NullPtr} /\ v \in Value \cup {NullPtr}
  BY <1>2 DEF Alt, otherop, Op
<1>4. /\ ring' = [ring EXCEPT ![c] = AfterBoth(c, v)]
      /\ alts' = IF b.op = "RCV" THEN [alts EXCEPT ![u][j].v = Store(b.v, w)] ELSE alts
      /\ result' = [result EXCEPT ![t] =
                      [i |-> i, v |-> IF a.op = "RCV" THEN Store(a.v, w) ELSE a.v]]
      /\ altalldequeue(p) /\ xalt' = [xalt EXCEPT ![u] = j] /\ Wake(t, <<u>>)
  BY <1>2 DEF ExecWithPeer
<1> HIDE DEF c, u, j, b, v, w
<1>5. CoopOK' /\ Parked' = Parked \ {u} /\ CoopNext /\ ~ended'
  BY <1>2, <1>4, MayWakeOne, WakeEffect
<1>6. RingOK(AfterBoth(c, v), BufSize[c]) /\ AfterBoth(c, v).nbuf = ring[c].nbuf
      /\ w \in Value
  BY <1>1, <1>3, BothOK DEF w
<1>7. /\ RingPart' /\ ring'[c] = AfterBoth(c, v) /\ \A d \in Chan \ {c} : ring'[d] = ring[d]
      /\ ring' \in [Chan -> [nbuf : Nat, off : Nat,
              buf : UNION {[0..(BufSize[d] - 1) -> Value \cup {Junk}] : d \in Chan}]]
  BY <1>1, <1>4, <1>6, RingUpdate
<1>8. \A d \in Chan : ring'[d].nbuf = ring[d].nbuf
  BY <1>6, <1>7
<1>9. alts \in [Task -> Seq(Alt)] /\ xalt \in [Task -> Nat] /\ alts[u] \in Seq(Alt)
  BY <1>2 DEF TypeOK
<1>10. /\ alts' \in [Task -> Seq(Alt)] /\ \A x \in Task \ {u} : alts'[x] = alts[x]
       /\ DOMAIN alts'[u] = DOMAIN alts[u]
       /\ \A m \in DOMAIN alts[u] : alts'[u][m].op = "SND" => alts'[u][m] = alts[u][m]
  <2>1. CASE b.op = "RCV"
    <3> DEFINE y == [b EXCEPT !.v = Store(b.v, w)]
               s == [alts[u] EXCEPT ![j] = y]
    <3>1. Store(b.v, w) \in Value \cup {Junk, NullPtr}
      BY <1>6 DEF Store
    <3>2. y \in Alt /\ y.op = "RCV"
      BY <1>2, <2>1, <3>1 DEF Alt
    <3>3. alts' = [alts EXCEPT ![u] = s]
      BY <1>4, <2>1 DEF b
    <3> HIDE DEF y
    <3>4. j \in 1..Len(alts[u])
      BY <1>2, <1>9
    <3>5. s \in Seq(Alt) /\ Len(s) = Len(alts[u])
          /\ \A m \in 1..Len(alts[u]) : s[m] = IF m = j THEN y ELSE alts[u][m]
      BY <1>9, <3>2, <3>4, ExceptSeq
    <3> HIDE DEF s
    <3>6. alts'[u] = s /\ alts' \in [Task -> Seq(Alt)]
          /\ \A x \in Task \ {u} : alts'[x] = alts[x]
      BY <1>2, <1>9, <3>3, <3>5
    <3>7. DOMAIN s = 1..Len(alts[u]) /\ DOMAIN alts[u] = 1..Len(alts[u])
      BY <1>9, <3>5
    <3>8. "RCV" # "SND"
      OBVIOUS
    <3> QED BY <3>2, <3>5, <3>6, <3>7, <3>8
  <2>2. CASE b.op # "RCV"
    BY <1>4, <1>9, <2>2
  <2> QED BY <2>1, <2>2
<1>11. /\ QueueInv' /\ altarray' \in [Chan -> [Op -> SUBSET Ptr]]
       /\ \A d \in Chan, op \in Op : chanarray(d, op)' \subseteq chanarray(d, op)
  <2>1. altarray' = [d \in Chan |-> [op \in Op |->
                       altarray[d][op] \ Entries(u, alts[u], d, op)]]
    BY <1>4 DEF altalldequeue, u
  <2> QED BY <1>2, <1>5, <1>10, <2>1, DequeueKeeps
<1>12. MeetInv'
  <2>1. "SND" \in Op /\ "RCV" \in Op
    BY DEF Op
  <2> QED BY <1>8, <1>11, <2>1 DEF MeetInv
<1>13. AltInv'
  <2> SUFFICES ASSUME NEW x \in Task
               PROVE  /\ alts'[x] # <<>> => xalt'[x] \in DOMAIN alts'[x]
                      /\ \A m \in DOMAIN alts'[x] : alts'[x][m].op = "SND" => alts'[x][m].v # Junk
    BY DEF AltInv
  <2>1. CASE x = u
    <3>1. xalt'[u] = j /\ j \in DOMAIN alts'[u]
      BY <1>2, <1>4, <1>9, <1>10
    <3>2. ASSUME NEW m \in DOMAIN alts'[u], alts'[u][m].op = "SND"
          PROVE  alts'[u][m].v # Junk
      <4>1. m \in DOMAIN alts[u] /\ alts'[u][m] = alts[u][m]
        BY <1>10, <3>2
      <4> QED BY <1>2, <3>2, <4>1 DEF AltInv
    <3> QED BY <2>1, <3>1, <3>2
  <2>2. CASE x # u
    BY <1>4, <1>9, <1>10, <2>2 DEF AltInv
  <2> QED BY <2>1, <2>2
<1>14. TypeOK'
  <2>1. result' \in [Task -> [i : Int, v : Value \cup {Junk, NullPtr}]]
    <3>1. (IF a.op = "RCV" THEN Store(a.v, w) ELSE a.v) \in Value \cup {Junk, NullPtr}
      BY <1>1, <1>6 DEF Store
    <3> QED BY <1>4, <3>1 DEF TypeOK
  <2>2. xalt' \in [Task -> Nat]
    BY <1>2, <1>4, <1>9
  <2> QED BY <1>5, <1>7, <1>10, <1>11, <2>1, <2>2 DEF TypeOK, CoopOK
<1> QED BY <1>4, <1>5, <1>7, <1>11, <1>12, <1>13, <1>14 DEF u

-----------------------------------------------------------------------------
(* What altcanexec() has found out when altexec() then meets nobody: the   *)
(* buffer alone can serve the Alt, and nobody waits at the channel.        *)
LEMMA CanAlone ==
  ASSUME IInv, NEW a \in Alt, altcanexec(a)
  PROVE  /\ a.op \in Op
         /\ chanarray(a.c, otherop(a.op)) = {} =>
              /\ a.op = "SND" => ring[a.c].nbuf < BufSize[a.c]
              /\ a.op = "RCV" => ring[a.c].nbuf > 0
              /\ chanarray(a.c, "SND") = {} /\ chanarray(a.c, "RCV") = {}
<1> USE DEF IInv
<1> DEFINE n == BufSize[a.c]
           b == ring[a.c].nbuf
<1>1. a.c \in Chan /\ a.op \in Op \cup {"NOP"} /\ n \in Nat
  BY ChannelAssumption DEF Alt
<1>2. b \in Nat /\ b <= n
  BY <1>1, ContentsIs DEF RingPart
<1>3. a.op # "NOP"
  BY DEF altcanexec
<1>4. CASE a.op = "SND"
  <2>1. otherop(a.op) = "RCV" /\ a.op # "RCV"
    BY <1>4 DEF otherop
  <2>2. CASE n = 0
    BY <1>3, <1>4, <2>1, <2>2 DEF altcanexec, Op
  <2>3. CASE n # 0
    <3>1. b < n
      BY <1>3, <1>4, <2>3 DEF altcanexec
    <3>2. b # n
      BY <1>1, <1>2, <3>1
    <3>3. chanarray(a.c, "SND") = {}
      BY <1>1, <3>2 DEF MeetInv
    <3> QED BY <1>4, <2>1, <3>1, <3>3 DEF Op
  <2> QED BY <2>2, <2>3
<1>5. CASE a.op = "RCV"
  <2>1. otherop(a.op) = "SND" /\ a.op # "SND"
    BY <1>5 DEF otherop
  <2>2. CASE n = 0
    BY <1>3, <1>5, <2>1, <2>2 DEF altcanexec, Op
  <2>3. CASE n # 0
    <3>1. b > 0
      BY <1>3, <1>5, <2>1, <2>3 DEF altcanexec
    <3>2. b # 0
      BY <1>1, <1>2, <3>1
    <3>3. chanarray(a.c, "RCV") = {}
      BY <1>1, <3>2 DEF MeetInv
    <3> QED BY <1>5, <2>1, <3>1, <3>3 DEF Op
  <2> QED BY <2>2, <2>3
<1> QED BY <1>1, <1>3, <1>4, <1>5 DEF Op

(* An Alt that cannot be executed: nobody waits at the other end, and the  *)
(* buffer is full for a send, empty for a receive.                         *)
LEMMA Cannot ==
  ASSUME IInv, NEW a \in Alt, a.op \in Op, ~altcanexec(a)
  PROVE  /\ chanarray(a.c, otherop(a.op)) = {}
         /\ a.op = "SND" => ring[a.c].nbuf = BufSize[a.c]
         /\ a.op = "RCV" => ring[a.c].nbuf = 0
<1> USE DEF IInv
<1> DEFINE n == BufSize[a.c]
           b == ring[a.c].nbuf
<1>1. a.c \in Chan /\ n \in Nat
  BY ChannelAssumption DEF Alt
<1>2. b \in Nat /\ b <= n
  BY <1>1, ContentsIs DEF RingPart
<1>3. a.op # "NOP"
  BY DEF Op
<1>4. CASE n = 0
  <2>1. chanarray(a.c, otherop(a.op)) = {}
    BY <1>3, <1>4 DEF altcanexec
  <2>2. b = 0 /\ b = n
    BY <1>2, <1>4
  <2> QED BY <2>1, <2>2
<1>5. CASE n # 0 /\ a.op = "SND"
  <2>1. ~(b < n) /\ otherop(a.op) = "RCV" /\ a.op # "RCV"
    BY <1>3, <1>5 DEF altcanexec, otherop
  <2>2. b = n /\ b # 0
    BY <1>1, <1>2, <1>5, <2>1
  <2>3. chanarray(a.c, "RCV") = {}
    BY <1>1, <2>2 DEF MeetInv
  <2> QED BY <2>1, <2>2, <2>3
<1>6. CASE n # 0 /\ a.op = "RCV"
  <2>1. ~(b > 0) /\ otherop(a.op) = "SND" /\ a.op # "SND"
    BY <1>3, <1>6 DEF altcanexec, otherop
  <2>2. b = 0 /\ b # n
    BY <1>1, <1>2, <1>6, <2>1
  <2>3. chanarray(a.c, "SND") = {}
    BY <1>1, <2>2 DEF MeetInv
  <2> QED BY <2>1, <2>2, <2>3
<1> QED BY <1>4, <1>5, <1>6 DEF Op

(* A step that leaves the Altarrays, their calls and the parked tasks.     *)
LEMMA SameCalls ==
  ASSUME IInv, Parked' = Parked, UNCHANGED <<altarray, alts, xalt>>,
         ended' => running' = NoTask
  PROVE  /\ QueueInv' /\ AltInv' /\ altarray' \in [Chan -> [Op -> SUBSET Ptr]]
         /\ alts' \in [Task -> Seq(Alt)] /\ xalt' \in [Task -> Nat]
         /\ \A c \in Chan, op \in Op : chanarray(c, op)' = chanarray(c, op)
<1> USE DEF IInv
<1>1. \A c \in Chan, op \in Op : chanarray(c, op)' = chanarray(c, op)
  BY DEF chanarray
<1>2. QueueInv'
  BY <1>1 DEF QueueInv
<1>3. AltInv'
  BY DEF AltInv
<1> QED BY <1>1, <1>2, <1>3 DEF TypeOK

(* A chanalt() that only the buffer serves.                                *)
LEMMA AloneKeeps ==
  ASSUME IInv, NEW t \in Task, NEW a \in Alt, altcanexec(a), NEW i \in Nat,
         a.op = "SND" => a.v \in Value \cup {NullPtr},
         chanarray(a.c, otherop(a.op)) = {}, ExecAlone(t, a, i)
  PROVE  IInv' /\ Parked' = Parked
<1> USE DEF IInv
<1> DEFINE c == a.c
           n == BufSize[c]
           r == IF a.op = "SND" THEN AfterSend(c, a.v) ELSE AfterRecv(c)
<1>1. c \in Chan /\ n \in Nat /\ a.v \in Value \cup {Junk, NullPtr} /\ RingOK(ring[c], n)
  BY ChannelAssumption DEF Alt, RingPart
<1>2. /\ a.op \in Op
      /\ a.op = "SND" => ring[c].nbuf < n
      /\ a.op = "RCV" => ring[c].nbuf > 0
      /\ chanarray(c, "SND") = {} /\ chanarray(c, "RCV") = {}
  BY CanAlone
<1>3. Running(t) /\ ring' = [ring EXCEPT ![c] = r] /\ UNCHANGED <<altarray, alts, xalt, coopVars>>
      /\ result' = [result EXCEPT ![t] = [i |-> i, v |->
                      IF a.op = "RCV" THEN Store(a.v, RingHead(ring[c])) ELSE a.v]]
  BY DEF ExecAlone
<1>4. CoopOK' /\ Parked' = Parked /\ ~ended'
  BY <1>3, IdleEffect DEF coopVars, Running
<1>5. RingOK(r, n) /\ (a.op = "RCV" => RingHead(ring[c]) \in Value)
  <2>1. CASE a.op = "SND"
    <3>1. Fetch(a.v) \in Value
      BY <2>1, ChannelAssumption DEF Fetch
    <3>2. RingOK(RingPut(ring[c], n, Fetch(a.v)), n)
      BY <1>1, <1>2, <2>1, <3>1, RingPutOK
    <3> QED BY <2>1, <3>2 DEF AfterSend
  <2>2. CASE a.op = "RCV"
    <3>1. RingOK(RingTake(ring[c], n), n) /\ RingHead(ring[c]) \in Value
      BY <1>1, <1>2, <2>2, RingTakeOK
    <3> QED BY <2>2, <3>1 DEF AfterRecv
  <2> QED BY <1>2, <2>1, <2>2 DEF Op
<1> HIDE DEF c, n, r
<1>6. /\ RingPart' /\ ring'[c] = r /\ \A d \in Chan \ {c} : ring'[d] = ring[d]
      /\ ring' \in [Chan -> [nbuf : Nat, off : Nat,
              buf : UNION {[0..(BufSize[d] - 1) -> Value \cup {Junk}] : d \in Chan}]]
  BY <1>1, <1>3, <1>5, RingUpdate DEF n
<1>7. /\ QueueInv' /\ AltInv' /\ altarray' \in [Chan -> [Op -> SUBSET Ptr]]
      /\ alts' \in [Task -> Seq(Alt)] /\ xalt' \in [Task -> Nat]
      /\ \A d \in Chan, op \in Op : chanarray(d, op)' = chanarray(d, op)
  BY <1>3, <1>4, SameCalls
<1>8. MeetInv'
  <2> SUFFICES ASSUME NEW d \in Chan
               PROVE  /\ chanarray(d, "SND")' # {} => ring'[d].nbuf = BufSize[d]
                      /\ chanarray(d, "RCV")' # {} => ring'[d].nbuf = 0
                      /\ \A p \in chanarray(d, "SND")', q \in chanarray(d, "RCV")' : p[1] = q[1]
    BY DEF MeetInv
  <2>1. chanarray(d, "SND")' = chanarray(d, "SND") /\ chanarray(d, "RCV")' = chanarray(d, "RCV")
    BY <1>7 DEF Op
  <2>2. CASE d = c
    BY <1>2, <2>1, <2>2 DEF c
  <2>3. CASE d # c
    <3>1. ring'[d] = ring[d]
      BY <1>6, <2>3
    <3> QED BY <2>1, <3>1 DEF MeetInv
  <2> QED BY <2>2, <2>3
<1>9. TypeOK'
  <2>1. result' \in [Task -> [i : Int, v : Value \cup {Junk, NullPtr}]]
    <3>1. (IF a.op = "RCV" THEN Store(a.v, RingHead(ring[c])) ELSE a.v)
            \in Value \cup {Junk, NullPtr}
      BY <1>1, <1>5 DEF Store
    <3> QED BY <1>3, <3>1 DEF TypeOK
  <2> QED BY <1>4, <1>6, <1>7, <2>1 DEF TypeOK, CoopOK
<1> QED BY <1>4, <1>6, <1>7, <1>8, <1>9

(* A chanalt() that parks its task: what it adds to the Altarrays.         *)
LEMMA ParksKeeps ==
  ASSUME IInv, NEW t \in Task, NEW k \in Calls, ChanAltParks(t, k)
  PROVE  IInv' /\ Parked' = Parked \cup {t} /\ t \notin Parked /\ CoopNext
<1> USE DEF IInv
<1>1. /\ Running(t) /\ alts[t] = <<>> /\ \A i \in DOMAIN k.alts : ~altcanexec(k.alts[i])
      /\ altallqueue(t, k.alts) /\ alts' = [alts EXCEPT ![t] = k.alts]
      /\ xalt' = [xalt EXCEPT ![t] = 1] /\ result' = [result EXCEPT ![t] = NoResult]
      /\ Block(t, <<>>) /\ ring' = ring
  BY DEF ChanAltParks, Calling
<1>2. /\ CoopOK' /\ Parked' = Parked \cup {t} /\ t \notin Parked /\ running' = NoTask
      /\ CoopNext
  BY <1>1, MayWakeOne, BlockEffect
<1>3. k.alts \in Seq(Alt) /\ alts \in [Task -> Seq(Alt)] /\ xalt \in [Task -> Nat]
      /\ altarray \in [Chan -> [Op -> SUBSET Ptr]]
  BY ChannelAssumption DEF TypeOK
<1>4. alts' \in [Task -> Seq(Alt)] /\ alts'[t] = k.alts
      /\ \A x \in Task \ {t} : alts'[x] = alts[x]
  BY <1>1, <1>3
<1>5. xalt' \in [Task -> Nat] /\ xalt'[t] = 1 /\ \A x \in Task \ {t} : xalt'[x] = xalt[x]
  BY <1>1, <1>3
<1>6. \A d \in Chan, op \in Op :
        chanarray(d, op)' = chanarray(d, op) \cup Entries(t, k.alts, d, op)
  BY <1>1 DEF altallqueue, chanarray
<1>7. ASSUME NEW d \in Chan, NEW op \in Op, NEW e \in Entries(t, k.alts, d, op)
      PROVE  /\ e \in Ptr /\ e[1] = t /\ chanarray(d, otherop(op)) = {}
             /\ op = "SND" => ring[d].nbuf = BufSize[d]
             /\ op = "RCV" => ring[d].nbuf = 0
  <2>1. PICK i \in DOMAIN k.alts : e = <<t, i>> /\ k.alts[i].c = d /\ k.alts[i].op = op
    BY <1>7 DEF Entries
  <2>2. k.alts[i] \in Alt /\ i \in Nat /\ ~altcanexec(k.alts[i])
    BY <1>1, CallFacts
  <2>3. /\ chanarray(d, otherop(op)) = {}
        /\ op = "SND" => ring[d].nbuf = BufSize[d]
        /\ op = "RCV" => ring[d].nbuf = 0
    BY <2>1, <2>2, Cannot
  <2> QED BY <2>1, <2>2, <2>3 DEF Ptr
<1>8. QueueInv'
  <2> SUFFICES ASSUME NEW d \in Chan, NEW op \in Op
               PROVE  chanarray(d, op)' = UNION {Entries(x, alts'[x], d, op) : x \in Parked'}
    BY <1>2 DEF QueueInv
  <2>1. chanarray(d, op) = UNION {Entries(x, alts[x], d, op) : x \in Parked}
    BY DEF QueueInv
  <2>2. \A x \in Parked : x \in Task /\ x # t /\ alts'[x] = alts[x]
    BY <1>2, <1>4, ParkedFacts
  <2> HIDE DEF IInv
  <2>3. ASSUME NEW e
        PROVE  e \in chanarray(d, op)' <=> e \in UNION {Entries(x, alts'[x], d, op) : x \in Parked'}
    <3>1. e \in chanarray(d, op)' <=> e \in chanarray(d, op) \/ e \in Entries(t, k.alts, d, op)
      BY <1>6
    <3>2. e \in chanarray(d, op) <=> \E x \in Parked : e \in Entries(x, alts[x], d, op)
      BY <2>1
    <3>3. (\E x \in Parked : e \in Entries(x, alts[x], d, op))
            <=> \E x \in Parked : e \in Entries(x, alts'[x], d, op)
      BY <2>2
    <3>4. (\E x \in Parked' : e \in Entries(x, alts'[x], d, op))
            <=> (\E x \in Parked : e \in Entries(x, alts'[x], d, op)) \/ e \in Entries(t, alts'[t], d, op)
      BY <1>2
    <3>5. Entries(t, alts'[t], d, op) = Entries(t, k.alts, d, op)
      BY <1>4
    <3> QED BY <3>1, <3>2, <3>3, <3>4, <3>5
  <2> QED BY <2>3
<1>9. MeetInv'
  <2> SUFFICES ASSUME NEW d \in Chan
               PROVE  /\ chanarray(d, "SND")' # {} => ring'[d].nbuf = BufSize[d]
                      /\ chanarray(d, "RCV")' # {} => ring'[d].nbuf = 0
                      /\ \A p \in chanarray(d, "SND")', q \in chanarray(d, "RCV")' : p[1] = q[1]
    BY DEF MeetInv
  <2> DEFINE S == chanarray(d, "SND")
             R == chanarray(d, "RCV")
             NS == Entries(t, k.alts, d, "SND")
             NR == Entries(t, k.alts, d, "RCV")
  <2>1. chanarray(d, "SND")' = S \cup NS /\ chanarray(d, "RCV")' = R \cup NR
    BY <1>6 DEF Op
  <2>2. \A e \in NS : e[1] = t /\ R = {} /\ ring[d].nbuf = BufSize[d]
    BY <1>7 DEF Op, otherop
  <2>3. \A e \in NR : e[1] = t /\ S = {} /\ ring[d].nbuf = 0
    <3>1. "RCV" \in Op /\ otherop("RCV") = "SND"
      BY DEF Op, otherop
    <3> QED BY <1>7, <3>1
  <2>4. /\ S # {} => ring[d].nbuf = BufSize[d]
        /\ R # {} => ring[d].nbuf = 0
        /\ \A p \in S, q \in R : p[1] = q[1]
    BY DEF MeetInv
  <2> HIDE DEF S, R, NS, NR
  <2>5. \A p \in S \cup NS, q \in R \cup NR : p[1] = q[1]
    BY <2>2, <2>3, <2>4
  <2> QED BY <1>1, <2>1, <2>2, <2>3, <2>4, <2>5
<1>10. AltInv'
  <2> SUFFICES ASSUME NEW x \in Task
               PROVE  /\ alts'[x] # <<>> => xalt'[x] \in DOMAIN alts'[x]
                      /\ \A m \in DOMAIN alts'[x] : alts'[x][m].op = "SND" => alts'[x][m].v # Junk
    BY DEF AltInv
  <2>1. CASE x = t
    <3>1. k.alts # <<>> => 1 \in DOMAIN k.alts
      BY <1>3
    <3>2. \A m \in DOMAIN k.alts : k.alts[m].op = "SND" => k.alts[m].v # Junk
      BY ChannelAssumption
    <3> QED BY <1>4, <1>5, <2>1, <3>1, <3>2
  <2>2. CASE x # t
    BY <1>4, <1>5, <2>2 DEF AltInv
  <2> QED BY <2>1, <2>2
<1>11. RingPart'
  BY <1>1 DEF RingPart
<1>12. TypeOK'
  <2>1. result' \in [Task -> [i : Int, v : Value \cup {Junk, NullPtr}]]
    BY <1>1 DEF TypeOK, NoResult
  <2>2. altarray' \in [Chan -> [Op -> SUBSET Ptr]]
    <3>1. \A d \in Chan, op \in Op : altarray[d][op] \cup Entries(t, k.alts, d, op) \subseteq Ptr
      BY <1>3, <1>7
    <3> QED BY <1>1, <3>1 DEF altallqueue
  <2> QED BY <1>1, <1>2, <1>4, <1>5, <2>1, <2>2 DEF TypeOK, CoopOK
<1> QED BY <1>2, <1>8, <1>9, <1>10, <1>11, <1>12

(* A step that leaves rings, Altarrays and calls alone.                    *)
LEMMA QuietKeeps ==
  ASSUME IInv, CoopOK', Parked' = Parked, ended' => running' = NoTask,
         UNCHANGED <<ring, altarray, alts, xalt>>,
         result' \in [Task -> [i : Int, v : Value \cup {Junk, NullPtr}]]
  PROVE  IInv'
<1> USE DEF IInv
<1>1. /\ QueueInv' /\ AltInv' /\ altarray' \in [Chan -> [Op -> SUBSET Ptr]]
      /\ alts' \in [Task -> Seq(Alt)] /\ xalt' \in [Task -> Nat]
      /\ \A c \in Chan, op \in Op : chanarray(c, op)' = chanarray(c, op)
  BY SameCalls
<1>2. RingPart'
  BY DEF RingPart
<1>3. MeetInv'
  <2>1. "SND" \in Op /\ "RCV" \in Op
    BY DEF Op
  <2> QED BY <1>1, <2>1 DEF MeetInv
<1>4. TypeOK'
  BY <1>1 DEF TypeOK, CoopOK
<1> QED BY <1>1, <1>2, <1>3, <1>4

(* A parked call that returns.                                             *)
LEMMA ReturnsKeeps ==
  ASSUME IInv, NEW t \in Task, ChanAltReturns(t)
  PROVE  IInv' /\ Parked' = Parked /\ t \notin Parked
<1> USE DEF IInv
<1>1. /\ Running(t) /\ alts[t] # <<>>
      /\ result' = [result EXCEPT ![t] = [i |-> xalt[t], v |-> alts[t][xalt[t]].v]]
      /\ alts' = [alts EXCEPT ![t] = <<>>] /\ UNCHANGED <<ring, altarray, xalt, coopVars>>
  BY DEF ChanAltReturns
<1>2. CoopOK' /\ Parked' = Parked /\ ~ended' /\ t \notin Parked
  BY <1>1, IdleEffect, ParkedFacts DEF coopVars, Running
<1>3. alts \in [Task -> Seq(Alt)] /\ alts[t] \in Seq(Alt) /\ xalt[t] \in DOMAIN alts[t]
      /\ xalt \in [Task -> Nat]
  BY <1>1 DEF TypeOK, AltInv
<1>4. alts' \in [Task -> Seq(Alt)] /\ alts'[t] = <<>> /\ \A x \in Task \ {t} : alts'[x] = alts[x]
  BY <1>1, <1>3
<1>5. alts[t][xalt[t]] \in Alt
  <2>1. xalt[t] \in 1..Len(alts[t])
    BY <1>3
  <2> QED BY <1>3, <2>1
<1>6. QueueInv'
  <2> SUFFICES ASSUME NEW d \in Chan, NEW op \in Op
               PROVE  chanarray(d, op)' = UNION {Entries(x, alts'[x], d, op) : x \in Parked'}
    BY <1>2 DEF QueueInv
  <2>1. chanarray(d, op) = UNION {Entries(x, alts[x], d, op) : x \in Parked}
    BY DEF QueueInv
  <2>2. \A x \in Parked : alts'[x] = alts[x]
    BY <1>2, <1>4, ParkedFacts
  <2>3. chanarray(d, op)' = chanarray(d, op)
    BY <1>1 DEF chanarray
  <2> QED BY <1>2, <2>1, <2>2, <2>3
<1>7. MeetInv'
  <2>1. \A d \in Chan, op \in Op : chanarray(d, op)' = chanarray(d, op)
    BY <1>1 DEF chanarray
  <2>2. "SND" \in Op /\ "RCV" \in Op
    BY DEF Op
  <2> QED BY <1>1, <2>1, <2>2 DEF MeetInv
<1>8. AltInv'
  <2> SUFFICES ASSUME NEW x \in Task
               PROVE  /\ alts'[x] # <<>> => xalt'[x] \in DOMAIN alts'[x]
                      /\ \A m \in DOMAIN alts'[x] : alts'[x][m].op = "SND" => alts'[x][m].v # Junk
    BY DEF AltInv
  <2>1. CASE x = t
    BY <1>4, <2>1
  <2>2. CASE x # t
    BY <1>1, <1>4, <2>2 DEF AltInv
  <2> QED BY <2>1, <2>2
<1>9. TypeOK'
  <2>1. result' \in [Task -> [i : Int, v : Value \cup {Junk, NullPtr}]]
    BY <1>1, <1>3, <1>5 DEF TypeOK, Alt
  <2> QED BY <1>1, <1>2, <1>3, <1>4, <2>1 DEF TypeOK, CoopOK
<1>10. RingPart'
  BY <1>1 DEF RingPart
<1> QED BY <1>2, <1>6, <1>7, <1>8, <1>9, <1>10

-----------------------------------------------------------------------------
(* The inductive invariant holds when the tasks start.                     *)
LEMMA InitIInv == Init => IInv
<1> SUFFICES ASSUME Init PROVE IInv
  OBVIOUS
<1>1. CoopOK /\ Parked = {} /\ running = NoTask
  BY AllReadyFacts DEF Init
<1>2. ASSUME NEW c \in Chan PROVE ring[c] = chancreate(c) /\ RingOK(chancreate(c), BufSize[c])
  <2>1. BufSize[c] \in Nat /\ 0 \in 0..BufSize[c] /\ 0 \in Nat
    BY ChannelAssumption
  <2>2. [m \in 0..(BufSize[c] - 1) |-> Junk] \in [0..(BufSize[c] - 1) -> Value \cup {Junk}]
    OBVIOUS
  <2>3. /\ chancreate(c) \in [nbuf : 0..BufSize[c], off : Nat,
                              buf : [0..(BufSize[c] - 1) -> Value \cup {Junk}]]
        /\ chancreate(c).nbuf = 0 /\ chancreate(c).off = 0
    BY <2>1, <2>2 DEF chancreate
  <2>4. 0..(0 - 1) = {}
    OBVIOUS
  <2> QED BY <2>3, <2>4 DEF Init, RingOK
<1>3. RingPart
  BY <1>2 DEF RingPart
<1>4. \A c \in Chan, op \in Op : chanarray(c, op) = {}
  BY DEF Init, chanarray
<1>5. QueueInv
  BY <1>1, <1>4 DEF QueueInv
<1>6. MeetInv
  <2>1. "SND" \in Op /\ "RCV" \in Op
    BY DEF Op
  <2> QED BY <1>4, <2>1 DEF MeetInv
<1>7. AltInv
  BY DEF AltInv, Init
<1>8. TypeOK
  <2>1. ring \in [Chan -> [nbuf : Nat, off : Nat,
          buf : UNION {[0..(BufSize[c] - 1) -> Value \cup {Junk}] : c \in Chan}]]
    <3>1. ring = [c \in Chan |-> chancreate(c)]
      BY DEF Init
    <3>2. \A c \in Chan : chancreate(c) \in [nbuf : Nat, off : Nat,
          buf : UNION {[0..(BufSize[d] - 1) -> Value \cup {Junk}] : d \in Chan}]
      BY <1>2, RingTyped
    <3> QED BY <3>1, <3>2
  <2>2. altarray \in [Chan -> [Op -> SUBSET Ptr]] /\ alts \in [Task -> Seq(Alt)]
        /\ xalt \in [Task -> Nat]
    BY DEF Init
  <2>3. result \in [Task -> [i : Int, v : Value \cup {Junk, NullPtr}]]
    BY DEF Init, NoResult
  <2> QED BY <1>1, <2>1, <2>2, <2>3 DEF TypeOK, CoopOK
<1> QED BY <1>1, <1>3, <1>5, <1>6, <1>7, <1>8 DEF IInv

(* A call that altexec() carries out.                                      *)
LEMMA ExecKeeps ==
  ASSUME IInv, NEW t \in Task, NEW k \in Calls, ChanAlt(t, k)
  PROVE  IInv' /\ (CoopNext \/ UNCHANGED coopVars)
<1>1. Running(t)
  BY DEF ChanAlt, Calling
<1>2. PICK i \in DOMAIN k.alts : altcanexec(k.alts[i]) /\ altexec(t, k.alts[i], i)
  BY DEF ChanAlt
<1> DEFINE a == k.alts[i]
<1>3. a \in Alt /\ i \in Nat /\ (a.op = "SND" => a.v \in Value \cup {NullPtr})
  BY CallFacts
<1>4. altcanexec(a) /\ altexec(t, a, i)
  BY <1>2
<1> HIDE DEF a
<1>5. a.op \in Op
  BY <1>3, <1>4, CanAlone
<1>6. CASE \E p \in chanarray(a.c, otherop(a.op)) : ExecWithPeer(t, a, i, p)
  BY <1>1, <1>3, <1>5, <1>6, PeerKeeps
<1>7. CASE chanarray(a.c, otherop(a.op)) = {} /\ ExecAlone(t, a, i)
  <2>1. UNCHANGED coopVars
    BY <1>7 DEF ExecAlone
  <2> QED BY <1>3, <1>4, <1>7, <2>1, AloneKeeps
<1> QED BY <1>4, <1>6, <1>7 DEF altexec

(* Every step of the program keeps the inductive invariant, and is one     *)
(* that the scheduler's contract allows.                                   *)
LEMMA NextIInv == IInv /\ [Next]_vars => IInv' /\ [CoopNext]_coopVars
<1> SUFFICES ASSUME IInv, [Next]_vars PROVE IInv' /\ [CoopNext]_coopVars
  OBVIOUS
<1> DEFINE R == [i : Int, v : Value \cup {Junk, NullPtr}]
<1>1. CoopOK /\ result \in [Task -> R] /\ (ended => running = NoTask)
  BY DEF IInv, TypeOK, QueueInv
<1>2. NoResult \in R /\ [NoResult EXCEPT !.i = 0] \in R
  BY DEF NoResult
<1> HIDE DEF R
<1>3. ASSUME NEW t \in Task, NEW k \in Calls, ChanAlt(t, k) PROVE IInv' /\ [CoopNext]_coopVars
  BY <1>3, ExecKeeps
<1>4. ASSUME NEW t \in Task, NEW k \in Calls, ChanAltFails(t, k)
      PROVE  IInv' /\ [CoopNext]_coopVars
  <2>1. Running(t) /\ UNCHANGED <<ring, altarray, alts, xalt>> /\ UNCHANGED coopVars
        /\ result' = [result EXCEPT ![t] = [NoResult EXCEPT !.i = 0]]
    BY <1>4 DEF ChanAltFails, Calling
  <2>2. CoopOK' /\ Parked' = Parked /\ (ended' => running' = NoTask)
    BY <1>1, <2>1, IdleEffect DEF coopVars
  <2>3. result' \in [Task -> R]
    BY <1>1, <1>2, <2>1
  <2> QED BY <2>1, <2>2, <2>3, QuietKeeps DEF R
<1>5. ASSUME NEW t \in Task, NEW k \in Calls, ChanAltParks(t, k)
      PROVE  IInv' /\ [CoopNext]_coopVars
  BY <1>5, ParksKeeps
<1>6. ASSUME NEW t \in Task, ChanAltReturns(t) PROVE IInv' /\ [CoopNext]_coopVars
  BY <1>6, ReturnsKeeps DEF ChanAltReturns
<1>7. ASSUME NEW t \in Task, Elsewhere(t) PROVE IInv' /\ [CoopNext]_coopVars
  <2>1. (Yield(t) \/ Exit(t)) /\ UNCHANGED <<ring, altarray, alts, xalt>>
        /\ result' = [result EXCEPT ![t] = NoResult]
    BY <1>7 DEF Elsewhere
  <2>2. CoopOK' /\ Parked' = Parked /\ running' = NoTask /\ CoopNext
    BY <1>1, <2>1, YieldEffect, ExitEffect
  <2>3. result' \in [Task -> R]
    BY <1>1, <1>2, <2>1
  <2> QED BY <2>1, <2>2, <2>3, QuietKeeps DEF R
<1>8. ASSUME Dispatch \/ End, UNCHANGED chanVars PROVE IInv' /\ [CoopNext]_coopVars
  <2>1. CoopOK' /\ Parked' = Parked /\ (ended' => running' = NoTask) /\ CoopNext
    BY <1>1, <1>8, DispatchEffect, EndEffect
  <2>2. UNCHANGED <<ring, altarray, alts, xalt>> /\ result' \in [Task -> R]
    BY <1>1, <1>8 DEF chanVars
  <2> QED BY <2>1, <2>2, QuietKeeps DEF R
<1>9. ASSUME UNCHANGED vars PROVE IInv' /\ [CoopNext]_coopVars
  <2>1. UNCHANGED coopVars /\ UNCHANGED chanVars
    BY <1>9 DEF vars
  <2>2. CoopOK' /\ Parked' = Parked /\ (ended' => running' = NoTask)
    BY <1>1, <2>1, IdleEffect DEF coopVars
  <2>3. UNCHANGED <<ring, altarray, alts, xalt>> /\ result' \in [Task -> R]
    BY <1>1, <2>1 DEF chanVars
  <2> QED BY <2>1, <2>2, <2>3, QuietKeeps DEF R
<1> QED BY <1>3, <1>4, <1>5, <1>6, <1>7, <1>8, <1>9 DEF Next

(* The inductive invariant of channel.c, for any number of tasks, channels *)
(* of any capacity and any chanalt() calls.                                *)
THEOREM Invariance == Spec => []IInv
<1>1. Init => IInv
  BY InitIInv
<1>2. IInv /\ [Next]_vars => IInv'
  BY NextIInv
<1> QED BY <1>1, <1>2, PTL DEF Spec

(* altdequeue() always finds the entries it takes off, and no Altarray     *)
(* points into the stack of a task that is not parked in chanalt().        *)
THEOREM QueuesCorrect == Spec => []QueueInv
<1>1. IInv => QueueInv
  BY DEF IInv
<1> QED BY <1>1, Invariance, PTL

(* A sender is parked only on a full buffer and a receiver only on an      *)
(* empty one, so that altcanexec() may look at the buffer only.            *)
THEOREM NobodyWaitsInVain == Spec => []MeetInv
<1>1. IInv => MeetInv
  BY DEF IInv
<1> QED BY <1>1, Invariance, PTL

(* No send overruns a ring of any capacity, no receive reads a slot that   *)
(* was not sent, and all variables keep their types.                       *)
THEOREM RingsCorrect == Spec => []RingInv
<1>1. IInv => RingInv
  <2> SUFFICES ASSUME IInv, NEW c \in Chan
               PROVE  LET q == ring[c]
                      IN  /\ q.nbuf <= BufSize[c] /\ (q.off < BufSize[c] \/ q.off = 0)
                          /\ \A k \in 0..(q.nbuf - 1) : q.buf[(q.off + k) % BufSize[c]] \in Value
    BY DEF IInv, RingInv
  <2>1. RingOK(ring[c], BufSize[c]) /\ BufSize[c] \in Nat
    BY ChannelAssumption DEF IInv, RingPart
  <2>2. ring[c].nbuf <= BufSize[c]
    BY <2>1, ContentsIs
  <2> QED BY <2>1, <2>2 DEF RingOK
<1> QED BY <1>1, Invariance, PTL

(* chanalt() readies only parked tasks, each once, and parks only the      *)
(* running task: it keeps to the contract of the scheduler.                *)
THEOREM ChannelsObeyKernel == Spec => KernelSteps
<1>1. IInv /\ [Next]_vars => [CoopNext]_coopVars
  BY NextIInv
<1> QED BY <1>1, Invariance, PTL DEF Spec, KernelSteps

-----------------------------------------------------------------------------
(* chanalt() implements module Exchange.  The partners an Alt has there    *)
(* are the entries on the Altarray of the other operation ...              *)
LEMMA PartnersAre ==
  ASSUME IInv, NEW a \in Alt
  PROVE  /\ a.op \in Op => Exchanged!Partners(a) = chanarray(a.c, otherop(a.op))
         /\ a.op \notin Op => Exchanged!Partners(a) = {}
<1> USE DEF IInv
<1> DEFINE P == {p \in UNION {{u} \X DOMAIN seenWaiting[u] : u \in Task} :
                   /\ a.c = seenWaiting[p[1]][p[2]].c
                   /\ {a.op, seenWaiting[p[1]][p[2]].op} = {"SND", "RCV"}}
<1>1. Exchanged!Partners(a) = P
  BY DEF Exchanged!Partners, Exchanged!Opposite
<1>2. \A u \in Task : seenWaiting[u] = IF u \in Parked THEN alts[u] ELSE <<>>
  BY DEF seenWaiting
<1>3. a.c \in Chan
  BY DEF Alt
<1>4. ASSUME a.op \in Op PROVE P = chanarray(a.c, otherop(a.op))
  <2> DEFINE c == a.c
             o == otherop(a.op)
  <2>1. o \in Op /\ \A x : {a.op, x} = {"SND", "RCV"} <=> x = o
    BY <1>4 DEF otherop, Op
  <2> HIDE DEF o
  <2>2. ASSUME NEW e \in P PROVE e \in chanarray(c, o)
    <3>1. PICK u \in Task : e \in {u} \X DOMAIN seenWaiting[u]
      BY <2>2
    <3>2. e = <<u, e[2]>> /\ e[1] = u /\ e[2] \in DOMAIN seenWaiting[u]
      BY <3>1
    <3>3. c = seenWaiting[u][e[2]].c /\ seenWaiting[u][e[2]].op = o
      BY <2>1, <2>2, <3>2
    <3>4. u \in Parked /\ seenWaiting[u] = alts[u]
      <4>1. CASE u \notin Parked
        <5>1. seenWaiting[u] = <<>>
          BY <1>2, <4>1
        <5>2. DOMAIN <<>> = {}
          OBVIOUS
        <5> QED BY <3>2, <5>1, <5>2
      <4>2. CASE u \in Parked
        BY <1>2, <4>2
      <4> QED BY <4>1, <4>2
    <3>5. e \in Entries(u, alts[u], c, o)
      BY <3>2, <3>3, <3>4 DEF Entries
    <3> QED BY <1>3, <2>1, <3>4, <3>5 DEF QueueInv
  <2>3. ASSUME NEW e \in chanarray(c, o) PROVE e \in P
    <3>1. /\ e[1] \in Parked /\ e[1] \in Task /\ e[2] \in DOMAIN alts[e[1]]
          /\ e = <<e[1], e[2]>> /\ alts[e[1]][e[2]].c = c /\ alts[e[1]][e[2]].op = o
      BY <1>3, <2>1, <2>3, PeerFacts
    <3>2. seenWaiting[e[1]] = alts[e[1]]
      BY <1>2, <3>1
    <3>3. e \in {e[1]} \X DOMAIN seenWaiting[e[1]]
      BY <3>1, <3>2
    <3> QED BY <2>1, <3>1, <3>2, <3>3
  <2> HIDE DEF P, c
  <2>4. P = chanarray(c, o)
    BY <2>2, <2>3
  <2> QED BY <2>4 DEF c, o
<1>5. ASSUME a.op \notin Op PROVE P = {}
  <2>1. \A x : {a.op, x} # {"SND", "RCV"}
    BY <1>5 DEF Op
  <2> QED BY <2>1
<1> QED BY <1>1, <1>4, <1>5

(* ... and an Alt that altcanexec() refuses is not possible there.         *)
LEMMA ImpossibleAlt ==
  ASSUME IInv, NEW a \in Alt, ~altcanexec(a)
  PROVE  ~Exchanged!Possible(a)
<1> DEFINE s == seenBuffer[a.c]
<1>1. a.c \in Chan /\ BufSize[a.c] \in Nat
  BY ChannelAssumption DEF Alt
<1>2. s \in Seq(Value) /\ Len(s) = ring[a.c].nbuf
  BY <1>1, ContentsIs DEF seenBuffer, IInv, RingPart
<1>3. CASE a.op \in Op
  <2>1. /\ chanarray(a.c, otherop(a.op)) = {}
        /\ a.op = "SND" => ring[a.c].nbuf = BufSize[a.c]
        /\ a.op = "RCV" => ring[a.c].nbuf = 0
    BY <1>3, Cannot
  <2>2. Exchanged!Partners(a) = {}
    BY <1>3, <2>1, PartnersAre
  <2>3. a.op = "SND" => ~(Len(s) < BufSize[a.c])
    BY <1>1, <1>2, <2>1
  <2>4. a.op = "RCV" => s = <<>>
    BY <1>2, <2>1
  <2> QED BY <2>2, <2>3, <2>4 DEF Exchanged!Possible
<1>4. CASE a.op \notin Op
  <2>1. Exchanged!Partners(a) = {}
    BY <1>4, PartnersAre
  <2> QED BY <1>4, <2>1 DEF Exchanged!Possible, Op
<1> QED BY <1>3, <1>4

(* What is seen of a step that only gives a calling task its result.       *)
LEMMA SeenResult ==
  ASSUME IInv, NEW t \in Task, alts[t] = <<>>, NEW r, Parked' = Parked,
         UNCHANGED <<alts, xalt>>, result' = [result EXCEPT ![t] = r]
  PROVE  seenResult' = [seenResult EXCEPT ![t] = r] /\ seenWaiting' = seenWaiting
<1>1. result \in [Task -> [i : Int, v : Value \cup {Junk, NullPtr}]]
  BY DEF IInv, TypeOK
<1>2. seenWaiting' = seenWaiting
  BY DEF seenWaiting
<1>3. ASSUME NEW x \in Task PROVE seenResult'[x] = IF x = t THEN r ELSE seenResult[x]
  BY <1>1 DEF seenResult
<1>4. DOMAIN seenResult = Task /\ seenResult = [x \in Task |-> seenResult[x]]
      /\ seenResult' = [x \in Task |-> seenResult'[x]]
  BY DEF seenResult
<1> HIDE DEF seenResult
<1> QED BY <1>2, <1>3, <1>4

(* What is seen of the buffers when a step gives channel c a ring.         *)
LEMMA SeenBuffer ==
  ASSUME NEW c \in Chan, \A d \in Chan \ {c} : ring'[d] = ring[d],
         NEW s, Contents(ring'[c], BufSize[c]) = s
  PROVE  seenBuffer' = [seenBuffer EXCEPT ![c] = s]
<1>1. ASSUME NEW d \in Chan PROVE seenBuffer'[d] = IF d = c THEN s ELSE seenBuffer[d]
  BY DEF seenBuffer
<1>2. DOMAIN seenBuffer = Chan /\ seenBuffer = [d \in Chan |-> seenBuffer[d]]
      /\ seenBuffer' = [d \in Chan |-> seenBuffer'[d]]
  BY DEF seenBuffer
<1> HIDE DEF seenBuffer
<1> QED BY <1>1, <1>2

(* A chanalt() that meets a parked peer settles both calls at once.        *)
LEMMA PeerMeets ==
  ASSUME IInv, NEW t \in Task, NEW a \in Alt, a.op \in Op, NEW i \in Nat,
         a.op = "SND" => a.v \in Value \cup {NullPtr}, Calling(t),
         NEW p \in chanarray(a.c, otherop(a.op)), ExecWithPeer(t, a, i, p)
  PROVE  p \in Exchanged!Partners(a) /\ Exchanged!Meet(t, a, i, p)
<1> USE DEF IInv
<1> DEFINE c == a.c
           u == p[1]
           j == p[2]
           b == alts[u][j]
           v == IF a.op = "SND" THEN a.v ELSE b.v
           w == Received(c, v)
           s == Append(Contents(ring[c], BufSize[c]), Fetch(v))
<1>1. c \in Chan /\ otherop(a.op) \in Op /\ Running(t) /\ alts[t] = <<>>
  BY DEF Alt, otherop, Op, Calling
<1>2. /\ u \in Parked /\ u \in Task /\ j \in DOMAIN alts[u]
      /\ b \in Alt /\ b.c = c /\ b.op = otherop(a.op)
      /\ b.op = "SND" => b.v \in Value \cup {NullPtr}
      /\ Queued(u)
  BY <1>1, PeerFacts
<1>3. v \in Value \cup {NullPtr} /\ b.op \in Op
  BY <1>2 DEF Alt, otherop, Op
<1>4. /\ ring' = [ring EXCEPT ![c] = AfterBoth(c, v)]
      /\ alts' = IF b.op = "RCV" THEN [alts EXCEPT ![u][j].v = Store(b.v, w)] ELSE alts
      /\ result' = [result EXCEPT ![t] =
                      [i |-> i, v |-> IF a.op = "RCV" THEN Store(a.v, w) ELSE a.v]]
      /\ xalt' = [xalt EXCEPT ![u] = j]
  BY <1>2 DEF ExecWithPeer
<1>5. Parked' = Parked \ {u}
  BY <1>1, PeerKeeps
<1>6. p \in Exchanged!Partners(a)
  BY PartnersAre
<1>7. w = Head(s) /\ Contents(AfterBoth(c, v), BufSize[c]) = Tail(s)
      /\ RingOK(AfterBoth(c, v), BufSize[c])
  BY <1>1, <1>3, BothOK
<1>8. /\ alts \in [Task -> Seq(Alt)] /\ xalt \in [Task -> Nat]
      /\ result \in [Task -> [i : Int, v : Value \cup {Junk, NullPtr}]]
  BY DEF TypeOK
<1>9. t # u /\ t \notin Parked
  BY <1>1, <1>2, ParkedFacts DEF Running
<1>10. seenWaiting[u] = alts[u] /\ seenBuffer[c] = Contents(ring[c], BufSize[c])
       /\ Exchanged!Sent(IF a.op = "SND" THEN a ELSE b) = Fetch(v)
  BY <1>1, <1>2 DEF seenWaiting, seenBuffer, Exchanged!Sent, Fetch
<1>11. /\ Exchanged!Outcome(i, a, w) =
             [i |-> i, v |-> IF a.op = "RCV" THEN Store(a.v, w) ELSE a.v]
       /\ Exchanged!Outcome(j, b, w) =
             [i |-> j, v |-> IF b.op = "RCV" THEN Store(b.v, w) ELSE b.v]
  <2>1. \A x \in {a, b} : (IF x.op = "SND" \/ x.v = NullPtr THEN x.v ELSE w) =
                          (IF x.op = "RCV" THEN Store(x.v, w) ELSE x.v)
    BY <1>3 DEF Op, Store
  <2> QED BY <2>1 DEF Exchanged!Outcome
<1> HIDE DEF c, w, s, v
<1>12. seenBuffer' = [seenBuffer EXCEPT ![c] = Tail(s)]
  <2>1. ring'[c] = AfterBoth(c, v) /\ \A d \in Chan \ {c} : ring'[d] = ring[d]
    BY <1>1, <1>4, <1>7, RingUpdate
  <2> QED BY <1>1, <1>7, <2>1, SeenBuffer
<1>13. /\ \A x \in Task \ {u} : alts'[x] = alts[x]
       /\ alts'[u] # <<>> /\ alts'[u][j].v = IF b.op = "RCV" THEN Store(b.v, w) ELSE b.v
  <2>1. alts[u] \in Seq(Alt) /\ j \in 1..Len(alts[u]) /\ alts[u] # <<>>
    BY <1>2, <1>8
  <2>2. CASE b.op = "RCV"
    <3> DEFINE y == [b EXCEPT !.v = Store(b.v, w)]
               z == [alts[u] EXCEPT ![j] = y]
    <3>1. alts' = [alts EXCEPT ![u] = z]
      BY <1>4, <2>2
    <3>2. y.v = Store(b.v, w)
      BY <1>2 DEF Alt
    <3> HIDE DEF y
    <3>3. DOMAIN z = DOMAIN alts[u] /\ z[j] = y
      BY <1>2
    <3> HIDE DEF z
    <3>4. alts'[u] = z /\ \A x \in Task \ {u} : alts'[x] = alts[x]
      BY <1>2, <1>8, <3>1
    <3>5. z # <<>>
      BY <1>2, <3>3
    <3> QED BY <2>2, <3>2, <3>3, <3>4, <3>5
  <2>3. CASE b.op # "RCV"
    BY <1>4, <2>1, <2>3
  <2> QED BY <2>2, <2>3
<1>14. seenWaiting' = [seenWaiting EXCEPT ![u] = <<>>]
  <2>1. ASSUME NEW x \in Task PROVE seenWaiting'[x] = IF x = u THEN <<>> ELSE seenWaiting[x]
    BY <1>5, <1>13 DEF seenWaiting
  <2>2. DOMAIN seenWaiting = Task /\ seenWaiting = [x \in Task |-> seenWaiting[x]]
        /\ seenWaiting' = [x \in Task |-> seenWaiting'[x]]
    BY DEF seenWaiting
  <2> HIDE DEF u
  <2> QED BY <2>1, <2>2
<1>15. seenResult' = [seenResult EXCEPT ![t] = Exchanged!Outcome(i, a, w),
                                        ![u] = Exchanged!Outcome(j, b, w)]
  <2> DEFINE rt == [i |-> i, v |-> IF a.op = "RCV" THEN Store(a.v, w) ELSE a.v]
             ru == [i |-> j, v |-> IF b.op = "RCV" THEN Store(b.v, w) ELSE b.v]
  <2>1. result'[t] = rt /\ \A x \in Task \ {t} : result'[x] = result[x]
    BY <1>4, <1>8
  <2>2. xalt'[u] = j /\ \A x \in Task \ {u} : xalt'[x] = xalt[x]
    BY <1>2, <1>4, <1>8
  <2>3. seenResult'[u] = ru
    BY <1>2, <1>5, <1>13, <2>2 DEF seenResult
  <2>4. seenResult'[t] = rt
    BY <1>1, <1>9, <1>13, <2>1 DEF seenResult
  <2>5. ASSUME NEW x \in Task, x # t, x # u PROVE seenResult'[x] = seenResult[x]
    BY <1>5, <1>13, <2>1, <2>2, <2>5 DEF seenResult
  <2>6. DOMAIN seenResult = Task /\ seenResult = [x \in Task |-> seenResult[x]]
        /\ seenResult' = [x \in Task |-> seenResult'[x]]
    BY DEF seenResult
  <2>7. Exchanged!Outcome(i, a, w) = rt /\ Exchanged!Outcome(j, b, w) = ru
    BY <1>11
  <2> HIDE DEF rt, ru, u, seenResult
  <2> QED BY <1>9, <2>3, <2>4, <2>5, <2>6, <2>7
<1>16. s = Append(seenBuffer[c], Exchanged!Sent(IF a.op = "SND" THEN a ELSE b))
  BY <1>10 DEF s
<1> QED BY <1>6, <1>7, <1>10, <1>12, <1>14, <1>15, <1>16 DEF Exchanged!Meet, c

(* A chanalt() that only the buffer serves.                                *)
LEMMA AloneHappens ==
  ASSUME IInv, NEW t \in Task, NEW a \in Alt, altcanexec(a), NEW i \in Nat,
         a.op = "SND" => a.v \in Value \cup {NullPtr}, Calling(t),
         chanarray(a.c, otherop(a.op)) = {}, ExecAlone(t, a, i)
  PROVE  Exchanged!Deposit(t, a, i) \/ Exchanged!Collect(t, a, i)
<1> DEFINE c == a.c
           n == BufSize[c]
           q == ring[c]
           r == IF a.op = "SND" THEN AfterSend(c, a.v) ELSE AfterRecv(c)
<1>1. c \in Chan /\ n \in Nat /\ RingOK(q, n) /\ alts[t] = <<>> /\ RingPart /\ TypeOK
  BY ChannelAssumption DEF Alt, IInv, RingPart, Calling
<1>2. /\ a.op \in Op
      /\ a.op = "SND" => q.nbuf < n
      /\ a.op = "RCV" => q.nbuf > 0
  BY CanAlone
<1>3. ring' = [ring EXCEPT ![c] = r] /\ UNCHANGED <<alts, xalt>>
      /\ result' = [result EXCEPT ![t] = [i |-> i, v |->
                      IF a.op = "RCV" THEN Store(a.v, RingHead(q)) ELSE a.v]]
  BY DEF ExecAlone
<1>4. Exchanged!Partners(a) = {}
  BY <1>2, PartnersAre
<1>5. seenBuffer[c] = Contents(q, n) /\ Contents(q, n) \in Seq(Value)
      /\ Len(Contents(q, n)) = q.nbuf /\ q.nbuf \in Nat
  BY <1>1, ContentsIs DEF seenBuffer
<1>6. Parked' = Parked
  BY AloneKeeps
<1> HIDE DEF c, n, q
<1>7. CASE a.op = "SND"
  <2> DEFINE x == Fetch(a.v)
  <2>1. x \in Value /\ r = RingPut(q, n, x) /\ Exchanged!Sent(a) = x
    BY <1>7, ChannelAssumption DEF Fetch, AfterSend, Exchanged!Sent, q, n
  <2> HIDE DEF r, x
  <2>2. RingOK(r, n) /\ Contents(r, n) = Append(Contents(q, n), x)
    BY <1>1, <1>2, <1>7, <2>1, RingPutOK
  <2>3. ring'[c] = r /\ \A d \in Chan \ {c} : ring'[d] = ring[d]
    BY <1>1, <1>3, <2>2, RingUpdate DEF n
  <2>4. seenBuffer' = [seenBuffer EXCEPT ![c] = Append(Contents(q, n), x)]
    BY <1>1, <2>2, <2>3, SeenBuffer DEF n
  <2>5. result' = [result EXCEPT ![t] = Exchanged!Outcome(i, a, Zero)]
    BY <1>3, <1>7 DEF Exchanged!Outcome
  <2>6. /\ seenResult' = [seenResult EXCEPT ![t] = Exchanged!Outcome(i, a, Zero)]
        /\ seenWaiting' = seenWaiting
    BY <1>1, <1>3, <1>6, <2>5, SeenResult
  <2>7. Len(seenBuffer[c]) < n
    BY <1>2, <1>5, <1>7
  <2> QED BY <1>4, <1>5, <1>7, <2>1, <2>4, <2>6, <2>7 DEF Exchanged!Deposit, c, n
<1>8. CASE a.op = "RCV"
  <2>1. r = RingTake(q, n)
    BY <1>8 DEF AfterRecv, q, n
  <2> HIDE DEF r
  <2>2. RingOK(r, n) /\ Contents(r, n) = Tail(Contents(q, n))
        /\ RingHead(q) = Head(Contents(q, n))
    BY <1>1, <1>2, <1>8, <2>1, RingTakeOK
  <2>3. ring'[c] = r /\ \A d \in Chan \ {c} : ring'[d] = ring[d]
    BY <1>1, <1>3, <2>2, RingUpdate DEF n
  <2>4. seenBuffer' = [seenBuffer EXCEPT ![c] = Tail(Contents(q, n))]
    BY <1>1, <2>2, <2>3, SeenBuffer DEF n
  <2> DEFINE h == Head(Contents(q, n))
  <2>5. result' = [result EXCEPT ![t] = Exchanged!Outcome(i, a, h)]
    <3>1. (IF a.op = "SND" \/ a.v = NullPtr THEN a.v ELSE h) = Store(a.v, RingHead(q))
      BY <1>8, <2>2 DEF Store
    <3> QED BY <1>3, <1>8, <3>1 DEF Exchanged!Outcome
  <2>6. /\ seenResult' = [seenResult EXCEPT ![t] = Exchanged!Outcome(i, a, h)]
        /\ seenWaiting' = seenWaiting
    BY <1>1, <1>3, <1>6, <2>5, SeenResult
  <2>7. seenBuffer[c] # <<>>
    BY <1>2, <1>5, <1>8
  <2> QED BY <1>4, <1>5, <1>8, <2>4, <2>6, <2>7 DEF Exchanged!Collect, c
<1> QED BY <1>2, <1>7, <1>8 DEF Op

(* The program starts as module Exchange does ...                          *)
LEMMA ExchangeInit == Init => Exchanged!Init
<1> SUFFICES ASSUME Init PROVE Exchanged!Init
  OBVIOUS
<1>1. \A c \in Chan : ring[c].nbuf = 0
  BY DEF Init, chancreate
<1>2. \A c \in Chan : Contents(ring[c], BufSize[c]) = <<>>
  BY <1>1 DEF Contents
<1>3. seenBuffer = [c \in Chan |-> <<>>]
  BY <1>2 DEF seenBuffer
<1>4. seenWaiting = [t \in Task |-> <<>>]
  BY DEF Init, seenWaiting
<1>5. seenResult = [t \in Task |-> Exchanged!NoResult]
  BY DEF Init, seenResult, NoResult, Exchanged!NoResult
<1> QED BY <1>3, <1>4, <1>5 DEF Exchanged!Init

(* ... and each of its steps is one there, or cannot be seen.              *)
LEMMA ExchangeNext == IInv /\ [Next]_vars => [Exchanged!Next]_(Exchanged!exchangeVars)
<1> SUFFICES ASSUME IInv, [Next]_vars
             PROVE  Exchanged!Next \/ UNCHANGED <<seenBuffer, seenWaiting, seenResult>>
  BY DEF Exchanged!exchangeVars
<1>1. CoopOK
  BY DEF IInv
<1>2. ASSUME NEW t \in Task, Running(t) PROVE t \notin Parked /\ seenWaiting[t] = <<>>
  BY <1>1, <1>2, ParkedFacts DEF Running, seenWaiting
<1>3. ASSUME Parked' = Parked, UNCHANGED chanVars
      PROVE  UNCHANGED <<seenBuffer, seenWaiting, seenResult>>
  BY <1>3 DEF chanVars, seenBuffer, seenWaiting, seenResult
<1>4. ASSUME NEW t \in Task, NEW k \in Calls, ChanAlt(t, k) PROVE Exchanged!Next
  <2>1. Calling(t) /\ seenWaiting[t] = <<>>
    BY <1>2, <1>4 DEF ChanAlt, Calling
  <2>2. PICK i \in DOMAIN k.alts : altcanexec(k.alts[i]) /\ altexec(t, k.alts[i], i)
    BY <1>4 DEF ChanAlt
  <2> DEFINE a == k.alts[i]
  <2>3. a \in Alt /\ i \in Nat /\ (a.op = "SND" => a.v \in Value \cup {NullPtr})
        /\ altcanexec(a) /\ altexec(t, a, i)
    BY <2>2, CallFacts
  <2>4. \/ \E p \in Exchanged!Partners(a) : Exchanged!Meet(t, a, i, p)
        \/ Exchanged!Deposit(t, a, i)
        \/ Exchanged!Collect(t, a, i)
    <3> HIDE DEF a
    <3>1. a.op \in Op
      BY <2>3, CanAlone
    <3>2. CASE \E p \in chanarray(a.c, otherop(a.op)) : ExecWithPeer(t, a, i, p)
      BY <2>1, <2>3, <3>1, <3>2, PeerMeets
    <3>3. CASE chanarray(a.c, otherop(a.op)) = {} /\ ExecAlone(t, a, i)
      BY <2>1, <2>3, <3>3, AloneHappens
    <3> QED BY <2>3, <3>2, <3>3 DEF altexec
  <2>5. Exchanged!Happens(t, k)
    BY <2>4 DEF Exchanged!Happens
  <2> QED BY <2>1, <2>5 DEF Exchanged!Next
<1>5. ASSUME NEW t \in Task, NEW k \in Calls, ChanAltFails(t, k) PROVE Exchanged!Next
  <2>1. /\ Running(t) /\ alts[t] = <<>> /\ ~k.canblock
        /\ \A i \in DOMAIN k.alts : ~altcanexec(k.alts[i])
        /\ result' = [result EXCEPT ![t] = [NoResult EXCEPT !.i = 0]]
        /\ UNCHANGED <<ring, alts, xalt, coopVars>>
    BY <1>5 DEF ChanAltFails, Calling
  <2>2. \A i \in DOMAIN k.alts : ~Exchanged!Possible(k.alts[i])
    BY <2>1, CallFacts, ImpossibleAlt
  <2>3. Parked' = Parked
    BY <1>1, <2>1, IdleEffect
  <2>4. /\ seenResult' = [seenResult EXCEPT ![t] = [Exchanged!NoResult EXCEPT !.i = 0]]
        /\ seenWaiting' = seenWaiting
    BY <2>1, <2>3, SeenResult DEF NoResult, Exchanged!NoResult
  <2>5. seenBuffer' = seenBuffer
    BY <2>1 DEF seenBuffer
  <2>6. Exchanged!Refused(t, k)
    BY <2>1, <2>2, <2>4, <2>5 DEF Exchanged!Refused
  <2> QED BY <1>2, <2>1, <2>6 DEF Exchanged!Next
<1>6. ASSUME NEW t \in Task, NEW k \in Calls, ChanAltParks(t, k) PROVE Exchanged!Next
  <2>1. /\ Running(t) /\ alts[t] = <<>> /\ k.canblock
        /\ \A i \in DOMAIN k.alts : ~altcanexec(k.alts[i])
        /\ alts' = [alts EXCEPT ![t] = k.alts] /\ xalt' = [xalt EXCEPT ![t] = 1]
        /\ result' = [result EXCEPT ![t] = NoResult] /\ ring' = ring
    BY <1>6 DEF ChanAltParks, Calling
  <2>2. \A i \in DOMAIN k.alts : ~Exchanged!Possible(k.alts[i])
    BY <2>1, CallFacts, ImpossibleAlt
  <2>3. Parked' = Parked \cup {t} /\ t \notin Parked
    BY <1>6, ParksKeeps
  <2>4. /\ alts \in [Task -> Seq(Alt)] /\ xalt \in [Task -> Nat]
        /\ result \in [Task -> [i : Int, v : Value \cup {Junk, NullPtr}]]
    BY DEF IInv, TypeOK
  <2>5. seenWaiting' = [seenWaiting EXCEPT ![t] = k.alts]
    <3>1. ASSUME NEW x \in Task
          PROVE  seenWaiting'[x] = IF x = t THEN k.alts ELSE seenWaiting[x]
      BY <2>1, <2>3, <2>4 DEF seenWaiting
    <3>2. DOMAIN seenWaiting = Task /\ seenWaiting = [x \in Task |-> seenWaiting[x]]
          /\ seenWaiting' = [x \in Task |-> seenWaiting'[x]]
      BY DEF seenWaiting
    <3> HIDE DEF seenWaiting
    <3> QED BY <3>1, <3>2
  <2>6. seenResult' = [seenResult EXCEPT ![t] = Exchanged!NoResult]
    <3>1. ASSUME NEW x \in Task
          PROVE  seenResult'[x] = IF x = t THEN NoResult ELSE seenResult[x]
      BY <2>1, <2>3, <2>4 DEF seenResult
    <3>2. DOMAIN seenResult = Task /\ seenResult = [x \in Task |-> seenResult[x]]
          /\ seenResult' = [x \in Task |-> seenResult'[x]]
      BY DEF seenResult
    <3>3. NoResult = Exchanged!NoResult
      BY DEF NoResult, Exchanged!NoResult
    <3> HIDE DEF seenResult
    <3> QED BY <3>1, <3>2, <3>3
  <2>7. seenBuffer' = seenBuffer
    BY <2>1 DEF seenBuffer
  <2>8. Exchanged!Wait(t, k)
    BY <2>1, <2>2, <2>5, <2>6, <2>7 DEF Exchanged!Wait
  <2> QED BY <1>2, <2>1, <2>8 DEF Exchanged!Next
<1>7. ASSUME NEW t \in Task, ChanAltReturns(t)
      PROVE  UNCHANGED <<seenBuffer, seenWaiting, seenResult>>
  <2>1. /\ Running(t) /\ alts[t] # <<>>
        /\ result' = [result EXCEPT ![t] = [i |-> xalt[t], v |-> alts[t][xalt[t]].v]]
        /\ alts' = [alts EXCEPT ![t] = <<>>] /\ UNCHANGED <<ring, xalt>>
    BY <1>7 DEF ChanAltReturns
  <2>2. Parked' = Parked /\ t \notin Parked
    BY <1>7, ReturnsKeeps
  <2>3. /\ alts \in [Task -> Seq(Alt)]
        /\ result \in [Task -> [i : Int, v : Value \cup {Junk, NullPtr}]]
    BY DEF IInv, TypeOK
  <2>4. \A x \in Task : seenWaiting'[x] = seenWaiting[x]
    BY <2>1, <2>2, <2>3 DEF seenWaiting
  <2>5. \A x \in Task : seenResult'[x] = seenResult[x]
    BY <2>1, <2>2, <2>3 DEF seenResult
  <2>6. /\ seenWaiting = [x \in Task |-> seenWaiting[x]]
        /\ seenWaiting' = [x \in Task |-> seenWaiting'[x]]
        /\ seenResult = [x \in Task |-> seenResult[x]]
        /\ seenResult' = [x \in Task |-> seenResult'[x]]
    BY DEF seenWaiting, seenResult
  <2>7. seenBuffer' = seenBuffer
    BY <2>1 DEF seenBuffer
  <2> HIDE DEF seenWaiting, seenResult
  <2> QED BY <2>4, <2>5, <2>6, <2>7
<1>8. ASSUME NEW t \in Task, Elsewhere(t) PROVE Exchanged!Next
  <2>1. /\ Running(t) /\ alts[t] = <<>> /\ (Yield(t) \/ Exit(t))
        /\ UNCHANGED <<ring, alts, xalt>> /\ result' = [result EXCEPT ![t] = NoResult]
    BY <1>8 DEF Elsewhere, Calling
  <2>2. Parked' = Parked
    BY <1>1, <2>1, YieldEffect, ExitEffect
  <2>3. seenResult' = [seenResult EXCEPT ![t] = Exchanged!NoResult] /\ seenWaiting' = seenWaiting
    BY <2>1, <2>2, SeenResult DEF NoResult, Exchanged!NoResult
  <2>4. seenBuffer' = seenBuffer
    BY <2>1 DEF seenBuffer
  <2>5. Exchanged!Forget(t)
    BY <1>2, <2>1, <2>3, <2>4 DEF Exchanged!Forget
  <2> QED BY <2>5 DEF Exchanged!Next
<1>9. ASSUME Dispatch \/ End, UNCHANGED chanVars
      PROVE  UNCHANGED <<seenBuffer, seenWaiting, seenResult>>
  BY <1>1, <1>3, <1>9, DispatchEffect, EndEffect
<1>10. ASSUME UNCHANGED vars PROVE UNCHANGED <<seenBuffer, seenWaiting, seenResult>>
  BY <1>1, <1>3, <1>10, IdleEffect DEF vars
<1> QED BY <1>4, <1>5, <1>6, <1>7, <1>8, <1>9, <1>10 DEF Next

(* channel.c implements the atomic exchange of module Exchange, for rings  *)
(* of any capacity and any chanalt() calls.                                *)
THEOREM ChannelsExchange == Spec => ExchangeSpec
<1>1. Init => Exchanged!Init
  BY ExchangeInit
<1>2. IInv /\ [Next]_vars => [Exchanged!Next]_(Exchanged!exchangeVars)
  BY ExchangeNext
<1> QED BY <1>1, <1>2, Invariance, PTL DEF Spec, ExchangeSpec, Exchanged!Spec
=============================================================================
