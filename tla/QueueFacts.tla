------------------------------ MODULE QueueFacts ------------------------------
(***************************************************************************)
(* Lemmas about duplicate-free sequences, which is what task lists are:    *)
(* what taskready() and the scheduler do to taskrunqueue, and the clean-up *)
(* of an exited task to alltask.                                           *)
(***************************************************************************)
EXTENDS Integers, Sequences, Functions, SequencesExt, SequenceTheorems,
        FiniteSetTheorems, TLAPS

(* The range of a sequence lies in its element set.                        *)
LEMMA RangeOfQueue ==
  ASSUME NEW S, NEW q \in Seq(S)
  PROVE  /\ Range(q) \subseteq S
         /\ Range(q) = {q[i] : i \in 1..Len(q)}
BY DEF Range

(* A function on 1..n is a sequence.                                       *)
LEMMA FunctionIsQueue ==
  ASSUME NEW S, NEW n \in Nat, NEW f \in [1..n -> S]
  PROVE  f \in Seq(S) /\ Len(f) = n
OBVIOUS

(* A queue is empty when nothing is in it, and the other way round.        *)
LEMMA EmptyQueue ==
  ASSUME NEW S, NEW q \in Seq(S)
  PROVE  q = <<>> <=> Range(q) = {}
<1>1. q = <<>> => Range(q) = {}
  BY DEF Range
<1>2. ASSUME q # <<>> PROVE q[1] \in Range(q)
  BY <1>2 DEF Range
<1> QED BY <1>1, <1>2

(* Putting tasks that are not in the queue at its end, as taskready() does.*)
LEMMA JoinQueue ==
  ASSUME NEW S, NEW q \in Seq(S), NEW r \in Seq(S),
         IsInjective(q), IsInjective(r), Range(q) \cap Range(r) = {}
  PROVE  /\ q \o r \in Seq(S)
         /\ Range(q \o r) = Range(q) \cup Range(r)
         /\ IsInjective(q \o r)
<1>1. /\ q \o r \in Seq(S)
      /\ Len(q \o r) = Len(q) + Len(r)
      /\ \A i \in 1..(Len(q) + Len(r)) :
           (q \o r)[i] = IF i <= Len(q) THEN q[i] ELSE r[i - Len(q)]
  BY ConcatProperties
<1>2. Range(q \o r) = Range(q) \cup Range(r)
  BY RangeConcatenation
<1>3. ASSUME NEW i \in DOMAIN (q \o r), NEW j \in DOMAIN (q \o r),
             (q \o r)[i] = (q \o r)[j]
      PROVE  i = j
  <2>1. i \in 1..(Len(q) + Len(r)) /\ j \in 1..(Len(q) + Len(r))
    BY <1>1, <1>3
  <2>2. \A k \in 1..Len(q) : q[k] \in Range(q)
    BY DEF Range
  <2>3. \A k \in 1..Len(r) : r[k] \in Range(r)
    BY DEF Range
  <2>4. CASE i <= Len(q) /\ j <= Len(q)
    BY <1>1, <1>3, <2>1, <2>4 DEF IsInjective
  <2>5. CASE i > Len(q) /\ j > Len(q)
    <3>1. i - Len(q) \in DOMAIN r /\ j - Len(q) \in DOMAIN r
      BY <2>1, <2>5
    <3>2. r[i - Len(q)] = r[j - Len(q)]
      BY <1>1, <1>3, <2>1, <2>5
    <3> QED BY <2>1, <3>1, <3>2 DEF IsInjective
  <2>6. CASE i <= Len(q) /\ j > Len(q)
    <3>1. q[i] = r[j - Len(q)]
      BY <1>1, <1>3, <2>1, <2>6
    <3> QED BY <2>1, <2>2, <2>3, <2>6, <3>1
  <2>7. CASE i > Len(q) /\ j <= Len(q)
    <3>1. q[j] = r[i - Len(q)]
      BY <1>1, <1>3, <2>1, <2>7
    <3> QED BY <2>1, <2>2, <2>3, <2>7, <3>1
  <2> QED BY <2>1, <2>4, <2>5, <2>6, <2>7
<1> QED BY <1>1, <1>2, <1>3 DEF IsInjective

(* A queue of one task.                                                    *)
LEMMA QueueOfOne ==
  ASSUME NEW S, NEW x \in S
  PROVE  /\ <<x>> \in Seq(S) /\ Range(<<x>>) = {x} /\ IsInjective(<<x>>)
BY DEF Range, IsInjective

(* Adding a new task to the end of alltask.                                *)
LEMMA AppendToQueue ==
  ASSUME NEW S, NEW q \in Seq(S), NEW x \in S, IsInjective(q), x \notin Range(q)
  PROVE  /\ Append(q, x) \in Seq(S)
         /\ Range(Append(q, x)) = Range(q) \cup {x}
         /\ IsInjective(Append(q, x))
<1>1. Append(q, x) = q \o <<x>>
  BY AppendIsConcat
<1>2. <<x>> \in Seq(S) /\ Range(<<x>>) = {x} /\ IsInjective(<<x>>)
  BY QueueOfOne
<1>3. Range(q) \cap Range(<<x>>) = {}
  BY <1>2
<1>4. /\ q \o <<x>> \in Seq(S)
      /\ Range(q \o <<x>>) = Range(q) \cup Range(<<x>>)
      /\ IsInjective(q \o <<x>>)
  BY <1>2, <1>3, JoinQueue
<1> QED BY <1>1, <1>2, <1>4

(* Taking the head of the run queue, as the scheduler does.                *)
LEMMA PopQueue ==
  ASSUME NEW S, NEW q \in Seq(S), IsInjective(q), q # <<>>
  PROVE  /\ Head(q) \in Range(q)
         /\ Tail(q) \in Seq(S)
         /\ Range(Tail(q)) = Range(q) \ {Head(q)}
         /\ IsInjective(Tail(q))
<1>1. /\ Head(q) \in S /\ Tail(q) \in Seq(S) /\ Len(Tail(q)) = Len(q) - 1
      /\ \A i \in 1..Len(Tail(q)) : Tail(q)[i] = q[i + 1]
  BY HeadTailProperties
<1>2. Head(q) = q[1] /\ Len(q) >= 1 /\ Len(q) \in Nat
  OBVIOUS
<1>3. Head(q) \in Range(q)
  BY <1>2 DEF Range
<1>4. Range(Tail(q)) = {Tail(q)[i] : i \in 1..Len(Tail(q))}
  BY <1>1, RangeOfQueue
<1>5. Range(q) = {q[i] : i \in 1..Len(q)}
  BY RangeOfQueue
<1>6. ASSUME NEW x \in Range(Tail(q)) PROVE x \in Range(q) \ {Head(q)}
  <2>1. PICK i \in 1..Len(Tail(q)) : x = Tail(q)[i]
    BY <1>4, <1>6
  <2>2. i + 1 \in 1..Len(q) /\ x = q[i + 1] /\ i + 1 # 1
    BY <1>1, <1>2, <2>1
  <2>3. q[i + 1] # q[1]
    BY <1>2, <2>2 DEF IsInjective
  <2> QED BY <1>2, <1>5, <2>2, <2>3
<1>7. ASSUME NEW x \in Range(q) \ {Head(q)} PROVE x \in Range(Tail(q))
  <2>1. PICK i \in 1..Len(q) : x = q[i]
    BY <1>5, <1>7
  <2>2. i # 1
    BY <1>2, <1>7, <2>1
  <2>3. i - 1 \in 1..Len(Tail(q)) /\ Tail(q)[i - 1] = q[i]
    BY <1>1, <1>2, <2>1, <2>2
  <2> QED BY <1>4, <2>1, <2>3
<1>8. IsInjective(Tail(q))
  <2> SUFFICES ASSUME NEW i \in DOMAIN Tail(q), NEW j \in DOMAIN Tail(q),
                      Tail(q)[i] = Tail(q)[j]
               PROVE  i = j
    BY DEF IsInjective
  <2>1. i \in 1..Len(Tail(q)) /\ j \in 1..Len(Tail(q))
    BY <1>1
  <2>2. i + 1 \in DOMAIN q /\ j + 1 \in DOMAIN q /\ q[i + 1] = q[j + 1]
    BY <1>1, <1>2, <2>1
  <2> QED BY <2>1, <2>2 DEF IsInjective
<1> QED BY <1>1, <1>3, <1>6, <1>7, <1>8

(* An index below the last one.                                            *)
LEMMA Below ==
  ASSUME NEW n \in Nat, NEW k \in 1..n, k # n
  PROVE  k \in 1..(n - 1)
OBVIOUS

(* Overwriting slot i of alltask by its last entry and dropping the last   *)
(* slot, as the clean-up of an exited task does.                           *)
LEMMA DropSlot ==
  ASSUME NEW S, NEW q \in Seq(S), IsInjective(q), NEW i \in 1..Len(q),
         NEW r \in Seq(S), Len(r) = Len(q) - 1,
         \A k \in 1..(Len(q) - 1) : r[k] = IF k = i THEN q[Len(q)] ELSE q[k]
  PROVE  /\ Range(r) = Range(q) \ {q[i]}
         /\ IsInjective(r)
<1> DEFINE n == Len(q)
<1>1. n \in Nat /\ n >= 1 /\ DOMAIN q = 1..n
  OBVIOUS
<1>2. /\ DOMAIN r = 1..(n - 1)
      /\ \A k \in 1..(n - 1) : r[k] = (IF k = i THEN q[n] ELSE q[k])
  OBVIOUS
<1>5. \A a, b \in 1..n : q[a] = q[b] => a = b
  BY <1>1 DEF IsInjective
<1>6. Range(r) = {r[k] : k \in 1..(n - 1)} /\ Range(q) = {q[k] : k \in 1..n}
  BY <1>1, <1>2 DEF Range
<1>7. ASSUME NEW x \in Range(r) PROVE x \in Range(q) \ {q[i]}
  <2>1. PICK k \in 1..(n - 1) : x = r[k]
    BY <1>6, <1>7
  <2>2. CASE k = i
    BY <1>1, <1>2, <1>5, <1>6, <2>1, <2>2
  <2>3. CASE k # i
    BY <1>1, <1>2, <1>5, <1>6, <2>1, <2>3
  <2> QED BY <2>2, <2>3
<1>8. ASSUME NEW x \in Range(q) \ {q[i]} PROVE x \in Range(r)
  <2>1. PICK k \in 1..n : x = q[k]
    BY <1>6, <1>8
  <2>2. k # i
    BY <1>8, <2>1
  <2>3. CASE k = n
    <3>1. i \in 1..(n - 1)
      BY <1>1, <2>2, <2>3, Below
    <3>2. r[i] = q[n]
      BY <1>2, <3>1
    <3> QED BY <1>6, <2>1, <2>3, <3>1, <3>2
  <2>4. CASE k # n
    <3>1. k \in 1..(n - 1)
      BY <1>1, <2>4, Below
    <3>2. r[k] = q[k]
      BY <1>2, <2>2, <3>1
    <3> QED BY <1>6, <2>1, <3>1, <3>2
  <2> QED BY <2>3, <2>4
<1>9. \A a, b \in 1..(n - 1) : r[a] = r[b] => a = b
  BY <1>1, <1>2, <1>5
<1>10. IsInjective(r)
  BY <1>2, <1>9 DEF IsInjective
<1> QED BY <1>7, <1>8, <1>10

(* Splitting a queue behind its n-th task, as taskwakeup() and            *)
(* taskwakeupall() do with the sleepers of a Rendez.                       *)
LEMMA SplitQueue ==
  ASSUME NEW S, NEW q \in Seq(S), IsInjective(q), NEW n \in 0..Len(q)
  PROVE  LET a == SubSeq(q, 1, n)
             b == SubSeq(q, n + 1, Len(q))
         IN  /\ a \in Seq(S) /\ IsInjective(a)
             /\ b \in Seq(S) /\ IsInjective(b)
             /\ Range(a) \subseteq Range(q)
             /\ Range(b) = Range(q) \ Range(a)
             /\ Len(a) = n /\ \A i \in 1..n : a[i] = q[i]
             /\ Len(b) = Len(q) - n /\ \A i \in 1..(Len(q) - n) : b[i] = q[n + i]
<1> DEFINE a == SubSeq(q, 1, n)
           b == SubSeq(q, n + 1, Len(q))
<1>0. n \in Int /\ n + 1 \in Int /\ Len(q) \in Int /\ 0 <= n /\ n <= Len(q)
  OBVIOUS
<1>1. \A i, j \in 1..Len(q) : q[i] = q[j] => i = j
  BY DEF IsInjective
<1>2. /\ a \in Seq(S) /\ Len(a) = n /\ \A i \in 1..n : a[i] = q[i]
  <2>1. \A i \in 1..n : q[i] \in S
    BY <1>0, ElementOfSeq
  <2>2. /\ SubSeq(q, 1, n) \in Seq(S)
        /\ Len(SubSeq(q, 1, n)) = IF 1 <= n THEN n - 1 + 1 ELSE 0
        /\ \A i \in 1..(n - 1 + 1) : SubSeq(q, 1, n)[i] = q[1 + i - 1]
    BY <1>0, <2>1, SubSeqProperties
  <2> QED BY <1>0, <2>2
<1>3. /\ b \in Seq(S) /\ Len(b) = Len(q) - n
      /\ \A i \in 1..(Len(q) - n) : b[i] = q[n + i]
  <2>1. \A i \in (n + 1)..Len(q) : q[i] \in S
    BY <1>0, ElementOfSeq
  <2>2. /\ SubSeq(q, n + 1, Len(q)) \in Seq(S)
        /\ Len(SubSeq(q, n + 1, Len(q))) =
             IF n + 1 <= Len(q) THEN Len(q) - (n + 1) + 1 ELSE 0
        /\ \A i \in 1..(Len(q) - (n + 1) + 1) :
             SubSeq(q, n + 1, Len(q))[i] = q[n + 1 + i - 1]
    BY <1>0, <2>1, SubSeqProperties
  <2> QED BY <1>0, <2>2
<1> HIDE DEF a, b
<1>4. /\ Range(a) = {a[i] : i \in 1..n}
      /\ Range(b) = {b[i] : i \in 1..(Len(q) - n)}
      /\ Range(q) = {q[i] : i \in 1..Len(q)}
  BY <1>2, <1>3, RangeOfQueue
<1>5. IsInjective(a)
  BY <1>0, <1>1, <1>2 DEF IsInjective
<1>6. IsInjective(b)
  <2> SUFFICES ASSUME NEW i \in DOMAIN b, NEW j \in DOMAIN b, b[i] = b[j]
               PROVE  i = j
    BY DEF IsInjective
  <2>1. i \in 1..(Len(q) - n) /\ j \in 1..(Len(q) - n)
    BY <1>3
  <2>2. n + i \in 1..Len(q) /\ n + j \in 1..Len(q) /\ q[n + i] = q[n + j]
    BY <1>0, <1>3, <2>1
  <2>3. n + i = n + j
    BY <1>1, <2>2
  <2> QED BY <1>0, <2>1, <2>3
<1>7. Range(a) \subseteq Range(q)
  BY <1>0, <1>2, <1>4
<1>8. ASSUME NEW x \in Range(b) PROVE x \in Range(q) /\ x \notin Range(a)
  <2>1. PICK i \in 1..(Len(q) - n) : x = b[i]
    BY <1>4
  <2>2. n + i \in 1..Len(q) /\ x = q[n + i]
    BY <1>0, <1>3, <2>1
  <2>3. ASSUME NEW j \in 1..n PROVE a[j] # x
    <3>1. j \in 1..Len(q) /\ j # n + i
      BY <1>0, <2>1
    <3> QED BY <1>1, <1>2, <2>2, <3>1
  <2> QED BY <1>4, <2>2, <2>3
<1>9. ASSUME NEW x \in Range(q), x \notin Range(a) PROVE x \in Range(b)
  <2>1. PICK i \in 1..Len(q) : x = q[i]
    BY <1>4
  <2>2. i \notin 1..n
    BY <1>2, <1>4, <1>9, <2>1
  <2>3. i - n \in 1..(Len(q) - n) /\ n + (i - n) = i
    BY <1>0, <2>1, <2>2
  <2>4. b[i - n] = q[i]
    BY <1>3, <2>3
  <2> QED BY <1>4, <2>1, <2>3, <2>4
<1>10. Range(b) = Range(q) \ Range(a)
  BY <1>8, <1>9
<1> QED BY <1>2, <1>3, <1>5, <1>6, <1>7, <1>10 DEF a, b

(* A queue is as long as the set of its tasks is large.                    *)
LEMMA QueueLength ==
  ASSUME NEW S, NEW q \in Seq(S), IsInjective(q)
  PROVE  IsFiniteSet(Range(q)) /\ Cardinality(Range(q)) = Len(q)
<1>1. Len(q) \in Nat /\ q \in [1..Len(q) -> Range(q)]
  BY SeqOfRange, LenProperties
<1>2. q \in Injection(1..Len(q), Range(q))
  BY <1>1 DEF Injection, IsInjective
<1>3. q \in Surjection(1..Len(q), Range(q))
  BY <1>1 DEF Surjection, Range
<1>4. IsFiniteSet(1..Len(q)) /\ Cardinality(1..Len(q)) = Len(q)
  BY <1>1, FS_Interval
<1> QED BY <1>2, <1>3, <1>4, FS_Surjection

(* A queue whose tasks lie in a finite set is no longer than it is large.  *)
LEMMA QueueInSet ==
  ASSUME NEW S, NEW q \in Seq(S), IsInjective(q), NEW P, IsFiniteSet(P),
         Range(q) \subseteq P
  PROVE  Len(q) \in 0..Cardinality(P) /\ q \in Injection(1..Len(q), P)
<1>1. Len(q) \in Nat /\ Len(q) = Cardinality(Range(q))
  BY QueueLength
<1>2. Cardinality(Range(q)) <= Cardinality(P) /\ Cardinality(P) \in Nat
  BY FS_Subset, FS_CardinalityType
<1>3. q \in [1..Len(q) -> Range(q)]
  BY SeqOfRange, LenProperties
<1> QED BY <1>1, <1>2, <1>3 DEF Injection, IsInjective

(* A set of indices that holds all smaller indices of each is an initial   *)
(* segment.                                                                *)
LEMMA InitialSegment ==
  ASSUME NEW n \in Nat, NEW S, S \subseteq 1..n, \A k \in S : 1..k \subseteq S
  PROVE  Cardinality(S) \in 0..n /\ S = 1..Cardinality(S)
<1>1. IsFiniteSet(1..n) /\ Cardinality(1..n) = n
  BY FS_Interval
<1>2. IsFiniteSet(S) /\ Cardinality(S) <= n
  BY <1>1, FS_Subset
<1>3. Cardinality(S) \in Nat
  BY <1>2, FS_CardinalityType
<1> DEFINE c == Cardinality(S)
<1>4. S \subseteq 1..c
  <2> SUFFICES ASSUME NEW k \in S PROVE k \in 1..c
    OBVIOUS
  <2>1. k \in Nat /\ k >= 1 /\ 1..k \subseteq S
    OBVIOUS
  <2>2. Cardinality(1..k) = k
    BY <2>1, FS_Interval
  <2>3. Cardinality(1..k) <= c
    BY <1>2, <2>1, FS_Subset
  <2> QED BY <1>3, <2>1, <2>2, <2>3
<1>5. IsFiniteSet(1..c) /\ Cardinality(1..c) = c
  BY <1>3, FS_Interval
<1>6. S = 1..c
  BY <1>4, <1>5, FS_Subset
<1> QED BY <1>2, <1>3, <1>6

(* What is at each place of two lists in a row.                            *)
LEMMA JoinIs ==
  ASSUME NEW S, NEW p \in Seq(S), NEW q \in Seq(S), NEW r, r = p \o q
  PROVE  /\ r \in Seq(S) /\ Len(r) = Len(p) + Len(q)
         /\ \A k \in 1..(Len(p) + Len(q)) :
              r[k] = IF k <= Len(p) THEN p[k] ELSE q[k - Len(p)]
OBVIOUS

(* InsertAt() with the index before the place given a name.                *)
LEMMA InsertAtIs ==
  ASSUME NEW q, NEW i, NEW x, NEW n, i - 1 = n
  PROVE  InsertAt(q, i, x) = (SubSeq(q, 1, n) \o <<x>>) \o SubSeq(q, i, Len(q))
BY DEF InsertAt

(* r is q with x put at place m, behind n others.                          *)
Gained(S, q, n, m, x, r) ==
  /\ r \in Seq(S) /\ Len(r) = Len(q) + 1 /\ IsInjective(r)
  /\ Range(r) = Range(q) \cup {x}
  /\ \A k \in 1..(Len(q) + 1) :
       r[k] = IF k <= n THEN q[k] ELSE IF k = m THEN x ELSE q[k - 1]

(* Putting a task into a list where n others stay before it.               *)
LEMMA InsertIntoQueue ==
  ASSUME NEW S, NEW q \in Seq(S), IsInjective(q), NEW x \in S, x \notin Range(q),
         NEW n \in 0..Len(q), NEW m, m = n + 1, NEW r, r = InsertAt(q, m, x)
  PROVE  Gained(S, q, n, m, x, r)
<1> DEFINE a == SubSeq(q, 1, n)
           b == SubSeq(q, n + 1, Len(q))
<1>1. m - 1 = n /\ m \in Int
  OBVIOUS
<1>2. r = (a \o <<x>>) \o b
  <2>1. r = (SubSeq(q, 1, n) \o <<x>>) \o SubSeq(q, m, Len(q))
    BY <1>1, InsertAtIs
  <2> QED BY <2>1
<1>3. /\ a \in Seq(S) /\ IsInjective(a) /\ b \in Seq(S) /\ IsInjective(b)
      /\ Range(a) \subseteq Range(q) /\ Range(b) = Range(q) \ Range(a)
      /\ Len(a) = n /\ \A k \in 1..n : a[k] = q[k]
      /\ Len(b) = Len(q) - n /\ \A k \in 1..(Len(q) - n) : b[k] = q[n + k]
  BY SplitQueue
<1>4. <<x>> \in Seq(S) /\ Range(<<x>>) = {x} /\ IsInjective(<<x>>)
  BY QueueOfOne
<1>5. Range(a) \cap Range(<<x>>) = {}
  BY <1>3, <1>4
<1> HIDE DEF a, b
<1> DEFINE ax == a \o <<x>>
<1>6. ax \in Seq(S) /\ Range(ax) = Range(a) \cup {x} /\ IsInjective(ax)
  <2> DEFINE e == <<x>>
  <2>1. e \in Seq(S) /\ Range(e) = {x} /\ IsInjective(e) /\ Range(a) \cap Range(e) = {}
    BY <1>4, <1>5
  <2> HIDE DEF e
  <2>2. a \o e \in Seq(S) /\ Range(a \o e) = Range(a) \cup Range(e) /\ IsInjective(a \o e)
    BY <1>3, <2>1, JoinQueue
  <2> QED BY <2>1, <2>2 DEF e
<1>7. Len(ax) = n + 1 /\ ax[n + 1] = x /\ \A k \in 1..n : ax[k] = q[k]
  BY <1>3
<1> HIDE DEF ax
<1>8. r = ax \o b
  BY <1>2 DEF ax
<1>9. r \in Seq(S) /\ Range(r) = Range(ax) \cup Range(b) /\ IsInjective(r)
  <2>1. Range(ax) \cap Range(b) = {}
    BY <1>3, <1>6
  <2>2. ax \o b \in Seq(S) /\ Range(ax \o b) = Range(ax) \cup Range(b) /\ IsInjective(ax \o b)
    BY <1>3, <1>6, <2>1, JoinQueue
  <2> QED BY <1>8, <2>2
<1>10. Range(r) = Range(q) \cup {x}
  BY <1>3, <1>6, <1>9
<1>11. Len(q) \in Nat
  OBVIOUS
<1>12. /\ Len(r) = Len(q) + 1
       /\ \A k \in 1..(n + 1) : r[k] = ax[k]
       /\ \A k \in (n + 2)..(Len(q) + 1) : r[k] = b[k - (n + 1)]
  <2> DEFINE y == ax \o b
  <2>1. /\ Len(y) = Len(ax) + Len(b)
        /\ \A k \in 1..(Len(ax) + Len(b)) :
             y[k] = IF k <= Len(ax) THEN ax[k] ELSE b[k - Len(ax)]
    <3>1. b \in Seq(S)
      BY <1>3
    <3> QED BY <1>6, <3>1, JoinIs
  <2>2. r = y
    BY <1>8
  <2> HIDE DEF y
  <2>3. Len(ax) = n + 1 /\ Len(b) = Len(q) - n /\ n \in Nat /\ n <= Len(q)
    BY <1>3, <1>7
  <2>4. Len(y) = Len(q) + 1
    BY <1>11, <2>1, <2>3
  <2>5. ASSUME NEW k \in 1..(n + 1) PROVE y[k] = ax[k]
    BY <1>11, <2>1, <2>3
  <2>6. ASSUME NEW k \in (n + 2)..(Len(q) + 1) PROVE y[k] = b[k - (n + 1)]
    BY <1>11, <2>1, <2>3
  <2> QED BY <2>2, <2>4, <2>5, <2>6
<1>13. ASSUME NEW k \in 1..(Len(q) + 1)
       PROVE  r[k] = IF k <= n THEN q[k] ELSE IF k = m THEN x ELSE q[k - 1]
  <2>1. CASE k <= n
    BY <1>7, <1>12, <2>1
  <2>2. CASE k = n + 1
    BY <1>7, <1>12, <2>2
  <2>3. CASE k > n + 1
    <3>1. k \in (n + 2)..(Len(q) + 1) /\ k - (n + 1) \in 1..(Len(q) - n)
          /\ n + (k - (n + 1)) = k - 1
      BY <1>11, <2>3
    <3>2. r[k] = q[k - 1]
      BY <1>3, <1>12, <3>1
    <3> QED BY <2>3, <3>2
  <2> QED BY <2>1, <2>2, <2>3
<1> QED BY <1>9, <1>10, <1>12, <1>13 DEF Gained

(* The least number of a set, found without induction: the numbers with    *)
(* nothing of the set before them are an initial segment.                  *)
LEMMA LeastOf ==
  ASSUME NEW n \in Nat, NEW K, K \subseteq 0..n, K # {}
  PROVE  \E c \in K : \A j \in 0..(c - 1) : j \notin K
<1> DEFINE C == {k \in 1..n : \A j \in 1..k : j - 1 \notin K}
           c == Cardinality(C)
<1>1. C \subseteq 1..n /\ \A k \in C : 1..k \subseteq C
  OBVIOUS
<1>2. c \in 0..n /\ C = 1..c
  <2> HIDE DEF C
  <2> QED BY <1>1, InitialSegment
<1>3. \A j \in 0..(c - 1) : j \notin K
  <2> SUFFICES ASSUME NEW j \in 0..(c - 1) PROVE j \notin K
    OBVIOUS
  <2> HIDE DEF c
  <2>1. j + 1 \in 1..c
    BY <1>2
  <2>2. j + 1 \in C
    BY <1>2, <2>1
  <2>3. (j + 1) - 1 \notin K
    BY <2>1, <2>2
  <2> QED BY <1>2, <2>3
<1>4. c \in K
  <2> SUFFICES ASSUME c \notin K PROVE FALSE
    OBVIOUS
  <2> HIDE DEF c
  <2>1. \A j \in 0..c : j \notin K
    BY <1>2, <1>3
  <2>2. CASE c = n
    BY <2>1, <2>2
  <2>3. CASE c # n
    <3>1. c + 1 \in 1..n /\ \A j \in 1..(c + 1) : j - 1 \in 0..c
      BY <1>2, <2>3
    <3>2. c + 1 \in C
      BY <2>1, <3>1
    <3> HIDE DEF C
    <3> QED BY <1>2, <3>2
  <2> QED BY <2>2, <2>3
<1> HIDE DEF c
<1> QED BY <1>3, <1>4

(* Putting a task behind the last is inserting it there.                   *)
LEMMA AppendIsInsert ==
  ASSUME NEW S, NEW q \in Seq(S), IsInjective(q), NEW x \in S, x \notin Range(q),
         NEW m, m = Len(q) + 1
  PROVE  Append(q, x) = InsertAt(q, m, x)
<1>1. PICK n \in 0..Len(q) : n = Len(q)
  OBVIOUS
<1>2. PICK r : r = InsertAt(q, m, x)
  OBVIOUS
<1>3. m = n + 1
  BY <1>1
<1>4. /\ r \in Seq(S) /\ Len(r) = Len(q) + 1
      /\ \A k \in 1..(Len(q) + 1) :
           r[k] = IF k <= n THEN q[k] ELSE IF k = m THEN x ELSE q[k - 1]
  <2>1. Gained(S, q, n, m, x, r)
    BY <1>2, <1>3, InsertIntoQueue
  <2> QED BY <2>1 DEF Gained
<1>5. /\ Append(q, x) \in Seq(S) /\ Len(Append(q, x)) = Len(q) + 1
      /\ \A k \in 1..(Len(q) + 1) : Append(q, x)[k] = IF k <= n THEN q[k] ELSE x
  BY <1>1
<1>6. \A k \in 1..(Len(q) + 1) : Append(q, x)[k] = r[k]
  BY <1>1, <1>3, <1>4, <1>5
<1>7. Append(q, x) = r
  BY <1>4, <1>5, <1>6, SeqEqual
<1> QED BY <1>2, <1>7

(* Taking task k out of a list, as deltask() does.                         *)
LEMMA RemoveFromQueue ==
  ASSUME NEW S, NEW q \in Seq(S), IsInjective(q), NEW k \in 1..Len(q),
         NEW r, r = RemoveAt(q, k)
  PROVE  /\ r \in Seq(S) /\ Len(r) = Len(q) - 1 /\ IsInjective(r)
         /\ Range(r) = Range(q) \ {q[k]}
         /\ \A j \in 1..(Len(q) - 1) : r[j] = IF j < k THEN q[j] ELSE q[j + 1]
<1>0. Len(q) \in Nat /\ k \in Nat /\ k - 1 \in 0..Len(q) /\ k >= 1 /\ k <= Len(q)
  OBVIOUS
<1> DEFINE a == SubSeq(q, 1, k - 1)
           b == SubSeq(q, k + 1, Len(q))
<1>1. /\ a \in Seq(S) /\ Len(a) = k - 1 /\ \A j \in 1..(k - 1) : a[j] = q[j]
  <2>1. PICK n \in 0..Len(q) : n = k - 1
    BY <1>0
  <2>2. LET aa == SubSeq(q, 1, n)
            bb == SubSeq(q, n + 1, Len(q))
        IN  /\ aa \in Seq(S) /\ IsInjective(aa)
            /\ bb \in Seq(S) /\ IsInjective(bb)
            /\ Range(aa) \subseteq Range(q)
            /\ Range(bb) = Range(q) \ Range(aa)
            /\ Len(aa) = n /\ \A i \in 1..n : aa[i] = q[i]
            /\ Len(bb) = Len(q) - n /\ \A i \in 1..(Len(q) - n) : bb[i] = q[n + i]
    BY SplitQueue
  <2> QED BY <2>1, <2>2
<1>2. /\ b \in Seq(S) /\ Len(b) = Len(q) - k /\ \A j \in 1..(Len(q) - k) : b[j] = q[k + j]
  BY SplitQueue
<1>3. r = a \o b
  BY DEF RemoveAt
<1> HIDE DEF a, b
<1>4. /\ r \in Seq(S) /\ Len(r) = Len(a) + Len(b)
      /\ \A j \in 1..(Len(a) + Len(b)) : r[j] = IF j <= Len(a) THEN a[j] ELSE b[j - Len(a)]
  <2>1. a \in Seq(S) /\ b \in Seq(S)
    BY <1>1, <1>2
  <2> QED BY <1>3, <2>1, JoinIs
<1>5. Len(r) = Len(q) - 1
  BY <1>0, <1>1, <1>2, <1>4
<1>6. ASSUME NEW j \in 1..(Len(q) - 1) PROVE r[j] = IF j < k THEN q[j] ELSE q[j + 1]
  <2>1. j \in 1..(Len(a) + Len(b))
    BY <1>0, <1>1, <1>2
  <2>2. CASE j < k
    <3>1. j \in 1..(k - 1) /\ j <= Len(a)
      BY <1>0, <1>1, <2>2
    <3> QED BY <1>1, <1>4, <2>1, <2>2, <3>1
  <2>3. CASE ~(j < k)
    <3>1. /\ j - (k - 1) \in 1..(Len(q) - k) /\ ~(j <= Len(a))
          /\ k + (j - (k - 1)) = j + 1
      BY <1>0, <1>1, <2>3
    <3>2. r[j] = b[j - (k - 1)]
      BY <1>1, <1>4, <2>1, <3>1
    <3> QED BY <1>2, <2>3, <3>1, <3>2
  <2> QED BY <2>2, <2>3
<1>7. \A i, j \in 1..Len(q) : q[i] = q[j] => i = j
  BY DEF IsInjective
<1>8. IsInjective(r)
  <2> SUFFICES ASSUME NEW i \in DOMAIN r, NEW j \in DOMAIN r, r[i] = r[j] PROVE i = j
    BY DEF IsInjective
  <2>1. i \in 1..(Len(q) - 1) /\ j \in 1..(Len(q) - 1)
    BY <1>4, <1>5
  <2>2. /\ i \in 1..Len(q) /\ i + 1 \in 1..Len(q)
        /\ j \in 1..Len(q) /\ j + 1 \in 1..Len(q)
    BY <1>0, <2>1
  <2>3. CASE i < k /\ j < k
    BY <1>6, <1>7, <2>1, <2>2, <2>3
  <2>4. CASE i < k /\ ~(j < k)
    BY <1>0, <1>6, <1>7, <2>1, <2>2, <2>4
  <2>5. CASE ~(i < k) /\ j < k
    BY <1>0, <1>6, <1>7, <2>1, <2>2, <2>5
  <2>6. CASE ~(i < k) /\ ~(j < k)
    BY <1>0, <1>6, <1>7, <2>1, <2>2, <2>6
  <2> QED BY <2>3, <2>4, <2>5, <2>6
<1>9. /\ Range(r) = {r[j] : j \in 1..(Len(q) - 1)}
      /\ Range(q) = {q[j] : j \in 1..Len(q)}
  BY <1>4, <1>5, RangeOfQueue
<1>10. ASSUME NEW x \in Range(r) PROVE x \in Range(q) \ {q[k]}
  <2>1. PICK j \in 1..(Len(q) - 1) : x = r[j]
    BY <1>9
  <2>2. PICK i \in 1..Len(q) : i # k /\ x = q[i]
    <3>1. CASE j < k
      BY <1>0, <1>6, <2>1, <3>1
    <3>2. CASE ~(j < k)
      <4>1. j + 1 \in 1..Len(q) /\ j + 1 # k
        BY <1>0, <2>1, <3>2
      <4> QED BY <1>6, <2>1, <3>2, <4>1
    <3> QED BY <3>1, <3>2
  <2> QED BY <1>7, <1>9, <2>2
<1>11. ASSUME NEW x \in Range(q) \ {q[k]} PROVE x \in Range(r)
  <2>1. PICK i \in 1..Len(q) : x = q[i]
    BY <1>9
  <2>2. i # k
    BY <1>11, <2>1
  <2>3. CASE i < k
    <3>1. i \in 1..(Len(q) - 1)
      BY <1>0, <2>1, <2>3
    <3> QED BY <1>6, <1>9, <2>1, <2>3, <3>1
  <2>4. CASE ~(i < k)
    <3>1. i - 1 \in 1..(Len(q) - 1) /\ ~(i - 1 < k) /\ (i - 1) + 1 = i
      BY <1>0, <2>1, <2>2, <2>4
    <3>2. r[i - 1] = q[i]
      BY <1>6, <3>1
    <3> QED BY <1>9, <2>1, <3>1, <3>2
  <2> QED BY <2>3, <2>4
<1>12. Range(r) = Range(q) \ {q[k]}
  BY <1>10, <1>11
<1> QED BY <1>4, <1>5, <1>6, <1>8, <1>12

-----------------------------------------------------------------------------
(* What holds of 0, and of each number up to n when it holds of the one    *)
(* before, holds of all up to n: K is the set of numbers of which it holds.*)
LEMMA CountingUp ==
  ASSUME NEW n \in Nat, NEW K, 0 \in K, \A i \in 1..n : i - 1 \in K => i \in K
  PROVE  \A i \in 0..n : i \in K
<1> SUFFICES ASSUME ~\A i \in 0..n : i \in K PROVE FALSE
  OBVIOUS
<1> DEFINE L == (0..n) \ K
<1>1. L \subseteq 0..n /\ L # {}
  OBVIOUS
<1>2. PICK c \in L : \A j \in 0..(c - 1) : j \notin L
  <2> HIDE DEF L
  <2> QED BY <1>1, LeastOf
<1>3. c \in 1..n /\ c \notin K
  BY <1>2
<1>4. c - 1 \in 0..(c - 1) /\ c - 1 \in 0..n
  BY <1>3
<1>5. c - 1 \in K
  BY <1>2, <1>4
<1> QED BY <1>3, <1>5

(* g is the history of a loop: g[i] is what it has after i turns, of which *)
(* step[i] is the i-th.                                                    *)
Runs(g, n, S, b, step) ==
  g \in [0..n -> S] /\ g[0] = b /\ \A i \in 1..n : g[i] = step[i][g[i - 1]]

(* A loop from 1 to n has a history.                                       *)
LEMMA History ==
  ASSUME NEW n \in Nat, NEW S, NEW b \in S, NEW step \in [1..n -> [S -> S]]
  PROVE  \E g : Runs(g, n, S, b, step)
<1> DEFINE Run(g, m) == /\ g \in [0..m -> S] /\ g[0] = b
                        /\ \A i \in 1..m : g[i] = step[i][g[i - 1]]
           K == {m \in 0..n : \E g : Run(g, m)}
<1>1. 0 \in K
  <2> DEFINE h == [i \in 0..0 |-> b]
  <2>1. h \in [0..0 -> S] /\ h[0] = b /\ \A i \in 1..0 : h[i] = step[i][h[i - 1]]
    OBVIOUS
  <2> HIDE DEF h
  <2>2. Run(h, 0)
    BY <2>1
  <2> QED BY <2>2
<1>2. ASSUME NEW m \in 1..n, m - 1 \in K PROVE m \in K
  <2>1. PICK g : Run(g, m - 1)
    BY <1>2
  <2> DEFINE h == [i \in 0..m |-> IF i = m THEN step[m][g[m - 1]] ELSE g[i]]
  <2>2. m - 1 \in 0..(m - 1) /\ g[m - 1] \in S
    BY <2>1
  <2>3. step[m][g[m - 1]] \in S
    BY <2>2
  <2>4. \A i \in 0..m : i # m => i \in 0..(m - 1) /\ g[i] \in S
    <3>1. \A i \in 0..m : i # m => i \in 0..(m - 1)
      OBVIOUS
    <3> QED BY <2>1, <3>1
  <2>5. h \in [0..m -> S]
    BY <2>3, <2>4
  <2>6. h[0] = b
    BY <2>1
  <2>7. ASSUME NEW i \in 1..m PROVE h[i] = step[i][h[i - 1]]
    <3>1. i \in 0..m /\ i - 1 \in 0..m /\ i - 1 # m
      OBVIOUS
    <3>2. h[i - 1] = g[i - 1]
      BY <3>1
    <3>3. CASE i = m
      BY <3>1, <3>2, <3>3
    <3>4. CASE i # m
      <4>1. i \in 1..(m - 1) /\ h[i] = g[i]
        BY <3>1, <3>4
      <4> QED BY <2>1, <3>2, <4>1
    <3> QED BY <3>3, <3>4
  <2> HIDE DEF h
  <2>8. Run(h, m) /\ m \in 0..n
    BY <2>5, <2>6, <2>7
  <2> HIDE DEF Run
  <2> QED BY <2>8
<1>3. n \in K
  <2> HIDE DEF K
  <2>1. \A i \in 0..n : i \in K
    BY <1>1, <1>2, CountingUp
  <2> QED BY <2>1
<1> QED BY <1>3 DEF Runs

(* The next multiple of Chunk that taskcreate() grows the table to.        *)
LEMMA MultipleOf ==
  ASSUME NEW q \in Nat, NEW k \in Nat \ {0}
  PROVE  (k * q) % k = 0
OBVIOUS

(* A table that is full is full to a multiple of Chunk, where taskcreate() *)
(* reallocates it.                                                         *)
LEMMA Capacity ==
  ASSUME NEW n \in Nat, NEW c \in Nat, NEW k \in Nat \ {0}, n <= c, c % k = 0
  PROVE  /\ n % k = 0 => (n + k) % k = 0
         /\ n % k # 0 => n + 1 <= c
<1>1. ASSUME n % k = 0 PROVE (n + k) % k = 0
  <2>1. n = k * (n \div k) /\ n \div k \in Nat
    BY <1>1
  <2> DEFINE q == (n \div k) + 1
  <2>2. q \in Nat /\ n + k = k * q
    BY <2>1
  <2>3. (k * q) % k = 0
    BY <2>2, MultipleOf
  <2> QED BY <2>2, <2>3
<1>2. n % k # 0 => n # c
  OBVIOUS
<1> QED BY <1>1, <1>2
=============================================================================
