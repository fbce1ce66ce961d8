---------------------------- MODULE PartsProofs ----------------------------
(***************************************************************************)
(* Theorems about the parts that stand side by side in Parts: the linked   *)
(* lists of task.c (TaskList), the arrays of queued Alts of channel.c      *)
(* (AltArray), the task table that taskinfo() reads from a signal handler  *)
(* (TaskInfo), the change of stacks (Context), the reading of addresses    *)
(* (ParseIp) and the formatted output (Vseprint).                          *)
(*                                                                         *)
(* LinkInv is inductive with the fact that the lists are apart: a step on  *)
(* one list writes links of its own tasks and of the task it adds or takes *)
(* out, so it can spoil another list only if the two had a task in common. *)
(***************************************************************************)
EXTENDS Parts, QueueFacts

Ptr == Task \cup {nil}

Typed ==
  /\ elems \in [List -> Seq(Task)]
  /\ head \in [List -> Ptr] /\ tail \in [List -> Ptr]
  /\ next \in [Task -> Ptr] /\ prev \in [Task -> Ptr]
  /\ alarmtime \in [Task -> Nat]

(* A task is on one list, once.                                            *)
Apart ==
  /\ \A l \in List : IsInjective(elems[l])
  /\ \A l, x \in List : l # x => OnList(l) \cap OnList(x) = {}

IInv == Typed /\ Apart /\ LinkInv

(* The pointers h, e, nx and pv represent the sequence s.                  *)
Linked(h, e, nx, pv, s) ==
  /\ h = At(s, 1) /\ e = At(s, Len(s))
  /\ \A k \in 1..Len(s) : nx[s[k]] = At(s, k + 1) /\ pv[s[k]] = At(s, k - 1)

(* The links f with t put between p and u, in the direction from p to u.    *)
PutBetween(f2, f, t, p, u) ==
  \A x \in Task : f2[x] = IF x = t THEN u ELSE IF x = p THEN t ELSE f[x]

(* The sequence s with t behind its n-th task.                             *)
InsertedBehind(r, s, n, t) ==
  /\ r \in Seq(Task) /\ Len(r) = Len(s) + 1
  /\ \A k \in 1..(Len(s) + 1) :
       r[k] = IF k <= n THEN s[k] ELSE IF k = n + 1 THEN t ELSE s[k - 1]

(* The links f with p followed by u.                                       *)
Joined(f2, f, p, u) == \A x \in Task : f2[x] = IF x = p THEN u ELSE f[x]

(* The sequence s without its k-th task.                                   *)
WithoutPlace(r, s, k) ==
  /\ r \in Seq(Task) /\ Len(r) = Len(s) - 1
  /\ \A j \in 1..(Len(s) - 1) : r[j] = IF j < k THEN s[j] ELSE s[j + 1]

-----------------------------------------------------------------------------
(* What is found at a place, and beyond the ends.                          *)
LEMMA AtIs ==
  ASSUME TaskListAssumption, NEW s \in Seq(Task), NEW k \in Int
  PROVE  /\ At(s, k) \in Ptr
         /\ k \in 1..Len(s) => At(s, k) = s[k] /\ At(s, k) \in Task /\ At(s, k) # nil
         /\ k \notin 1..Len(s) => At(s, k) = nil
<1>1. DOMAIN s = 1..Len(s) /\ \A j \in 1..Len(s) : s[j] \in Task
  OBVIOUS
<1> QED BY <1>1 DEF At, Ptr, TaskListAssumption

(* Putting t behind the n-th task of a list: the four assignments that     *)
(* addtask() and taskdelay() make.                                         *)
LEMMA InsertLinked ==
  ASSUME TaskListAssumption,
         NEW s \in Seq(Task), IsInjective(s), NEW t \in Task, t \notin Range(s),
         NEW n \in 0..Len(s), NEW p, p = At(s, n), NEW u, u = At(s, n + 1),
         NEW r, InsertedBehind(r, s, n, t),
         NEW h, NEW e, NEW nx, NEW pv, Linked(h, e, nx, pv, s),
         NEW h2, h2 = IF p = nil THEN t ELSE h,
         NEW e2, e2 = IF u = nil THEN t ELSE e,
         NEW nx2, PutBetween(nx2, nx, t, p, u),
         NEW pv2, PutBetween(pv2, pv, t, u, p)
  PROVE  Linked(h2, e2, nx2, pv2, r)
<1>0. /\ r \in Seq(Task) /\ Len(r) = Len(s) + 1
      /\ \A k \in 1..(Len(s) + 1) :
           r[k] = IF k <= n THEN s[k] ELSE IF k = n + 1 THEN t ELSE s[k - 1]
      /\ \A x \in Task : nx2[x] = IF x = t THEN u ELSE IF x = p THEN t ELSE nx[x]
      /\ \A x \in Task : pv2[x] = IF x = t THEN p ELSE IF x = u THEN t ELSE pv[x]
  BY DEF InsertedBehind, PutBetween
<1> DEFINE L == Len(s)
<1>1. L \in Nat /\ n \in Nat /\ n <= L /\ L + 1 \in Nat
  OBVIOUS
<1>2. \A i, j \in 1..L : s[i] = s[j] => i = j
  BY DEF IsInjective
<1>3. \A k \in 1..L : s[k] \in Task /\ s[k] # t
  BY DEF Range
<1>4. \A k \in Int : At(s, k) = IF k \in 1..L THEN s[k] ELSE nil
  BY AtIs
<1>5. \A k \in Int : At(r, k) = IF k \in 1..(L + 1) THEN r[k] ELSE nil
  BY <1>0, AtIs
<1>6. nil \notin Task
  BY DEF TaskListAssumption
<1>7. /\ h = At(s, 1) /\ e = At(s, L)
      /\ \A k \in 1..L : nx[s[k]] = At(s, k + 1) /\ pv[s[k]] = At(s, k - 1)
  BY DEF Linked
<1>8. /\ p = IF n = 0 THEN nil ELSE s[n]
      /\ u = IF n = L THEN nil ELSE s[n + 1]
  BY <1>1, <1>4
<1>9. (p = nil <=> n = 0) /\ (u = nil <=> n = L)
  <2>1. n # 0 => n \in 1..L
    BY <1>1
  <2>2. n # L => n + 1 \in 1..L
    BY <1>1
  <2> QED BY <1>3, <1>6, <1>8, <2>1, <2>2
<1> HIDE DEF L
<1>10. \A k \in 1..(L + 1) :
         r[k] = IF k <= n THEN s[k] ELSE IF k = n + 1 THEN t ELSE s[k - 1]
  BY <1>0 DEF L
<1>11. h2 = At(r, 1)
  <2>1. At(r, 1) = IF 1 <= n THEN s[1] ELSE t
    BY <1>1, <1>5, <1>10
  <2>2. n # 0 => h = s[1] /\ 1 <= n
    BY <1>1, <1>4, <1>7
  <2> QED BY <1>1, <1>9, <2>1, <2>2
<1>12. e2 = At(r, L + 1)
  <2>1. At(r, L + 1) = IF L = n THEN t ELSE s[L]
    BY <1>1, <1>5, <1>10
  <2>2. n # L => e = s[L]
    BY <1>1, <1>4, <1>7
  <2> QED BY <1>9, <2>1, <2>2
<1>13. ASSUME NEW k \in 1..(L + 1) PROVE nx2[r[k]] = At(r, k + 1)
  <2>1. CASE k < n
    <3>1. k \in 1..L /\ k + 1 \in 1..L /\ k + 1 \in 1..(L + 1) /\ n \in 1..L /\ k # n
      BY <1>1, <2>1
    <3>2. r[k] = s[k] /\ At(r, k + 1) = s[k + 1]
      BY <1>1, <1>5, <1>10, <2>1, <3>1
    <3>3. s[k] # p /\ s[k] # t /\ s[k] \in Task
      BY <1>1, <1>2, <1>3, <1>8, <3>1
    <3>4. nx[s[k]] = s[k + 1]
      BY <1>4, <1>7, <3>1
    <3> QED BY <1>0, <3>2, <3>3, <3>4
  <2>2. CASE k = n
    <3>1. k \in 1..L /\ r[k] = s[k] /\ s[k] = p /\ n + 1 \in 1..(L + 1)
      BY <1>1, <1>8, <1>10, <2>2
    <3>2. At(r, k + 1) = t
      BY <1>1, <1>5, <1>10, <2>2, <3>1
    <3> QED BY <1>0, <1>3, <3>1, <3>2
  <2>3. CASE k = n + 1
    <3>1. r[k] = t
      BY <1>1, <1>10, <2>3
    <3>2. At(r, k + 1) = u
      BY <1>1, <1>5, <1>8, <1>10, <2>3
    <3> QED BY <1>0, <3>1, <3>2
  <2>4. CASE k > n + 1
    <3>1. k - 1 \in 1..L /\ k - 1 # n /\ (n # 0 => n \in 1..L)
      BY <1>1, <2>4
    <3>2. r[k] = s[k - 1]
      BY <1>1, <1>10, <2>4
    <3>3. s[k - 1] # p /\ s[k - 1] # t /\ s[k - 1] \in Task
      BY <1>2, <1>3, <1>6, <1>8, <3>1
    <3>4. nx[s[k - 1]] = At(s, k)
      BY <1>7, <3>1
    <3>5. At(s, k) = At(r, k + 1)
      BY <1>1, <1>4, <1>5, <1>10, <2>4
    <3> QED BY <1>0, <3>2, <3>3, <3>4, <3>5
  <2> QED BY <1>1, <2>1, <2>2, <2>3, <2>4
<1>14. ASSUME NEW k \in 1..(L + 1) PROVE pv2[r[k]] = At(r, k - 1)
  <2>1. CASE k <= n
    <3>1. k \in 1..L /\ k # n + 1 /\ (n # L => n + 1 \in 1..L)
      BY <1>1, <2>1
    <3>2. r[k] = s[k]
      BY <1>10, <2>1
    <3>3. s[k] # u /\ s[k] # t /\ s[k] \in Task
      BY <1>2, <1>3, <1>6, <1>8, <3>1
    <3>4. pv[s[k]] = At(s, k - 1)
      BY <1>7, <3>1
    <3>5. At(s, k - 1) = At(r, k - 1)
      BY <1>1, <1>4, <1>5, <1>10, <2>1
    <3> QED BY <1>0, <3>2, <3>3, <3>4, <3>5
  <2>2. CASE k = n + 1
    <3>1. r[k] = t
      BY <1>1, <1>10, <2>2
    <3>2. At(r, k - 1) = p
      BY <1>1, <1>5, <1>8, <1>10, <2>2
    <3> QED BY <1>0, <3>1, <3>2
  <2>3. CASE k = n + 2
    <3>1. r[k] = s[n + 1] /\ n # L
      BY <1>1, <1>10, <2>3
    <3>2. s[n + 1] = u /\ u \in Task /\ u # t
      BY <1>1, <1>3, <1>8, <3>1
    <3>3. At(r, k - 1) = t
      BY <1>1, <1>5, <1>10, <2>3
    <3> QED BY <1>0, <3>1, <3>2, <3>3
  <2>4. CASE k > n + 2
    <3>1. /\ k - 1 \in 1..L /\ k - 1 # n + 1 /\ n + 1 \in 1..L /\ k - 2 \in 1..L
          /\ n # L /\ (k - 1) - 1 = k - 2
      BY <1>1, <2>4
    <3>2. r[k] = s[k - 1]
      BY <1>1, <1>10, <2>4
    <3>3. s[k - 1] # u /\ s[k - 1] # t /\ s[k - 1] \in Task
      BY <1>2, <1>3, <1>8, <3>1
    <3>4. pv[s[k - 1]] = s[k - 2]
      BY <1>4, <1>7, <3>1
    <3>5. At(r, k - 1) = s[k - 2]
      BY <1>1, <1>5, <1>10, <2>4, <3>1
    <3> QED BY <1>0, <3>2, <3>3, <3>4, <3>5
  <2> QED BY <1>1, <2>1, <2>2, <2>3, <2>4
<1> QED BY <1>0, <1>11, <1>12, <1>13, <1>14 DEF Linked, L

(* Taking the k-th task out of a list: the assignments of deltask().  The  *)
(* links of that task stay as they are.                                    *)
LEMMA RemoveLinked ==
  ASSUME TaskListAssumption,
         NEW s \in Seq(Task), IsInjective(s), NEW k \in 1..Len(s),
         NEW p, p = At(s, k - 1), NEW u, u = At(s, k + 1),
         NEW r, WithoutPlace(r, s, k),
         NEW h, NEW e, NEW nx, NEW pv, Linked(h, e, nx, pv, s),
         NEW h2, h2 = IF p = nil THEN u ELSE h,
         NEW e2, e2 = IF u = nil THEN p ELSE e,
         NEW nx2, Joined(nx2, nx, p, u),
         NEW pv2, Joined(pv2, pv, u, p)
  PROVE  Linked(h2, e2, nx2, pv2, r)
<1>0. /\ r \in Seq(Task) /\ Len(r) = Len(s) - 1
      /\ \A j \in 1..(Len(s) - 1) : r[j] = IF j < k THEN s[j] ELSE s[j + 1]
      /\ \A x \in Task : nx2[x] = IF x = p THEN u ELSE nx[x]
      /\ \A x \in Task : pv2[x] = IF x = u THEN p ELSE pv[x]
  BY DEF WithoutPlace, Joined
<1> DEFINE L == Len(s)
<1>1. L \in Nat /\ k \in Nat /\ 1 <= k /\ k <= L /\ L - 1 \in Nat
  OBVIOUS
<1>2. \A i, j \in 1..L : s[i] = s[j] => i = j
  BY DEF IsInjective
<1>3. \A j \in 1..L : s[j] \in Task
  OBVIOUS
<1>4. \A j \in Int : At(s, j) = IF j \in 1..L THEN s[j] ELSE nil
  BY AtIs
<1>5. \A j \in Int : At(r, j) = IF j \in 1..(L - 1) THEN r[j] ELSE nil
  BY <1>0, AtIs
<1>6. nil \notin Task
  BY DEF TaskListAssumption
<1>7. /\ h = At(s, 1) /\ e = At(s, L)
      /\ \A j \in 1..L : nx[s[j]] = At(s, j + 1) /\ pv[s[j]] = At(s, j - 1)
  BY DEF Linked
<1>8. /\ p = IF k = 1 THEN nil ELSE s[k - 1]
      /\ u = IF k = L THEN nil ELSE s[k + 1]
  BY <1>1, <1>4
<1>9. (p = nil <=> k = 1) /\ (u = nil <=> k = L)
  <2>1. (k # 1 => k - 1 \in 1..L) /\ (k # L => k + 1 \in 1..L)
    BY <1>1
  <2> QED BY <1>3, <1>6, <1>8, <2>1
<1> HIDE DEF L
<1>10. \A j \in 1..(L - 1) : r[j] = IF j < k THEN s[j] ELSE s[j + 1]
  BY <1>0 DEF L
<1>11. h2 = At(r, 1)
  <2>1. CASE k = 1
    <3>1. At(r, 1) = At(s, 2)
      BY <1>1, <1>4, <1>5, <1>10, <2>1
    <3>2. u = At(s, 2)
      BY <1>1, <1>4, <1>8, <2>1
    <3> QED BY <1>9, <2>1, <3>1, <3>2
  <2>2. CASE k # 1
    <3>0. 1 \in 1..(L - 1) /\ 1 < k /\ 1 \in 1..L
      BY <1>1, <2>2
    <3>1. At(r, 1) = s[1] /\ h = s[1]
      BY <1>4, <1>5, <1>7, <1>10, <3>0
    <3> QED BY <1>9, <2>2, <3>1
  <2> QED BY <2>1, <2>2
<1>12. e2 = At(r, L - 1)
  <2>1. CASE k = L
    <3>0. L - 1 # 0 => L - 1 \in 1..(L - 1) /\ L - 1 \in 1..L /\ L - 1 < k
      BY <1>1, <2>1
    <3>1. At(r, L - 1) = At(s, L - 1)
      BY <1>1, <1>4, <1>5, <1>10, <3>0
    <3>2. p = At(s, L - 1)
      BY <1>1, <1>4, <1>8, <2>1
    <3> QED BY <1>9, <2>1, <3>1, <3>2
  <2>2. CASE k # L
    <3>1. L - 1 \in 1..(L - 1) /\ ~(L - 1 < k) /\ (L - 1) + 1 = L /\ L \in 1..L
      BY <1>1, <2>2
    <3>2. At(r, L - 1) = s[L] /\ e = s[L]
      <4>1. r[L - 1] = s[(L - 1) + 1]
        BY <1>10, <3>1
      <4>2. At(r, L - 1) = r[L - 1]
        BY <1>5, <3>1
      <4>3. At(s, L) = s[L]
        BY <1>4, <3>1
      <4> QED BY <1>7, <3>1, <4>1, <4>2, <4>3
    <3> QED BY <1>9, <2>2, <3>2
  <2> QED BY <2>1, <2>2
<1>13. ASSUME NEW j \in 1..(L - 1) PROVE nx2[r[j]] = At(r, j + 1)
  <2>1. CASE j < k - 1
    <3>1. /\ j \in 1..L /\ j + 1 \in 1..L /\ j + 1 \in 1..(L - 1) /\ k - 1 \in 1..L
          /\ j # k - 1 /\ k # 1 /\ j < k /\ j + 1 < k
      BY <1>1, <2>1
    <3>2. r[j] = s[j] /\ At(r, j + 1) = s[j + 1]
      BY <1>1, <1>5, <1>10, <3>1
    <3>3. s[j] # p /\ s[j] \in Task
      BY <1>2, <1>3, <1>8, <3>1
    <3>4. nx[s[j]] = s[j + 1]
      BY <1>4, <1>7, <3>1
    <3> QED BY <1>0, <3>2, <3>3, <3>4
  <2>2. CASE j = k - 1
    <3>1. j \in 1..L /\ k # 1 /\ j < k
      BY <1>1, <2>2
    <3>2. r[j] = p /\ p \in Task
      BY <1>3, <1>8, <1>10, <2>2, <3>1
    <3>3. At(r, j + 1) = At(s, k + 1)
      BY <1>1, <1>4, <1>5, <1>10, <2>2
    <3>4. At(s, k + 1) = u
      BY <1>1, <1>4, <1>8
    <3> QED BY <1>0, <3>2, <3>3, <3>4
  <2>3. CASE j > k - 1
    <3>1. /\ ~(j < k) /\ j + 1 \in 1..L /\ (k # 1 => k - 1 \in 1..L) /\ j + 1 # k - 1
          /\ (j + 1) + 1 = j + 2
      BY <1>1, <2>3
    <3>2. r[j] = s[j + 1]
      BY <1>10, <3>1
    <3>3. s[j + 1] # p /\ s[j + 1] \in Task
      BY <1>2, <1>3, <1>6, <1>8, <3>1
    <3>4. nx[s[j + 1]] = At(s, j + 2)
      BY <1>7, <3>1
    <3>5. At(s, j + 2) = At(r, j + 1)
      BY <1>1, <1>4, <1>5, <1>10, <2>3
    <3> QED BY <1>0, <3>2, <3>3, <3>4, <3>5
  <2> QED BY <1>1, <2>1, <2>2, <2>3
<1>14. ASSUME NEW j \in 1..(L - 1) PROVE pv2[r[j]] = At(r, j - 1)
  <2>1. CASE j < k
    <3>1. j \in 1..L /\ j # k + 1 /\ (k # L => k + 1 \in 1..L)
      BY <1>1, <2>1
    <3>2. r[j] = s[j]
      BY <1>10, <2>1
    <3>3. s[j] # u /\ s[j] \in Task
      BY <1>2, <1>3, <1>6, <1>8, <3>1
    <3>4. pv[s[j]] = At(s, j - 1)
      BY <1>7, <3>1
    <3>5. At(s, j - 1) = At(r, j - 1)
      BY <1>1, <1>4, <1>5, <1>10, <2>1
    <3> QED BY <1>0, <3>2, <3>3, <3>4, <3>5
  <2>2. CASE j = k
    <3>1. k # L /\ k + 1 \in 1..L /\ ~(j < k)
      BY <1>1, <2>2
    <3>2. r[j] = u /\ u \in Task
      BY <1>3, <1>8, <1>10, <2>2, <3>1
    <3>3. At(r, j - 1) = At(s, k - 1)
      BY <1>1, <1>4, <1>5, <1>10, <2>2
    <3>4. At(s, k - 1) = p
      BY <1>1, <1>4, <1>8
    <3> QED BY <1>0, <3>2, <3>3, <3>4
  <2>3. CASE j > k
    <3>1. /\ ~(j < k) /\ j + 1 \in 1..L /\ k # L /\ k + 1 \in 1..L /\ j + 1 # k + 1
          /\ (j + 1) - 1 = j /\ j \in 1..L /\ j - 1 \in 1..(L - 1) /\ ~(j - 1 < k)
          /\ (j - 1) + 1 = j
      BY <1>1, <2>3
    <3>2. r[j] = s[j + 1] /\ r[j - 1] = s[j]
      BY <1>10, <3>1
    <3>3. s[j + 1] # u /\ s[j + 1] \in Task
      BY <1>2, <1>3, <1>8, <3>1
    <3>4. pv[s[j + 1]] = s[j]
      BY <1>4, <1>7, <3>1
    <3>5. At(r, j - 1) = s[j]
      <4>1. At(r, j - 1) = r[j - 1]
        BY <1>5, <3>1
      <4> QED BY <3>2, <4>1
    <3> QED BY <1>0, <3>2, <3>3, <3>4, <3>5
  <2> QED BY <1>1, <2>1, <2>2, <2>3
<1> QED BY <1>0, <1>11, <1>12, <1>13, <1>14 DEF Linked, L

(* A list none of whose tasks has its links written stays what it is.      *)
LEMMA OtherLinked ==
  ASSUME NEW s \in Seq(Task), NEW h, NEW e, NEW nx, NEW pv, Linked(h, e, nx, pv, s),
         NEW nx2, NEW pv2, \A x \in Range(s) : nx2[x] = nx[x] /\ pv2[x] = pv[x]
  PROVE  Linked(h, e, nx2, pv2, s)
<1>1. \A k \in 1..Len(s) : s[k] \in Range(s)
  BY DEF Range
<1> QED BY <1>1 DEF Linked

(* LinkInv is that every list is represented.                              *)
LEMMA LinkInvIs ==
  ASSUME Typed
  PROVE  LinkInv <=> \A l \in List : Linked(head[l], tail[l], next, prev, elems[l])
<1>1. \A l \in List : DOMAIN elems[l] = 1..Len(elems[l])
  BY DEF Typed
<1> QED BY <1>1 DEF LinkInv, Linked

-----------------------------------------------------------------------------
(* Following next from the head of the sleepers meets them in their order, *)
(* and stays at nil behind the last.                                       *)
LEMMA WalkIs ==
  ASSUME TaskListAssumption, IInv
  PROVE  Walk = [k \in 0..Cardinality(Task) |-> At(elems[sleeping], k + 1)]
<1> DEFINE N == Cardinality(Task)
           s == elems[sleeping]
           W == [k \in 0..N |-> At(s, k + 1)]
           Step(f) == [k \in 0..N |-> IF k = 0 THEN head[sleeping]
                                      ELSE IF f[k - 1] = nil THEN nil ELSE next[f[k - 1]]]
<1>1. N \in Nat /\ s \in Seq(Task) /\ sleeping \in List /\ nil \notin Task
  BY FS_CardinalityType DEF TaskListAssumption, IInv, Typed
<1>2. Linked(head[sleeping], tail[sleeping], next, prev, s)
  BY <1>1, LinkInvIs DEF IInv
<1>3. W = Step(W)
  <2>1. W[0] = head[sleeping] /\ 0 \in 0..N
    BY <1>1, <1>2 DEF Linked
  <2>2. ASSUME NEW k \in 1..N
        PROVE  At(s, k + 1) = IF W[k - 1] = nil THEN nil ELSE next[W[k - 1]]
    <3>1. k - 1 \in 0..N /\ k \in Int /\ k + 1 \in Int /\ (k - 1) + 1 = k
      BY <1>1
    <3>2. W[k - 1] = At(s, k)
      BY <3>1
    <3>3. CASE k \in 1..Len(s)
      <4>1. At(s, k) = s[k] /\ At(s, k) # nil
        BY <1>1, <3>1, <3>3, AtIs
      <4>2. next[s[k]] = At(s, k + 1)
        BY <1>2, <3>3 DEF Linked
      <4> QED BY <3>2, <4>1, <4>2
    <3>4. CASE k \notin 1..Len(s)
      <4>1. k + 1 \notin 1..Len(s)
        BY <1>1, <3>1, <3>4
      <4>2. At(s, k) = nil /\ At(s, k + 1) = nil
        BY <1>1, <3>1, <3>4, <4>1, AtIs
      <4> QED BY <3>2, <4>2
    <3> QED BY <3>3, <3>4
  <2>3. ASSUME NEW k \in 0..N PROVE W[k] = Step(W)[k]
    <3>1. CASE k = 0
      BY <2>1, <3>1
    <3>2. CASE k # 0
      <4>1. k \in 1..N
        BY <1>1, <3>2
      <4> QED BY <2>2, <3>2, <4>1
    <3> QED BY <3>1, <3>2
  <2>4. Step(W) = [k \in 0..N |-> Step(W)[k]] /\ W = [k \in 0..N |-> W[k]]
    OBVIOUS
  <2> HIDE DEF W, Step
  <2> QED BY <2>3, <2>4
<1>4. Walk = CHOOSE f : f = Step(f)
  BY DEF Walk
<1>5. Walk = Step(Walk)
  <2> HIDE DEF W, Step
  <2> QED BY <1>3, <1>4
<1>6. \A k \in 0..N : Walk[k] = W[k]
  <2> SUFFICES ASSUME NEW k0 \in 0..N, Walk[k0] # W[k0] PROVE FALSE
    OBVIOUS
  <2> DEFINE K == {k \in 0..N : Walk[k] # W[k]}
  <2>1. K \subseteq 0..N /\ K # {}
    OBVIOUS
  <2> HIDE DEF K
  <2>2. PICK c \in K : \A j \in 0..(c - 1) : j \notin K
    BY <1>1, <2>1, LeastOf
  <2>3. c \in 0..N /\ Walk[c] # W[c]
    BY <2>2 DEF K
  <2>4. Walk[c] = Step(Walk)[c] /\ W[c] = Step(W)[c]
    <3> HIDE DEF W, Step
    <3> QED BY <1>3, <1>5
  <2>5. CASE c = 0
    <3>1. Step(Walk)[c] = head[sleeping] /\ Step(W)[c] = head[sleeping]
      <4> HIDE DEF W
      <4> QED BY <2>3, <2>5
    <3> QED BY <2>3, <2>4, <3>1
  <2>6. CASE c # 0
    <3>1. c - 1 \in 0..(c - 1) /\ c - 1 \in 0..N
      BY <1>1, <2>3, <2>6
    <3>2. Walk[c - 1] = W[c - 1]
      BY <2>2, <3>1 DEF K
    <3>3. Step(Walk)[c] = Step(W)[c]
      <4> HIDE DEF W
      <4> QED BY <2>3, <3>2
    <3> QED BY <2>3, <2>4, <3>3
  <2> QED BY <2>5, <2>6
<1>7. Walk = [k \in 0..N |-> Walk[k]]
  <2>1. Step(Walk) = [k \in 0..N |-> Step(Walk)[k]]
    OBVIOUS
  <2> HIDE DEF Step
  <2> QED BY <1>5, <2>1
<1>8. W = [k \in 0..N |-> W[k]]
  OBVIOUS
<1>9. Walk = W
  <2> HIDE DEF W
  <2> QED BY <1>6, <1>7, <1>8
<1> QED BY <1>9

(* taskdelay() stops in front of the task that follows all those which     *)
(* wake earlier, and at nil if there is none.                              *)
LEMMA FirstLaterIs ==
  ASSUME TaskListAssumption, IInv, NEW when \in Nat
  PROVE  \E n \in 0..Len(elems[sleeping]) :
           Before(when) = n /\ FirstLater(when) = At(elems[sleeping], n + 1)
<1> DEFINE N == Cardinality(Task)
           s == elems[sleeping]
           L == Len(s)
           Stop(k) == StopsAt(Walk, k, when)
           P(k) == Stop(k) /\ \A j \in 0..(k - 1) : ~Stop(j)
<1>1. /\ N \in Nat /\ sleeping \in List /\ s \in Seq(Task) /\ IsInjective(s)
      /\ L \in 0..N /\ L \in Nat /\ nil \notin Task
      /\ \A k \in 1..L : s[k] \in Task /\ alarmtime[s[k]] \in Nat
  <2>1. N \in Nat /\ sleeping \in List /\ IsFiniteSet(Task) /\ nil \notin Task
    BY FS_CardinalityType DEF TaskListAssumption
  <2>2. s \in Seq(Task) /\ IsInjective(s) /\ alarmtime \in [Task -> Nat]
    BY <2>1 DEF IInv, Typed, Apart
  <2>3. Range(s) \subseteq Task
    BY <2>2, RangeOfQueue
  <2>4. L \in 0..N
    BY <2>1, <2>2, <2>3, QueueInSet
  <2> QED BY <2>1, <2>2, <2>4
<1>2. /\ DOMAIN Walk = 0..N
      /\ \A k \in 0..N : Walk[k] = At(s, k + 1)
  BY WalkIs
<1> HIDE DEF s, L
<1>3. \A k \in 0..N : Stop(k) <=> k >= L \/ alarmtime[s[k + 1]] >= when
  <2> SUFFICES ASSUME NEW k \in 0..N
               PROVE  Stop(k) <=> k >= L \/ alarmtime[s[k + 1]] >= when
    OBVIOUS
  <2>1. k + 1 \in Int /\ (k + 1 \in 1..L <=> ~(k >= L))
    BY <1>1
  <2>2. IF k >= L THEN At(s, k + 1) = nil
        ELSE At(s, k + 1) = s[k + 1] /\ s[k + 1] # nil
    <3>1. /\ k + 1 \in 1..L => At(s, k + 1) = s[k + 1] /\ At(s, k + 1) # nil
          /\ k + 1 \notin 1..L => At(s, k + 1) = nil
      BY <1>1, <2>1, AtIs DEF L
    <3> QED BY <2>1, <3>1
  <2>3. Walk[k] = At(s, k + 1)
    BY <1>2
  <2> QED BY <2>2, <2>3 DEF StopsAt
<1> HIDE DEF Stop
<1>4. \E k \in DOMAIN Walk : P(k)
  <2> DEFINE K == {k \in 0..N : Stop(k)}
  <2>1. L \in K
    BY <1>1, <1>3
  <2>2. K \subseteq 0..N /\ K # {}
    BY <2>1
  <2> HIDE DEF K
  <2>3. PICK c \in K : \A j \in 0..(c - 1) : j \notin K
    BY <1>1, <2>2, LeastOf
  <2>4. c \in 0..N /\ Stop(c)
    BY <2>3 DEF K
  <2>5. \A j \in 0..(c - 1) : ~Stop(j)
    <3> SUFFICES ASSUME NEW j \in 0..(c - 1) PROVE ~Stop(j)
      OBVIOUS
    <3>1. j \in 0..N
      BY <1>1, <2>4
    <3> QED BY <2>3, <3>1 DEF K
  <2> QED BY <1>2, <2>4, <2>5
<1> DEFINE n == CHOOSE k \in DOMAIN Walk : P(k)
<1>5. n \in DOMAIN Walk /\ P(n)
  <2> HIDE DEF P
  <2> QED BY <1>4
<1>6. FirstLater(when) = Walk[n]
  BY DEF FirstLater, Stop
<1> HIDE DEF n
<1>7. n \in 0..N /\ n <= L /\ n \in 0..L
  <2>1. n \in 0..N
    BY <1>2, <1>5
  <2>2. ~(L < n)
    <3> SUFFICES ASSUME L < n PROVE FALSE
      OBVIOUS
    <3>1. L \in 0..(n - 1)
      BY <1>1, <2>1
    <3>2. Stop(L)
      BY <1>1, <1>3
    <3> QED BY <1>5, <3>1, <3>2
  <2> QED BY <1>1, <2>1, <2>2
<1>8. FirstLater(when) = At(s, n + 1)
  BY <1>2, <1>6, <1>7
<1>9. Before(when) = n
  <2> DEFINE B == {k \in DOMAIN s : \A j \in 1..k : alarmtime[s[j]] < when}
  <2>1. DOMAIN s = 1..L
    BY <1>1 DEF L
  <2>2. ASSUME NEW k \in 1..n PROVE k \in B
    <3>1. k \in 1..L
      BY <1>1, <1>7
    <3>2. ASSUME NEW j \in 1..k PROVE alarmtime[s[j]] < when
      <4>1. /\ j - 1 \in 0..(n - 1) /\ j - 1 \in 0..N /\ (j - 1) + 1 = j
            /\ j \in 1..L
        BY <1>1, <1>7, <3>1
      <4>2. ~Stop(j - 1)
        BY <1>5, <4>1
      <4>3. ~(alarmtime[s[j]] >= when)
        BY <1>3, <4>1, <4>2
      <4> QED BY <1>1, <4>1, <4>3
    <3> QED BY <2>1, <3>1, <3>2
  <2>3. ASSUME NEW k \in B PROVE k \in 1..n
    <3>1. k \in 1..L /\ \A j \in 1..k : alarmtime[s[j]] < when
      BY <2>1
    <3>2. ASSUME n < k PROVE FALSE
      <4>1. n + 1 \in 1..k /\ n + 1 \in 1..L /\ ~(n >= L)
        BY <1>1, <1>7, <3>1, <3>2
      <4>2. alarmtime[s[n + 1]] >= when
        BY <1>3, <1>5, <1>7, <4>1
      <4> QED BY <1>1, <3>1, <4>1, <4>2
    <3> QED BY <1>7, <3>1, <3>2
  <2>4. B = 1..n
    <3> HIDE DEF B
    <3> QED BY <2>2, <2>3
  <2>5. Cardinality(1..n) = n
    BY <1>7, FS_Interval
  <2>6. Before(when) = Cardinality(B)
    BY DEF Before, s
  <2> HIDE DEF B
  <2> QED BY <2>4, <2>5, <2>6
<1> QED BY <1>7, <1>8, <1>9 DEF s, L

-----------------------------------------------------------------------------
(* A step that writes the links of tasks of list l, or of a task on no     *)
(* list, leaves the other lists alone.                                     *)
LEMMA OneListStep ==
  ASSUME IInv, Typed', NEW l \in List, NEW r \in Seq(Task),
         elems' = [elems EXCEPT ![l] = r], IsInjective(r),
         Range(r) \subseteq OnList(l) \cup Unlisted,
         Linked(head'[l], tail'[l], next', prev', r),
         \A x \in List \ {l} : head'[x] = head[x] /\ tail'[x] = tail[x],
         \A y \in Task : next'[y] # next[y] \/ prev'[y] # prev[y] =>
           y \in OnList(l) \cup Unlisted
  PROVE  IInv'
<1>1. elems \in [List -> Seq(Task)]
  BY DEF IInv, Typed
<1>2. elems'[l] = r /\ \A x \in List \ {l} : elems'[x] = elems[x]
  BY <1>1
<1>3. /\ \A x \in List : IsInjective(elems[x])
      /\ \A x, y \in List : x # y => OnList(x) \cap OnList(y) = {}
  BY DEF IInv, Apart
<1>4. \A x \in List \ {l} : OnList(x) \cap (OnList(l) \cup Unlisted) = {}
  BY <1>3 DEF Unlisted
<1>5. OnList(l)' = Range(r) /\ \A x \in List \ {l} : OnList(x)' = OnList(x)
  BY <1>2 DEF OnList
<1>6. Apart'
  <2>1. \A x \in List : IsInjective(elems'[x])
    BY <1>2, <1>3
  <2>2. \A x, y \in List : x # y => OnList(x)' \cap OnList(y)' = {}
    BY <1>3, <1>4, <1>5
  <2> QED BY <2>1, <2>2 DEF Apart
<1>7. ASSUME NEW x \in List PROVE Linked(head'[x], tail'[x], next', prev', elems'[x])
  <2>1. CASE x = l
    BY <1>2, <2>1
  <2>2. CASE x # l
    <3>1. Linked(head[x], tail[x], next, prev, elems[x]) /\ elems[x] \in Seq(Task)
      BY <1>1, LinkInvIs DEF IInv
    <3>2. \A y \in Range(elems[x]) : next'[y] = next[y] /\ prev'[y] = prev[y]
      <4>1. Range(elems[x]) \subseteq Task
        BY <3>1, RangeOfQueue
      <4> QED BY <1>4, <2>2, <4>1 DEF OnList
    <3>3. Linked(head[x], tail[x], next', prev', elems[x])
      BY <3>1, <3>2, OtherLinked
    <3> QED BY <1>2, <2>2, <3>3
  <2> QED BY <2>1, <2>2
<1>8. LinkInv'
  <2>1. \A x \in List : DOMAIN elems'[x] = 1..Len(elems'[x])
    BY DEF Typed
  <2> QED BY <1>7, <2>1 DEF LinkInv, Linked
<1> QED BY <1>6, <1>8 DEF IInv

(* The assignments that put t between the n-th task p of list l and the    *)
(* next one u.                                                             *)
Inserted(l, t, n, p, u) ==
  /\ n \in 0..Len(elems[l]) /\ p = At(elems[l], n) /\ u = At(elems[l], n + 1)
  /\ elems' = [elems EXCEPT ![l] = InsertAt(elems[l], n + 1, t)]
  /\ head' = IF p = nil THEN [head EXCEPT ![l] = t] ELSE head
  /\ tail' = IF u = nil THEN [tail EXCEPT ![l] = t] ELSE tail
  /\ next' = [Set(next, p, t) EXCEPT ![t] = u]
  /\ prev' = [Set(prev, u, t) EXCEPT ![t] = p]

(* What the assignments insert on paper they insert in memory.             *)
LEMMA InsertStep ==
  ASSUME TaskListAssumption, IInv, NEW l \in List, NEW t \in Unlisted,
         NEW n, NEW p, NEW u, Inserted(l, t, n, p, u), alarmtime' \in [Task -> Nat]
  PROVE  IInv'
<1>0. PICK w : w = n + 1
  OBVIOUS
<1>00. /\ n \in 0..Len(elems[l]) /\ p = At(elems[l], n) /\ u = At(elems[l], n + 1)
       /\ elems' = [elems EXCEPT ![l] = InsertAt(elems[l], w, t)]
       /\ head' = IF p = nil THEN [head EXCEPT ![l] = t] ELSE head
       /\ tail' = IF u = nil THEN [tail EXCEPT ![l] = t] ELSE tail
       /\ next' = [Set(next, p, t) EXCEPT ![t] = u]
       /\ prev' = [Set(prev, u, t) EXCEPT ![t] = p]
  BY <1>0 DEF Inserted
<1> DEFINE s == elems[l]
           r == InsertAt(s, w, t)
<1>1. /\ elems \in [List -> Seq(Task)] /\ s \in Seq(Task) /\ IsInjective(s)
      /\ head \in [List -> Ptr] /\ tail \in [List -> Ptr]
      /\ next \in [Task -> Ptr] /\ prev \in [Task -> Ptr]
      /\ Linked(head[l], tail[l], next, prev, s)
  BY LinkInvIs DEF IInv, Typed, Apart
<1>2. t \in Task /\ t \notin Range(s) /\ t # nil /\ Ptr = Task \cup {nil}
  BY DEF Unlisted, OnList, TaskListAssumption, Ptr
<1>3. p \in Ptr /\ u \in Ptr /\ p \in Range(s) \cup {nil} /\ u \in Range(s) \cup {nil}
  <2>1. n \in Int /\ n + 1 \in Int
    BY <1>00
  <2>2. p \in Ptr /\ u \in Ptr
    BY <1>00, <1>1, <2>1, AtIs
  <2>3. \A k \in 1..Len(s) : s[k] \in Range(s)
    BY DEF Range
  <2>4. (p = nil \/ \E k \in 1..Len(s) : p = s[k]) /\ (u = nil \/ \E k \in 1..Len(s) : u = s[k])
    BY <1>00, <1>1, <2>1, AtIs
  <2> QED BY <2>2, <2>3, <2>4
<1>4. /\ r \in Seq(Task) /\ Len(r) = Len(s) + 1 /\ IsInjective(r)
      /\ Range(r) = Range(s) \cup {t}
      /\ \A k \in 1..(Len(s) + 1) :
           r[k] = IF k <= n THEN s[k] ELSE IF k = w THEN t ELSE s[k - 1]
  <2>1. n \in 0..Len(s) /\ s \in Seq(Task) /\ IsInjective(s) /\ t \in Task /\ t \notin Range(s)
    BY <1>00, <1>1, <1>2
  <2> HIDE DEF s
  <2>2. PICK z : z = InsertAt(s, w, t)
    OBVIOUS
  <2>3. /\ z \in Seq(Task) /\ Len(z) = Len(s) + 1 /\ IsInjective(z)
        /\ Range(z) = Range(s) \cup {t}
        /\ \A k \in 1..(Len(s) + 1) :
             z[k] = IF k <= n THEN s[k] ELSE IF k = w THEN t ELSE s[k - 1]
    <3>1. Gained(Task, s, n, w, t, z)
      BY <1>0, <2>1, <2>2, InsertIntoQueue
    <3> QED BY <3>1 DEF Gained
  <2> QED BY <2>2, <2>3
<1> HIDE DEF r
<1>5. /\ next' \in [Task -> Ptr] /\ prev' \in [Task -> Ptr]
      /\ \A x \in Task : next'[x] = IF x = t THEN u ELSE IF x = p THEN t ELSE next[x]
      /\ \A x \in Task : prev'[x] = IF x = t THEN p ELSE IF x = u THEN t ELSE prev[x]
  <2>1. /\ Set(next, p, t) \in [Task -> Ptr]
        /\ \A x \in Task : Set(next, p, t)[x] = IF x = p THEN t ELSE next[x]
    <3>1. next \in [Task -> Ptr] /\ t \in Ptr /\ nil \notin Task
      BY <1>1, <1>2 DEF TaskListAssumption
    <3> QED BY <3>1 DEF Set
  <2>2. /\ Set(prev, u, t) \in [Task -> Ptr]
        /\ \A x \in Task : Set(prev, u, t)[x] = IF x = u THEN t ELSE prev[x]
    <3>1. prev \in [Task -> Ptr] /\ t \in Ptr /\ nil \notin Task
      BY <1>1, <1>2 DEF TaskListAssumption
    <3> QED BY <3>1 DEF Set
  <2> QED BY <1>00, <1>2, <1>3, <2>1, <2>2
<1>6. /\ head' \in [List -> Ptr] /\ tail' \in [List -> Ptr]
      /\ head'[l] = IF p = nil THEN t ELSE head[l]
      /\ tail'[l] = IF u = nil THEN t ELSE tail[l]
      /\ \A x \in List \ {l} : head'[x] = head[x] /\ tail'[x] = tail[x]
  BY <1>00, <1>1, <1>2
<1>7. elems' = [elems EXCEPT ![l] = r]
  BY <1>00 DEF r
<1>8. Typed'
  <2>1. elems' \in [List -> Seq(Task)]
    BY <1>1, <1>4, <1>7
  <2> QED BY <1>5, <1>6, <2>1 DEF Typed
<1>9. Linked(head'[l], tail'[l], next', prev', r)
  <2>1. /\ n \in 0..Len(s) /\ p = At(s, n) /\ u = At(s, n + 1)
        /\ InsertedBehind(r, s, n, t)
        /\ PutBetween(next', next, t, p, u) /\ PutBetween(prev', prev, t, u, p)
    BY <1>0, <1>00, <1>4, <1>5 DEF InsertedBehind, PutBetween
  <2>2. PICK h, e, nx, pv : h = head[l] /\ e = tail[l] /\ nx = next /\ pv = prev
    OBVIOUS
  <2>3. PICK h2, e2, nx2, pv2 : h2 = head'[l] /\ e2 = tail'[l] /\ nx2 = next' /\ pv2 = prev'
    OBVIOUS
  <2>4. /\ s \in Seq(Task) /\ IsInjective(s) /\ t \in Task /\ t \notin Range(s)
        /\ Linked(h, e, nx, pv, s)
    BY <1>1, <1>2, <2>2
  <2>5. /\ h2 = IF p = nil THEN t ELSE h
        /\ e2 = IF u = nil THEN t ELSE e
        /\ PutBetween(nx2, nx, t, p, u) /\ PutBetween(pv2, pv, t, u, p)
    BY <1>6, <2>1, <2>2, <2>3
  <2> HIDE DEF s
  <2>6. Linked(h2, e2, nx2, pv2, r)
    BY <2>1, <2>4, <2>5, InsertLinked
  <2> QED BY <2>3, <2>6
<1>10. Range(r) \subseteq OnList(l) \cup Unlisted
  BY <1>4 DEF OnList
<1>11. \A y \in Task : next'[y] # next[y] \/ prev'[y] # prev[y] =>
         y \in OnList(l) \cup Unlisted
  BY <1>2, <1>3, <1>5 DEF OnList, TaskListAssumption
<1> QED BY <1>4, <1>6, <1>7, <1>8, <1>9, <1>10, <1>11, OneListStep

(* addtask() puts the task behind the last one.                            *)
LEMMA AddStep ==
  ASSUME TaskListAssumption, IInv, NEW l \in List, NEW t \in Task, addtask(l, t)
  PROVE  IInv'
<1> DEFINE s == elems[l]
           n == Len(s)
<1>1. /\ t \in Unlisted /\ s \in Seq(Task) /\ IsInjective(s) /\ n \in 0..Len(s)
      /\ Linked(head[l], tail[l], next, prev, s) /\ alarmtime \in [Task -> Nat]
  BY LinkInvIs DEF addtask, IInv, Typed, Apart
<1>2. t \in Task /\ t \notin Range(s)
  BY <1>1 DEF Unlisted, OnList
<1>3. tail[l] = At(s, n) /\ nil = At(s, n + 1)
  <2>1. n + 1 \in Int /\ n + 1 \notin 1..Len(s)
    BY <1>1
  <2>2. nil = At(s, n + 1)
    BY <1>1, <2>1, AtIs
  <2> QED BY <1>1, <2>2 DEF Linked
<1>4. elems' = [elems EXCEPT ![l] = InsertAt(elems[l], n + 1, t)]
  <2>1. PICK w : w = n + 1
    OBVIOUS
  <2>2. Append(s, t) = InsertAt(s, w, t)
    BY <1>1, <1>2, <2>1, AppendIsInsert
  <2> QED BY <2>1, <2>2 DEF addtask
<1>5. /\ head' = IF tail[l] = nil THEN [head EXCEPT ![l] = t] ELSE head
      /\ tail' = IF nil = nil THEN [tail EXCEPT ![l] = t] ELSE tail
      /\ next' = [Set(next, tail[l], t) EXCEPT ![t] = nil]
      /\ prev' = [Set(prev, nil, t) EXCEPT ![t] = tail[l]]
  BY DEF addtask, AppendLinks, Set
<1>6. alarmtime' \in [Task -> Nat]
  BY <1>1 DEF addtask
<1>7. Inserted(l, t, n, tail[l], nil)
  BY <1>1, <1>3, <1>4, <1>5 DEF Inserted
<1> HIDE DEF n
<1> QED BY <1>1, <1>6, <1>7, InsertStep

(* taskdelay() puts the task in front of the one it found, or behind the   *)
(* last if it found none.                                                  *)
LEMMA DelayStep ==
  ASSUME TaskListAssumption, IInv, NEW t \in Task, NEW when \in When,
         taskdelay(t, when)
  PROVE  IInv'
<1> DEFINE s == elems[sleeping]
           u == FirstLater(when)
           p == IF u = nil THEN tail[sleeping] ELSE prev[u]
<1>1. /\ t \in Unlisted /\ sleeping \in List /\ s \in Seq(Task) /\ when \in Nat
      /\ Linked(head[sleeping], tail[sleeping], next, prev, s)
      /\ alarmtime \in [Task -> Nat]
  BY LinkInvIs DEF taskdelay, IInv, Typed, TaskListAssumption
<1>2. PICK n \in 0..Len(s) : Before(when) = n /\ u = At(s, n + 1)
  BY <1>1, FirstLaterIs
<1>3. p = At(s, n)
  <2>0. n \in Int /\ n + 1 \in Int /\ Len(s) \in Nat /\ (n + 1) - 1 = n
    OBVIOUS
  <2> HIDE DEF u
  <2>1. CASE n = Len(s)
    <3>1. n + 1 \notin 1..Len(s)
      BY <2>0, <2>1
    <3>2. u = nil
      BY <1>1, <1>2, <2>0, <3>1, AtIs
    <3> QED BY <1>1, <2>1, <3>2 DEF Linked
  <2>2. CASE n # Len(s)
    <3>1. n + 1 \in 1..Len(s)
      BY <2>0, <2>2
    <3>2. u = s[n + 1] /\ u # nil
      BY <1>1, <1>2, <2>0, <3>1, AtIs
    <3>3. prev[s[n + 1]] = At(s, (n + 1) - 1)
      BY <1>1, <3>1 DEF Linked
    <3> QED BY <2>0, <3>2, <3>3
  <2> QED BY <2>1, <2>2
<1>4. /\ head' = IF p = nil THEN [head EXCEPT ![sleeping] = t] ELSE head
      /\ tail' = IF u = nil THEN [tail EXCEPT ![sleeping] = t] ELSE tail
      /\ next' = [Set(next, p, t) EXCEPT ![t] = u]
      /\ prev' = [Set(prev, u, t) EXCEPT ![t] = p]
  <2>1. InsertLinks(t, u)
    BY DEF taskdelay
  <2> HIDE DEF u
  <2> QED BY <2>1 DEF InsertLinks
<1>5. elems' = [elems EXCEPT ![sleeping] = InsertAt(elems[sleeping], n + 1, t)]
  BY <1>2 DEF taskdelay
<1>6. alarmtime' \in [Task -> Nat]
  BY <1>1 DEF taskdelay
<1> HIDE DEF u, p
<1>7. Inserted(sleeping, t, n, p, u)
  BY <1>2, <1>3, <1>4, <1>5 DEF Inserted
<1> QED BY <1>1, <1>6, <1>7, InsertStep

(* deltask() joins the neighbours of the task, or moves an end of the list *)
(* to them.                                                                *)
LEMMA RemoveStep ==
  ASSUME TaskListAssumption, IInv, NEW l \in List, NEW t \in Task, deltask(l, t)
  PROVE  IInv'
<1> DEFINE s == elems[l]
<1>1. /\ elems \in [List -> Seq(Task)] /\ s \in Seq(Task) /\ IsInjective(s)
      /\ head \in [List -> Ptr] /\ tail \in [List -> Ptr]
      /\ next \in [Task -> Ptr] /\ prev \in [Task -> Ptr]
      /\ alarmtime \in [Task -> Nat] /\ nil \notin Task /\ Ptr = Task \cup {nil}
      /\ Linked(head[l], tail[l], next, prev, s)
  BY LinkInvIs DEF IInv, Typed, Apart, Ptr, TaskListAssumption
<1>2. PICK k \in 1..Len(s) : s[k] = t /\ elems' = [elems EXCEPT ![l] = RemoveAt(s, k)]
  <2>1. PICK i \in DOMAIN s : s[i] = t /\ elems' = [elems EXCEPT ![l] = RemoveAt(s, i)]
    <3> HIDE DEF s
    <3>1. \E i \in DOMAIN s : s[i] = t /\ elems' = [elems EXCEPT ![l] = RemoveAt(s, i)]
      BY Zenon DEF deltask, s
    <3> QED BY <3>1
  <2>2. DOMAIN s = 1..Len(s)
    BY <1>1
  <2> QED BY <2>1, <2>2
<1>3. PICK p, u, r : p = prev[t] /\ u = next[t] /\ r = RemoveAt(s, k)
  OBVIOUS
<1>4. p = At(s, k - 1) /\ u = At(s, k + 1)
  BY <1>1, <1>2, <1>3 DEF Linked
<1>5. /\ p \in Ptr /\ u \in Ptr
      /\ p \in Range(s) \cup {nil} /\ u \in Range(s) \cup {nil}
  <2>1. k - 1 \in Int /\ k + 1 \in Int
    OBVIOUS
  <2>2. \A j \in 1..Len(s) : s[j] \in Range(s)
    BY <1>1 DEF Range
  <2>3. (p = nil \/ \E j \in 1..Len(s) : p = s[j]) /\ (u = nil \/ \E j \in 1..Len(s) : u = s[j])
    BY <1>1, <1>4, <2>1, AtIs
  <2> QED BY <1>1, <1>3, <2>2, <2>3
<1>6. /\ r \in Seq(Task) /\ Len(r) = Len(s) - 1 /\ IsInjective(r)
      /\ Range(r) = Range(s) \ {s[k]}
      /\ \A j \in 1..(Len(s) - 1) : r[j] = IF j < k THEN s[j] ELSE s[j + 1]
  <2>1. s \in Seq(Task) /\ IsInjective(s) /\ k \in 1..Len(s) /\ r = RemoveAt(s, k)
    BY <1>1, <1>3
  <2> HIDE DEF s
  <2> QED BY <2>1, RemoveFromQueue
<1>7. elems' = [elems EXCEPT ![l] = r]
  BY <1>2, <1>3
<1>8. /\ next' \in [Task -> Ptr] /\ prev' \in [Task -> Ptr]
      /\ \A x \in Task : next'[x] = IF x = p THEN u ELSE next[x]
      /\ \A x \in Task : prev'[x] = IF x = u THEN p ELSE prev[x]
  <2>1. next' = Set(next, p, u) /\ prev' = Set(prev, u, p)
    BY <1>3 DEF deltask
  <2>2. CASE p = nil
    BY <1>1, <1>5, <2>1, <2>2 DEF Set
  <2>3. CASE p # nil
    BY <1>1, <1>5, <2>1, <2>3 DEF Set
  <2> QED BY <2>2, <2>3
<1>9. /\ head' \in [List -> Ptr] /\ tail' \in [List -> Ptr]
      /\ head'[l] = IF p = nil THEN u ELSE head[l]
      /\ tail'[l] = IF u = nil THEN p ELSE tail[l]
      /\ \A x \in List \ {l} : head'[x] = head[x] /\ tail'[x] = tail[x]
  <2>1. /\ head' = IF p = nil THEN [head EXCEPT ![l] = u] ELSE head
        /\ tail' = IF u = nil THEN [tail EXCEPT ![l] = p] ELSE tail
    BY <1>3 DEF deltask
  <2> QED BY <1>1, <1>5, <2>1
<1>10. Typed'
  <2>1. elems' \in [List -> Seq(Task)] /\ alarmtime' = alarmtime
    BY <1>1, <1>6, <1>7 DEF deltask
  <2> QED BY <1>1, <1>8, <1>9, <2>1 DEF Typed
<1>11. Linked(head'[l], tail'[l], next', prev', r)
  <2>1. WithoutPlace(r, s, k) /\ Joined(next', next, p, u) /\ Joined(prev', prev, u, p)
    BY <1>6, <1>8 DEF WithoutPlace, Joined
  <2>2. PICK h, e, nx, pv : h = head[l] /\ e = tail[l] /\ nx = next /\ pv = prev
    OBVIOUS
  <2>3. PICK h2, e2, nx2, pv2 : h2 = head'[l] /\ e2 = tail'[l] /\ nx2 = next' /\ pv2 = prev'
    OBVIOUS
  <2>4. s \in Seq(Task) /\ IsInjective(s) /\ Linked(h, e, nx, pv, s)
    BY <1>1, <2>2
  <2>5. /\ h2 = IF p = nil THEN u ELSE h
        /\ e2 = IF u = nil THEN p ELSE e
        /\ Joined(nx2, nx, p, u) /\ Joined(pv2, pv, u, p)
    BY <1>9, <2>1, <2>2, <2>3
  <2> HIDE DEF s
  <2>6. Linked(h2, e2, nx2, pv2, r)
    BY <1>4, <2>1, <2>4, <2>5, RemoveLinked
  <2> QED BY <2>3, <2>6
<1>12. Range(r) \subseteq OnList(l) \cup Unlisted
  BY <1>6 DEF OnList
<1>13. \A y \in Task : next'[y] # next[y] \/ prev'[y] # prev[y] =>
         y \in OnList(l) \cup Unlisted
  BY <1>1, <1>5, <1>8 DEF OnList
<1> QED BY <1>6, <1>7, <1>9, <1>10, <1>11, <1>12, <1>13, OneListStep

-----------------------------------------------------------------------------
(* At first all lists are empty, and head and tail are nil.                *)
LEMMA InitInv == ASSUME TaskListAssumption, Init PROVE IInv
<1>1. Typed
  <2>1. <<>> \in Seq(Task)
    OBVIOUS
  <2> QED BY <2>1 DEF Init, Typed, Ptr
<1>2. \A l \in List : elems[l] = <<>> /\ head[l] = nil /\ tail[l] = nil
  BY DEF Init
<1>3. Apart
  BY <1>2 DEF Apart, IsInjective, OnList, Range
<1>4. LinkInv
  <2>1. \A k : At(<<>>, k) = nil
    BY DEF At
  <2> QED BY <1>2, <2>1 DEF LinkInv
<1> QED BY <1>1, <1>3, <1>4 DEF IInv

(* Every call keeps the lists apart and represented.                       *)
LEMMA NextInv == ASSUME TaskListAssumption, IInv, [Next]_listVars PROVE IInv'
<1>1. ASSUME NEW l \in List, NEW t \in Task, addtask(l, t) PROVE IInv'
  BY <1>1, AddStep
<1>2. ASSUME NEW l \in List, NEW t \in Task, deltask(l, t) PROVE IInv'
  BY <1>2, RemoveStep
<1>3. ASSUME NEW t \in Task, NEW when \in When, taskdelay(t, when) PROVE IInv'
  BY <1>3, DelayStep
<1>4. CASE UNCHANGED listVars
  BY <1>4 DEF IInv, Typed, Apart, LinkInv, OnList, At, listVars, linkVars
<1> QED BY <1>1, <1>2, <1>3, <1>4 DEF Next

(* The inductive invariant holds in every reachable state, for any number  *)
(* of tasks and lists and any alarm times.                                 *)
THEOREM Invariance == ASSUME TaskListAssumption PROVE Spec => []IInv
<1>1. Init => IInv
  BY InitInv
<1>2. IInv /\ [Next]_listVars => IInv'
  BY NextInv
<1> QED BY <1>1, <1>2, PTL DEF Spec

(* The pointers represent the sequences that the other modules use:        *)
(* addtask(), deltask() and the insertion by hand of taskdelay() do to the *)
(* links what Append, RemoveAt and InsertAt do to the sequence.            *)
THEOREM LinksCorrect == ASSUME TaskListAssumption PROVE Spec => []LinkInv
<1>1. IInv => LinkInv
  BY DEF IInv
<1> QED BY <1>1, Invariance, PTL

-----------------------------------------------------------------------------
(* The arrays of waiting Alts.                                             *)
(* An Alt: its task and its place in the call.                             *)
Entry == Caller \X Nat

(* What all arrays hold, and how much they may hold.                       *)
Arrays == [a : [A!Array -> Seq(Entry)], m : [A!Array -> Nat]]

(* s holds in x what is in x now and the first i Alts of t that belong to  *)
(* it, each once and in slots that are allocated.                          *)
QueuedTo(s, t, as, i) ==
  \A x \in A!Array :
    /\ IsInjective(s.a[x]) /\ Len(s.a[x]) <= s.m[x]
    /\ \A u \in Caller, j \in Nat :
         <<u, j>> \in Range(s.a[x]) <=>
           <<u, j>> \in Range(a[x]) \/ (u = t /\ j \in 1..i /\ as[j] = x)

ArrTyped ==
  /\ a \in [A!Array -> Seq(Entry)] /\ m \in [A!Array -> Nat]
  /\ alts \in [Caller -> Seq(A!Array \cup {None})] /\ freed \subseteq A!Array
  /\ aborted = FALSE

(* Each array holds the Alts of waiting tasks that belong to it.           *)
HoldsAlts ==
  \A x \in A!Array, t \in Caller, i \in Nat :
    <<t, i>> \in Range(a[x]) <=> i \in 1..Len(alts[t]) /\ alts[t][i] = x

Slots ==
  \A x \in A!Array :
    IsInjective(a[x]) /\ Len(a[x]) <= m[x] /\ (x \in freed => a[x] = <<>>)

ArrInv == ArrTyped /\ HoldsAlts /\ Slots

-----------------------------------------------------------------------------
(* In r, p was put at the end of array x of s.                             *)
Added(r, s, x, p) ==
  /\ r.a[x] = Append(s.a[x], p)
  /\ r.m[x] = IF Len(s.a[x]) = s.m[x] THEN s.m[x] + Grain ELSE s.m[x]
  /\ \A y \in A!Array \ {x} : r.a[y] = s.a[y] /\ r.m[y] = s.m[y]

(* addarray() on well-formed arrays.                                       *)
LEMMA AddArrayIs ==
  ASSUME A!AltArrayAssumption, NEW s \in Arrays, NEW x \in A!Array, NEW p \in Entry,
         NEW r, r = A!addarray(s, x, p)
  PROVE  r \in Arrays /\ Added(r, s, x, p)
<1>1. /\ s.a \in [A!Array -> Seq(Entry)] /\ s.m \in [A!Array -> Nat] /\ Grain \in Nat
  BY DEF Arrays, A!AltArrayAssumption
<1>2. [s.a EXCEPT ![x] = Append(@, p)] \in [A!Array -> Seq(Entry)]
  <2>1. Append(s.a[x], p) \in Seq(Entry)
    BY <1>1, AppendProperties
  <2> QED BY <1>1, <2>1
<1>3. [s.m EXCEPT ![x] = IF Len(s.a[x]) = @ THEN @ + Grain ELSE @] \in [A!Array -> Nat]
  BY <1>1
<1>4. /\ r.a = [s.a EXCEPT ![x] = Append(@, p)]
      /\ r.m = [s.m EXCEPT ![x] = IF Len(s.a[x]) = @ THEN @ + Grain ELSE @]
  BY DEF A!addarray
<1>5. r \in Arrays
  BY <1>2, <1>3 DEF A!addarray, Arrays
<1> QED BY <1>1, <1>4, <1>5 DEF Added

(* The history of the loop over the Alts of a call.                        *)
LEMMA QueueingIs ==
  ASSUME A!AltArrayAssumption, ArrTyped, NEW t \in Caller,
         NEW as \in Seq(A!Array \cup {None}), NEW q, q = A!Queueing(t, as)
  PROVE  /\ q[0] = [a |-> a, m |-> m] /\ \A i \in 0..Len(as) : q[i] \in Arrays
         /\ \A i \in 1..Len(as) :
              /\ q[i - 1] \in Arrays
              /\ q[i] = IF as[i] = None THEN q[i - 1]
                        ELSE A!addarray(q[i - 1], as[i], <<t, i>>)
<1> DEFINE n == Len(as)
           b == [a |-> a, m |-> m]
           turn(s, i) == IF as[i] = None THEN s ELSE A!addarray(s, as[i], <<t, i>>)
           step == [i \in 1..n |-> [s \in Arrays |-> turn(s, i)]]
<1> HIDE DEF n, b, turn, step
<1>1. n \in Nat /\ b \in Arrays
  <2>1. n \in Nat
    BY LenProperties DEF n
  <2>2. b \in Arrays
    BY DEF ArrTyped, Arrays, b
  <2> QED BY <2>1, <2>2
<1>2. ASSUME NEW i \in 1..n, NEW s \in Arrays PROVE turn(s, i) \in Arrays
  <2>1. as[i] \in A!Array \cup {None} /\ <<t, i>> \in Entry
    <3>1. as[i] \in A!Array \cup {None}
      BY ElementOfSeq DEF n
    <3>2. i \in Nat
      BY <1>1
    <3> QED BY <3>1, <3>2 DEF Entry
  <2>2. CASE as[i] = None
    BY <2>2 DEF turn
  <2>3. CASE as[i] # None
    <3>1. as[i] \in A!Array
      BY <2>1, <2>3
    <3>2. A!addarray(s, as[i], <<t, i>>) \in Arrays
      BY <2>1, <3>1, AddArrayIs
    <3> QED BY <2>3, <3>2 DEF turn
  <2> QED BY <2>2, <2>3
<1>3. step \in [1..n -> [Arrays -> Arrays]]
  <2>1. ASSUME NEW i \in 1..n PROVE [s \in Arrays |-> turn(s, i)] \in [Arrays -> Arrays]
    BY <1>2
  <2> QED BY <2>1 DEF step
<1>4. PICK g \in [0..n -> Arrays] : g[0] = b /\ \A i \in 1..n : g[i] = step[i][g[i - 1]]
  <2>1. \E g : Runs(g, n, Arrays, b, step)
    BY <1>1, <1>3, History
  <2> QED BY <2>1 DEF Runs
<1>5. ASSUME NEW i \in 1..n PROVE g[i] = turn(g[i - 1], i)
  <2>1. i - 1 \in 0..n
    BY <1>1
  <2>2. g[i - 1] \in Arrays
    BY <1>4, <2>1
  <2>3. step[i][g[i - 1]] = turn(g[i - 1], i)
    BY <2>2 DEF step
  <2> QED BY <1>4, <2>3
<1>6. g = [i \in 0..n |-> IF i = 0 THEN b ELSE turn(g[i - 1], i)]
  <2>1. \A i \in 0..n : i # 0 => i \in 1..n
    BY <1>1
  <2>2. \A i \in 0..n : g[i] = IF i = 0 THEN b ELSE turn(g[i - 1], i)
    BY <1>4, <1>5, <2>1
  <2>3. g = [i \in 0..n |-> g[i]]
    BY <1>4
  <2> QED BY <2>2, <2>3
<1>7. q = [i \in 0..n |-> IF i = 0 THEN b ELSE turn(q[i - 1], i)]
  <2>1. q = CHOOSE f : f = [i \in 0..n |-> IF i = 0 THEN b ELSE turn(f[i - 1], i)]
    BY DEF A!Queueing, n, b, turn
  <2> QED BY <1>6, <2>1, Zenon
<1>8. q[0] = b /\ \A i \in 1..n : q[i] = turn(q[i - 1], i)
  <2>1. 0 \in 0..n /\ \A i \in 1..n : i \in 0..n /\ i # 0
    BY <1>1
  <2> QED BY <1>7, <2>1
<1>9. \A i \in 0..n : q[i] \in Arrays
  <2> DEFINE K == {i \in 0..n : q[i] \in Arrays}
  <2>1. 0 \in K
    BY <1>1, <1>8
  <2>2. \A i \in 1..n : i - 1 \in K => i \in K
    <3> SUFFICES ASSUME NEW i \in 1..n, q[i - 1] \in Arrays PROVE i \in K
      OBVIOUS
    <3>1. q[i] \in Arrays /\ i \in 0..n
      BY <1>1, <1>2, <1>8
    <3> QED BY <3>1
  <2> HIDE DEF K
  <2>3. \A i \in 0..n : i \in K
    BY <1>1, <2>1, <2>2, CountingUp
  <2> QED BY <2>3 DEF K
<1>10. \A i \in 1..n : i - 1 \in 0..n
  BY <1>1
<1>11. /\ q[0] = b /\ \A i \in 0..n : q[i] \in Arrays
       /\ \A i \in 1..n : q[i - 1] \in Arrays /\ q[i] = turn(q[i - 1], i)
  BY <1>1, <1>8, <1>9, <1>10
<1> QED BY <1>11 DEF n, b, turn

(* The turns of a loop over the Alts of a call.                            *)
LEMMA TurnsOf ==
  ASSUME NEW n \in Nat
  PROVE  /\ 0 \in 0..n /\ n \in 0..n
         /\ \A i \in 1..n : i - 1 \in 0..n /\ i \in 0..n /\ i \in Nat \ {0}
         /\ \A i \in 1..n, j \in Nat : j \in 1..i <=> j = i \/ j \in 1..(i - 1)
OBVIOUS

(* One more Alt of t is put into the array it belongs to.                  *)
LEMMA QueuedMore ==
  ASSUME A!AltArrayAssumption, NEW t \in Caller, NEW as, NEW i \in Nat \ {0},
         NEW s \in Arrays, QueuedTo(s, t, as, i - 1),
         NEW x \in A!Array, as[i] = x, <<t, i>> \notin Range(a[x]),
         NEW r, r = A!addarray(s, x, <<t, i>>)
  PROVE  QueuedTo(r, t, as, i)
<1> DEFINE p == <<t, i>>
           b == Append(s.a[x], p)
<1>1. /\ r.a[x] = b
      /\ r.m[x] = IF Len(s.a[x]) = s.m[x] THEN s.m[x] + Grain ELSE s.m[x]
      /\ \A y \in A!Array \ {x} : r.a[y] = s.a[y] /\ r.m[y] = s.m[y]
      /\ p \in Entry
  <2>1. p \in Entry /\ r = A!addarray(s, x, p)
    BY DEF Entry
  <2> HIDE DEF p, b
  <2>2. Added(r, s, x, p)
    BY <2>1, AddArrayIs
  <2> QED BY <2>1, <2>2 DEF Added, b
<1>2. s.a \in [A!Array -> Seq(Entry)] /\ s.m \in [A!Array -> Nat]
  BY DEF Arrays
<1>3. p \notin Range(s.a[x])
  <2>1. ~(i \in 1..(i - 1))
    OBVIOUS
  <2> QED BY <2>1 DEF QueuedTo
<1> HIDE DEF p
<1>4. IsInjective(s.a[x]) /\ s.a[x] \in Seq(Entry) /\ Len(s.a[x]) <= s.m[x]
  BY <1>2 DEF QueuedTo
<1>5. b \in Seq(Entry) /\ Range(b) = Range(s.a[x]) \cup {p} /\ IsInjective(b)
  BY <1>1, <1>3, <1>4, AppendToQueue
<1>6. Len(b) = Len(s.a[x]) + 1 /\ Len(s.a[x]) \in Nat
  BY <1>1, <1>4, AppendProperties, LenProperties
<1> HIDE DEF b
<1>7. ASSUME NEW y \in A!Array
      PROVE  /\ IsInjective(r.a[y]) /\ Len(r.a[y]) <= r.m[y]
             /\ \A u \in Caller, j \in Nat :
                  <<u, j>> \in Range(r.a[y]) <=>
                    <<u, j>> \in Range(a[y]) \/ (u = t /\ j \in 1..i /\ as[j] = y)
  <2>1. CASE y = x
    <3>2. Len(b) <= r.m[x]
      <4>1. s.m[x] \in Nat /\ Grain \in Nat \ {0}
        BY <1>2 DEF A!AltArrayAssumption
      <4> QED BY <1>1, <1>4, <1>6, <4>1
    <3>3. ASSUME NEW u \in Caller, NEW j \in Nat
          PROVE  <<u, j>> \in Range(b) <=>
                   <<u, j>> \in Range(a[x]) \/ (u = t /\ j \in 1..i /\ as[j] = x)
      <4>1. j \in 1..i <=> j = i \/ j \in 1..(i - 1)
        OBVIOUS
      <4>2. <<u, j>> = p <=> u = t /\ j = i
        BY DEF p
      <4> QED BY <1>5, <4>1, <4>2 DEF QueuedTo
    <3> QED BY <1>1, <1>5, <2>1, <3>2, <3>3
  <2>2. CASE y # x
    <3>1. r.a[y] = s.a[y] /\ r.m[y] = s.m[y]
      BY <1>1, <2>2
    <3>2. \A j \in Nat : j \in 1..i /\ as[j] = y <=> j \in 1..(i - 1) /\ as[j] = y
      <4>1. \A j \in Nat : j \in 1..i <=> j = i \/ j \in 1..(i - 1)
        OBVIOUS
      <4> QED BY <2>2, <4>1
    <3> QED BY <3>1, <3>2 DEF QueuedTo
  <2> QED BY <2>1, <2>2
<1> QED BY <1>7 DEF QueuedTo

(* All Alts of a call are queued, none of which was before.                *)
LEMMA QueuedAll ==
  ASSUME A!AltArrayAssumption, ArrTyped, Slots, NEW t \in Caller,
         NEW as \in Seq(A!Array \cup {None}), NEW n \in Nat, n = Len(as),
         \A x \in A!Array, j \in Nat : <<t, j>> \notin Range(a[x]),
         NEW q, q = A!Queueing(t, as)
  PROVE  q[n] \in Arrays /\ QueuedTo(q[n], t, as, n)
<1> DEFINE K == {i \in 0..n : QueuedTo(q[i], t, as, i)}
<1>1. \A i \in 0..n : i \in K <=> QueuedTo(q[i], t, as, i)
  OBVIOUS
<1> HIDE DEF K
<1>0. /\ 0 \in 0..n /\ n \in 0..n
      /\ \A i \in 1..n : i - 1 \in 0..n /\ i \in 0..n /\ i \in Nat \ {0}
      /\ \A i \in 1..n, j \in Nat : j \in 1..i <=> j = i \/ j \in 1..(i - 1)
  BY TurnsOf
<1>2. /\ q[0] = [a |-> a, m |-> m] /\ \A i \in 0..n : q[i] \in Arrays
      /\ \A i \in 1..n : q[i] = IF as[i] = None THEN q[i - 1]
                                ELSE A!addarray(q[i - 1], as[i], <<t, i>>)
  BY QueueingIs
<1>3. 0 \in K
  <2>1. q[0].a = a /\ q[0].m = m
    BY <1>2
  <2>2. \A j \in Nat : ~(j \in 1..0)
    OBVIOUS
  <2>3. QueuedTo(q[0], t, as, 0)
    BY <2>1, <2>2 DEF QueuedTo, Slots
  <2> QED BY <1>0, <1>1, <2>3
<1>4. ASSUME NEW i \in 1..n, i - 1 \in K PROVE i \in K
  <2>1. i - 1 \in 0..n /\ i \in 0..n /\ i \in Nat \ {0}
    BY <1>0
  <2>2. QueuedTo(q[i - 1], t, as, i - 1) /\ q[i - 1] \in Arrays
    BY <1>1, <1>2, <1>4, <2>1
  <2>3. as[i] \in A!Array \cup {None}
    BY ElementOfSeq
  <2>4. CASE as[i] = None
    <3>1. q[i] = q[i - 1]
      BY <1>2, <2>4
    <3>2. \A x \in A!Array, j \in Nat : j \in 1..i /\ as[j] = x <=> j \in 1..(i - 1) /\ as[j] = x
      <4> QED BY <1>0, <2>4 DEF A!AltArrayAssumption
    <3>3. PICK s : s = q[i - 1] /\ QueuedTo(s, t, as, i - 1)
      BY <2>2
    <3>4. QueuedTo(s, t, as, i)
      BY <3>2, <3>3 DEF QueuedTo
    <3>5. QueuedTo(q[i], t, as, i)
      BY <3>1, <3>3, <3>4
    <3> QED BY <1>1, <2>1, <3>5
  <2>5. CASE as[i] # None
    <3>1. PICK x \in A!Array : as[i] = x
      BY <2>3, <2>5
    <3>2. PICK s, r : s \in Arrays /\ s = q[i - 1] /\ r = q[i]
      BY <2>2
    <3>3. r = A!addarray(s, x, <<t, i>>)
      BY <1>2, <2>5, <3>1, <3>2
    <3>4. QueuedTo(s, t, as, i - 1) /\ <<t, i>> \notin Range(a[x])
      BY <2>1, <2>2, <3>2
    <3>5. QueuedTo(r, t, as, i)
      BY <2>1, <3>1, <3>2, <3>3, <3>4, QueuedMore
    <3> QED BY <1>1, <2>1, <3>2, <3>5
  <2> QED BY <2>4, <2>5
<1>5. \A i \in 0..n : i \in K
  BY <1>3, <1>4, CountingUp
<1> QED BY <1>0, <1>1, <1>2, <1>5

(* chanalt() has queued the Alts of its call.                              *)
LEMMA QueueKeeps ==
  ASSUME A!AltArrayAssumption, ArrInv, NEW t \in Caller, NEW as \in Calls, A!altqueue(t, as)
  PROVE  ArrInv'
<1>1. /\ as \in Seq(A!Array \cup {None}) /\ ArrTyped /\ alts[t] = <<>>
      /\ None \notin A!Array /\ HoldsAlts /\ Slots
  BY DEF A!AltArrayAssumption, ArrInv, A!altqueue
<1>2. PICK n \in Nat : n = Len(as) /\ DOMAIN as = 1..n
  BY <1>1, LenProperties
<1>3. PICK q : q = A!Queueing(t, as)
  OBVIOUS
<1>4. /\ a' = q[n].a /\ m' = q[n].m /\ alts' = [alts EXCEPT ![t] = as]
      /\ freed' = freed /\ aborted' = aborted /\ \A j \in 1..n : as[j] \notin freed
  BY <1>2, <1>3 DEF A!altqueue
<1>5. \A x \in A!Array, j \in Nat : <<t, j>> \notin Range(a[x])
  <2>1. Len(alts[t]) = 0
    BY <1>1
  <2>2. \A j \in Nat : j \notin 1..0
    OBVIOUS
  <2> QED BY <1>1, <2>1, <2>2 DEF HoldsAlts
<1>6. QueuedTo(q[n], t, as, n) /\ q[n] \in Arrays
  BY <1>1, <1>2, <1>3, <1>5, QueuedAll
<1>7. q[n].a \in [A!Array -> Seq(Entry)] /\ q[n].m \in [A!Array -> Nat]
  BY <1>6 DEF Arrays
<1>8. ArrTyped'
  <2>1. alts' \in [Caller -> Seq(A!Array \cup {None})]
    BY <1>1, <1>4 DEF ArrTyped
  <2> QED BY <1>1, <1>4, <1>7, <2>1 DEF ArrTyped
<1>9. Slots'
  <2> SUFFICES ASSUME NEW x \in A!Array
               PROVE  IsInjective(a'[x]) /\ Len(a'[x]) <= m'[x] /\ (x \in freed => a'[x] = <<>>)
    BY <1>4 DEF Slots
  <2>1. IsInjective(a'[x]) /\ Len(a'[x]) <= m'[x]
    BY <1>4, <1>6 DEF QueuedTo
  <2>2. ASSUME x \in freed PROVE a'[x] = <<>>
    <3>1. a[x] = <<>>
      BY <1>1, <2>2 DEF Slots
    <3>2. \A j \in 1..n : as[j] # x
      BY <1>4, <2>2
    <3>3. \A u \in Caller, j \in Nat : <<u, j>> \notin Range(a'[x])
      <4>1. Range(a[x]) = {}
        BY <3>1 DEF Range
      <4> QED BY <1>4, <1>6, <3>2, <4>1 DEF QueuedTo
    <3>4. a'[x] \in Seq(Entry)
      BY <1>4, <1>7
    <3>5. Range(a'[x]) \subseteq Entry
      BY <3>4, RangeOfQueue
    <3>6. Range(a'[x]) = {}
      BY <3>3, <3>5 DEF Entry
    <3> QED BY <3>4, <3>6, EmptyQueue
  <2> QED BY <2>1, <2>2
<1>10. HoldsAlts'
  <2> SUFFICES ASSUME NEW x \in A!Array, NEW u \in Caller, NEW i \in Nat
               PROVE  <<u, i>> \in Range(a'[x]) <=> i \in 1..Len(alts'[u]) /\ alts'[u][i] = x
    BY DEF HoldsAlts
  <2>1. <<u, i>> \in Range(a'[x]) <=>
          <<u, i>> \in Range(a[x]) \/ (u = t /\ i \in 1..n /\ as[i] = x)
    BY <1>4, <1>6 DEF QueuedTo
  <2>2. <<u, i>> \in Range(a[x]) <=> i \in 1..Len(alts[u]) /\ alts[u][i] = x
    BY <1>1 DEF HoldsAlts
  <2>3. CASE u = t
    <3>1. alts'[u] = as
      BY <1>1, <1>4, <2>3 DEF ArrTyped
    <3> QED BY <1>2, <1>5, <2>1, <2>3, <3>1
  <2>4. CASE u # t
    <3>1. alts'[u] = alts[u]
      BY <1>1, <1>4, <2>4 DEF ArrTyped
    <3> QED BY <2>1, <2>2, <2>4, <3>1
  <2> QED BY <2>3, <2>4
<1> QED BY <1>8, <1>9, <1>10 DEF ArrInv

-----------------------------------------------------------------------------
(* Arrays without duplicates, and what altalldequeue() works on.           *)
Queues == {q \in Seq(Entry) : IsInjective(q)}

Held == [a : [A!Array -> Queues], found : BOOLEAN]

(* In r, p was taken out of array x of s.                                  *)
Taken(r, s, x, p) ==
  /\ Range(r.a[x]) = Range(s.a[x]) \ {p} /\ Len(r.a[x]) <= Len(s.a[x])
  /\ (s.found /\ p \in Range(s.a[x])) => r.found
  /\ \A y \in A!Array \ {x} : r.a[y] = s.a[y]

(* s holds in x what is in x now, less the first i Alts of t.              *)
DequeuedTo(s, t, i) ==
  /\ s.found
  /\ \A x \in A!Array :
       /\ Len(s.a[x]) <= Len(a[x])
       /\ \A u \in Caller, j \in Nat :
            <<u, j>> \in Range(s.a[x]) <=> <<u, j>> \in Range(a[x]) /\ ~(u = t /\ j \in 1..i)

(* Where altdequeue() finds p first.                                       *)
FirstOf(q, p) == CHOOSE i \in DOMAIN q : q[i] = p /\ \A j \in 1..(i - 1) : q[j] # p

(* delarray() of the first entry that is p, where entries differ.          *)
LEMMA DelArrayIs ==
  ASSUME NEW S, NEW q \in Seq(S), IsInjective(q), NEW p \in Range(q),
         NEW first, first = FirstOf(q, p), NEW r, r = A!delarray(q, first)
  PROVE  /\ r \in Seq(S) /\ IsInjective(r) /\ Range(r) = Range(q) \ {p}
         /\ Len(r) <= Len(q)
<1>1. PICK n \in Nat : n = Len(q) /\ DOMAIN q = 1..n
  BY LenProperties
<1>2. PICK k \in 1..n : q[k] = p
  BY <1>1 DEF Range
<1>3. \A j \in 1..(k - 1) : q[j] # p
  <2>1. \A j \in 1..(k - 1) : j \in 1..n /\ j # k
    OBVIOUS
  <2> QED BY <1>1, <1>2, <2>1 DEF IsInjective
<1>4. first \in 1..n /\ q[first] = p
  BY <1>1, <1>2, <1>3, Zenon DEF FirstOf
<1>5. n - 1 \in Nat
  BY <1>2
<1>6. ASSUME NEW j \in 1..(n - 1) PROVE (IF j = first THEN q[n] ELSE q[j]) \in S
  <2>1. j \in 1..n /\ n \in 1..n
    BY <1>2
  <2> QED BY <1>1, <2>1, ElementOfSeq
<1>7. r = [j \in 1..(n - 1) |-> IF j = first THEN q[n] ELSE q[j]]
  BY <1>1 DEF A!delarray
<1>8. r \in [1..(n - 1) -> S]
  BY <1>6, <1>7
<1>9. r \in Seq(S) /\ Len(r) = n - 1
  <2>1. PICK l \in Nat : l = n - 1
    BY <1>5
  <2> QED BY <1>8, <2>1, FunctionIsQueue
<1>10. \A j \in 1..(n - 1) : r[j] = IF j = first THEN q[n] ELSE q[j]
  BY <1>7
<1>11. Range(r) = Range(q) \ {q[first]} /\ IsInjective(r)
  <2>1. /\ first \in 1..Len(q) /\ Len(r) = Len(q) - 1
        /\ \A j \in 1..(Len(q) - 1) : r[j] = IF j = first THEN q[Len(q)] ELSE q[j]
    BY <1>1, <1>4, <1>9, <1>10
  <2>2. PICK c : c = r
    OBVIOUS
  <2>3. /\ c \in Seq(S) /\ Len(c) = Len(q) - 1 /\ q \in Seq(S) /\ IsInjective(q)
        /\ \A j \in 1..(Len(q) - 1) : c[j] = IF j = first THEN q[Len(q)] ELSE q[j]
    BY <1>9, <2>1, <2>2
  <2>4. Range(c) = Range(q) \ {q[first]} /\ IsInjective(c)
    BY <2>1, <2>3, DropSlot
  <2> QED BY <2>2, <2>4
<1> QED BY <1>1, <1>4, <1>9, <1>11

(* altdequeue() on arrays without duplicates.                              *)
LEMMA AltDequeueIs ==
  ASSUME NEW s \in Held, NEW x \in A!Array, NEW p, NEW r, r = A!altdequeue(s, x, p)
  PROVE  r \in Held /\ Taken(r, s, x, p)
<1>1. PICK q, f : q = s.a[x] /\ f = FirstOf(q, p)
  OBVIOUS
<1>2. /\ s.a \in [A!Array -> Queues] /\ s.found \in BOOLEAN
      /\ q \in Seq(Entry) /\ IsInjective(q)
  BY <1>1 DEF Held, Queues
<1>3. A!Range(q) = Range(q)
  BY DEF A!Range, Range
<1>4. r = IF p \in Range(q)
          THEN [a |-> [s.a EXCEPT ![x] = A!delarray(q, f)], found |-> s.found]
          ELSE [a |-> s.a, found |-> FALSE]
  <2>1. r = IF p \in A!Range(s.a[x])
            THEN [a |-> [s.a EXCEPT ![x] = A!delarray(s.a[x], FirstOf(s.a[x], p))],
                  found |-> s.found]
            ELSE [a |-> s.a, found |-> FALSE]
    BY DEF A!altdequeue, FirstOf
  <2> QED BY <1>1, <1>3, <2>1
<1>5. CASE p \in Range(q)
  <2>1. PICK d : d = A!delarray(q, f)
    OBVIOUS
  <2>2. /\ d \in Seq(Entry) /\ IsInjective(d) /\ Range(d) = Range(q) \ {p}
        /\ Len(d) <= Len(q)
    BY <1>1, <1>2, <1>5, <2>1, DelArrayIs
  <2>3. r = [a |-> [s.a EXCEPT ![x] = d], found |-> s.found]
    BY <1>4, <1>5, <2>1
  <2>4. d \in Queues
    BY <2>2 DEF Queues
  <2>5. r.a = [s.a EXCEPT ![x] = d] /\ r.found = s.found
    BY <2>3
  <2>6. r \in Held
    BY <1>2, <2>3, <2>4 DEF Held
  <2>7. r.a[x] = d /\ \A y \in A!Array \ {x} : r.a[y] = s.a[y]
    BY <1>2, <2>5
  <2> QED BY <1>1, <2>2, <2>5, <2>6, <2>7 DEF Taken
<1>6. CASE p \notin Range(q)
  <2>1. r = [a |-> s.a, found |-> FALSE]
    BY <1>4, <1>6
  <2>2. r \in Held /\ r.a = s.a
    BY <1>2, <2>1 DEF Held
  <2>3. Range(q) = Range(q) \ {p} /\ Len(q) <= Len(q)
    BY <1>2, <1>6, LenProperties
  <2> QED BY <1>1, <1>6, <2>2, <2>3 DEF Taken
<1> QED BY <1>5, <1>6

(* The history of the loop over the Alts that are withdrawn.               *)
LEMMA DequeueingIs ==
  ASSUME ArrTyped, Slots, NEW t \in Caller,
         NEW as \in Seq(A!Array \cup {None}), NEW q, q = A!Dequeueing(t, as)
  PROVE  /\ q[0] = [a |-> a, found |-> TRUE] /\ \A i \in 0..Len(as) : q[i] \in Held
         /\ \A i \in 1..Len(as) :
              /\ q[i - 1] \in Held
              /\ q[i] = IF as[i] = None THEN q[i - 1]
                        ELSE A!altdequeue(q[i - 1], as[i], <<t, i>>)
<1> DEFINE n == Len(as)
           b == [a |-> a, found |-> TRUE]
           turn(s, i) == IF as[i] = None THEN s ELSE A!altdequeue(s, as[i], <<t, i>>)
           step == [i \in 1..n |-> [s \in Held |-> turn(s, i)]]
<1> HIDE DEF n, b, turn, step
<1>1. n \in Nat /\ b \in Held
  <2>1. n \in Nat
    BY LenProperties DEF n
  <2>2. b \in Held
    BY DEF ArrTyped, Slots, Held, Queues, b
  <2> QED BY <2>1, <2>2
<1>2. ASSUME NEW i \in 1..n, NEW s \in Held PROVE turn(s, i) \in Held
  <2>1. as[i] \in A!Array \cup {None} /\ <<t, i>> \in Entry
    <3>1. as[i] \in A!Array \cup {None}
      BY ElementOfSeq DEF n
    <3>2. i \in Nat
      BY <1>1
    <3> QED BY <3>1, <3>2 DEF Entry
  <2>2. CASE as[i] = None
    BY <2>2 DEF turn
  <2>3. CASE as[i] # None
    <3>1. as[i] \in A!Array
      BY <2>1, <2>3
    <3>2. A!altdequeue(s, as[i], <<t, i>>) \in Held
      BY <2>1, <3>1, AltDequeueIs
    <3> QED BY <2>3, <3>2 DEF turn
  <2> QED BY <2>2, <2>3
<1>3. step \in [1..n -> [Held -> Held]]
  <2>1. ASSUME NEW i \in 1..n PROVE [s \in Held |-> turn(s, i)] \in [Held -> Held]
    BY <1>2
  <2> QED BY <2>1 DEF step
<1>4. PICK g \in [0..n -> Held] : g[0] = b /\ \A i \in 1..n : g[i] = step[i][g[i - 1]]
  <2>1. \E g : Runs(g, n, Held, b, step)
    BY <1>1, <1>3, History
  <2> QED BY <2>1 DEF Runs
<1>5. ASSUME NEW i \in 1..n PROVE g[i] = turn(g[i - 1], i)
  <2>1. i - 1 \in 0..n
    BY <1>1
  <2>2. g[i - 1] \in Held
    BY <1>4, <2>1
  <2>3. step[i][g[i - 1]] = turn(g[i - 1], i)
    BY <2>2 DEF step
  <2> QED BY <1>4, <2>3
<1>6. g = [i \in 0..n |-> IF i = 0 THEN b ELSE turn(g[i - 1], i)]
  <2>1. \A i \in 0..n : i # 0 => i \in 1..n
    BY <1>1
  <2>2. \A i \in 0..n : g[i] = IF i = 0 THEN b ELSE turn(g[i - 1], i)
    BY <1>4, <1>5, <2>1
  <2>3. g = [i \in 0..n |-> g[i]]
    BY <1>4
  <2> QED BY <2>2, <2>3
<1>7. q = [i \in 0..n |-> IF i = 0 THEN b ELSE turn(q[i - 1], i)]
  <2>1. q = CHOOSE f : f = [i \in 0..n |-> IF i = 0 THEN b ELSE turn(f[i - 1], i)]
    BY DEF A!Dequeueing, n, b, turn
  <2> QED BY <1>6, <2>1, Zenon
<1>8. q[0] = b /\ \A i \in 1..n : q[i] = turn(q[i - 1], i)
  <2>1. 0 \in 0..n /\ \A i \in 1..n : i \in 0..n /\ i # 0
    BY <1>1
  <2> QED BY <1>7, <2>1
<1>9. \A i \in 0..n : q[i] \in Held
  <2> DEFINE K == {i \in 0..n : q[i] \in Held}
  <2>1. 0 \in K
    BY <1>1, <1>8
  <2>2. \A i \in 1..n : i - 1 \in K => i \in K
    <3> SUFFICES ASSUME NEW i \in 1..n, q[i - 1] \in Held PROVE i \in K
      OBVIOUS
    <3>1. q[i] \in Held /\ i \in 0..n
      BY <1>1, <1>2, <1>8
    <3> QED BY <3>1
  <2> HIDE DEF K
  <2>3. \A i \in 0..n : i \in K
    BY <1>1, <2>1, <2>2, CountingUp
  <2> QED BY <2>3 DEF K
<1>10. \A i \in 1..n : i - 1 \in 0..n
  BY <1>1
<1>11. /\ q[0] = b /\ \A i \in 0..n : q[i] \in Held
       /\ \A i \in 1..n : q[i - 1] \in Held /\ q[i] = turn(q[i - 1], i)
  BY <1>1, <1>8, <1>9, <1>10
<1> QED BY <1>11 DEF n, b, turn

(* One more Alt of t is taken out of the array it belongs to.              *)
LEMMA DequeuedMore ==
  ASSUME NEW t \in Caller, NEW i \in Nat \ {0},
         NEW s \in Held, DequeuedTo(s, t, i - 1), NEW x \in A!Array,
         \A y \in A!Array : <<t, i>> \in Range(a[y]) <=> x = y,
         NEW r, r \in Held, Taken(r, s, x, <<t, i>>), a \in [A!Array -> Seq(Entry)]
  PROVE  DequeuedTo(r, t, i)
<1> DEFINE p == <<t, i>>
<1>1. /\ Range(r.a[x]) = Range(s.a[x]) \ {p} /\ Len(r.a[x]) <= Len(s.a[x])
      /\ (s.found /\ p \in Range(s.a[x])) => r.found
      /\ \A y \in A!Array \ {x} : r.a[y] = s.a[y]
  BY DEF Taken
<1>2. /\ ~(i \in 1..(i - 1))
      /\ \A j \in Nat : j \in 1..i <=> j = i \/ j \in 1..(i - 1)
  OBVIOUS
<1>3. p \in Range(s.a[x]) /\ s.found
  BY <1>2 DEF DequeuedTo
<1>4. \A u \in Caller, j \in Nat : <<u, j>> = p <=> u = t /\ j = i
  OBVIOUS
<1>5. \A y \in A!Array : p \in Range(a[y]) <=> x = y
  OBVIOUS
<1> HIDE DEF p
<1>6. ASSUME NEW y \in A!Array
      PROVE  /\ Len(r.a[y]) <= Len(a[y])
             /\ \A u \in Caller, j \in Nat :
                  <<u, j>> \in Range(r.a[y]) <=>
                    <<u, j>> \in Range(a[y]) /\ ~(u = t /\ j \in 1..i)
  <2>1. /\ Len(s.a[y]) <= Len(a[y])
        /\ \A u \in Caller, j \in Nat :
             <<u, j>> \in Range(s.a[y]) <=>
               <<u, j>> \in Range(a[y]) /\ ~(u = t /\ j \in 1..(i - 1))
    BY DEF DequeuedTo
  <2>2. CASE y = x
    <3>1. Len(r.a[x]) \in Nat /\ Len(s.a[x]) \in Nat /\ Len(a[x]) \in Nat
      <4>1. r.a[x] \in Seq(Entry) /\ s.a[x] \in Seq(Entry) /\ a[x] \in Seq(Entry)
        BY DEF Held, Queues
      <4> QED BY <4>1, LenProperties
    <3>2. Len(r.a[y]) <= Len(a[y])
      BY <1>1, <2>1, <2>2, <3>1
    <3> QED BY <1>1, <1>2, <1>4, <2>1, <2>2, <3>2
  <2>3. CASE y # x
    <3>1. r.a[y] = s.a[y] /\ p \notin Range(a[y])
      BY <1>1, <1>5, <2>3
    <3> QED BY <1>2, <1>4, <2>1, <3>1
  <2> QED BY <2>2, <2>3
<1> QED BY <1>1, <1>3, <1>6 DEF DequeuedTo

(* All Alts of a waiting task are withdrawn, and every one was found.      *)
LEMMA DequeuedAll ==
  ASSUME A!AltArrayAssumption, ArrTyped, HoldsAlts, Slots, NEW t \in Caller,
         NEW as, as = alts[t], NEW n \in Nat, n = Len(as),
         NEW q, q = A!Dequeueing(t, as)
  PROVE  q[n] \in Held /\ DequeuedTo(q[n], t, n)
<1> DEFINE K == {i \in 0..n : DequeuedTo(q[i], t, i)}
<1>1. \A i \in 0..n : i \in K <=> DequeuedTo(q[i], t, i)
  OBVIOUS
<1> HIDE DEF K
<1>0. /\ 0 \in 0..n /\ n \in 0..n
      /\ \A i \in 1..n : i - 1 \in 0..n /\ i \in 0..n /\ i \in Nat \ {0}
      /\ \A i \in 1..n, j \in Nat : j \in 1..i <=> j = i \/ j \in 1..(i - 1)
  BY TurnsOf
<1>2. as \in Seq(A!Array \cup {None}) /\ None \notin A!Array
  BY DEF ArrTyped, A!AltArrayAssumption
<1>3. /\ q[0] = [a |-> a, found |-> TRUE] /\ \A i \in 0..n : q[i] \in Held
      /\ \A i \in 1..n : q[i] = IF as[i] = None THEN q[i - 1]
                                ELSE A!altdequeue(q[i - 1], as[i], <<t, i>>)
  BY <1>2, DequeueingIs
<1>4. 0 \in K
  <2>1. q[0].a = a /\ q[0].found
    BY <1>3
  <2>2. \A j \in Nat : ~(j \in 1..0)
    OBVIOUS
  <2>3. \A x \in A!Array : Len(a[x]) <= Len(a[x])
    <3> SUFFICES ASSUME NEW x \in A!Array PROVE Len(a[x]) <= Len(a[x])
      OBVIOUS
    <3>1. a[x] \in Seq(Entry)
      BY DEF ArrTyped
    <3> QED BY <3>1, LenProperties
  <2>4. DequeuedTo(q[0], t, 0)
    BY <2>1, <2>2, <2>3 DEF DequeuedTo
  <2> QED BY <1>0, <1>1, <2>4
<1>5. ASSUME NEW i \in 1..n, i - 1 \in K PROVE i \in K
  <2>1. i - 1 \in 0..n /\ i \in 0..n /\ i \in Nat \ {0}
    BY <1>0
  <2>2. DequeuedTo(q[i - 1], t, i - 1) /\ q[i - 1] \in Held /\ q[i] \in Held
    BY <1>1, <1>3, <1>5, <2>1
  <2>3. as[i] \in A!Array \cup {None}
    BY <1>2, ElementOfSeq
  <2>4. \A y \in A!Array : <<t, i>> \in Range(a[y]) <=> as[i] = y
    BY <2>1 DEF HoldsAlts
  <2>5. CASE as[i] = None
    <3>1. q[i] = q[i - 1]
      BY <1>3, <2>5
    <3>2. \A x \in A!Array, u \in Caller, j \in Nat :
            <<u, j>> \in Range(a[x]) =>
              ((u = t /\ j \in 1..i) <=> (u = t /\ j \in 1..(i - 1)))
      BY <1>0, <1>2, <2>4, <2>5
    <3>3. PICK s : s = q[i - 1] /\ DequeuedTo(s, t, i - 1)
      BY <2>2
    <3>4. DequeuedTo(s, t, i)
      BY <3>2, <3>3 DEF DequeuedTo
    <3>5. DequeuedTo(q[i], t, i)
      BY <3>1, <3>3, <3>4
    <3> QED BY <1>1, <2>1, <3>5
  <2>6. CASE as[i] # None
    <3>1. PICK x \in A!Array : as[i] = x
      BY <2>3, <2>6
    <3>2. PICK s, r, p : /\ s \in Held /\ s = q[i - 1]
                         /\ r \in Held /\ r = q[i] /\ p = <<t, i>>
      BY <2>2
    <3>3. r = A!altdequeue(s, x, p)
      BY <1>3, <2>6, <3>1, <3>2
    <3>4. Taken(r, s, x, p)
      BY <3>2, <3>3, AltDequeueIs
    <3>5. /\ DequeuedTo(s, t, i - 1) /\ Taken(r, s, x, <<t, i>>)
          /\ \A y \in A!Array : <<t, i>> \in Range(a[y]) <=> x = y
          /\ a \in [A!Array -> Seq(Entry)]
      BY <2>2, <2>4, <3>1, <3>2, <3>4 DEF ArrTyped
    <3>6. DequeuedTo(r, t, i)
      BY <2>1, <3>1, <3>2, <3>5, DequeuedMore
    <3> QED BY <1>1, <2>1, <3>2, <3>6
  <2> QED BY <2>5, <2>6
<1>6. \A i \in 0..n : i \in K
  BY <1>4, <1>5, CountingUp
<1> QED BY <1>0, <1>1, <1>3, <1>6

(* altalldequeue() has withdrawn the Alts of its task.                     *)
LEMMA DequeueKeeps ==
  ASSUME A!AltArrayAssumption, ArrInv, NEW t \in Caller, A!altalldequeue(t)
  PROVE  ArrInv'
<1>1. ArrTyped /\ HoldsAlts /\ Slots
  BY DEF ArrInv
<1>2. PICK as, n : as = alts[t] /\ n \in Nat /\ n = Len(as)
  <2>1. Len(alts[t]) \in Nat
    BY <1>1, LenProperties DEF ArrTyped
  <2> QED BY <2>1
<1>3. PICK q : q = A!Dequeueing(t, as)
  OBVIOUS
<1>4. /\ a' = q[n].a /\ aborted' = ~q[n].found /\ alts' = [alts EXCEPT ![t] = <<>>]
      /\ m' = m /\ freed' = freed
  BY <1>2, <1>3 DEF A!altalldequeue
<1>5. q[n] \in Held /\ DequeuedTo(q[n], t, n)
  BY <1>1, <1>2, <1>3, DequeuedAll
<1>6. /\ a' \in [A!Array -> Seq(Entry)] /\ aborted' = FALSE
      /\ \A x \in A!Array : IsInjective(a'[x])
  BY <1>4, <1>5 DEF Held, Queues, DequeuedTo
<1>7. \A x \in A!Array :
        /\ Len(a'[x]) <= Len(a[x])
        /\ \A u \in Caller, j \in Nat :
             <<u, j>> \in Range(a'[x]) <=> <<u, j>> \in Range(a[x]) /\ ~(u = t /\ j \in 1..n)
  BY <1>4, <1>5 DEF DequeuedTo
<1>8. ArrTyped'
  <2>1. alts' \in [Caller -> Seq(A!Array \cup {None})]
    <3>1. <<>> \in Seq(A!Array \cup {None})
      OBVIOUS
    <3> QED BY <1>1, <1>4, <3>1 DEF ArrTyped
  <2> QED BY <1>1, <1>4, <1>6, <2>1 DEF ArrTyped
<1>9. Slots'
  <2> SUFFICES ASSUME NEW x \in A!Array
               PROVE  Len(a'[x]) <= m[x] /\ (x \in freed => a'[x] = <<>>)
    BY <1>4, <1>6 DEF Slots
  <2>1. /\ Len(a[x]) <= m[x] /\ (x \in freed => a[x] = <<>>)
        /\ a[x] \in Seq(Entry) /\ m[x] \in Nat /\ a'[x] \in Seq(Entry)
    BY <1>1, <1>6 DEF Slots, ArrTyped
  <2>2. PICK h, k, l \in Int : h = Len(a'[x]) /\ k = Len(a[x]) /\ l = m[x] /\ h >= 0
    <3>1. Len(a'[x]) \in Nat /\ Len(a[x]) \in Nat
      BY <2>1, LenProperties
    <3> QED BY <2>1, <3>1
  <2>3. h <= k /\ k <= l
    BY <1>7, <2>1, <2>2
  <2>4. h <= l /\ (k = 0 => h = 0)
    BY <2>2, <2>3
  <2>5. (x \in freed => k = 0) /\ (h = 0 => a'[x] = <<>>)
    BY <2>1, <2>2
  <2> QED BY <2>2, <2>4, <2>5
<1>10. HoldsAlts'
  <2> SUFFICES ASSUME NEW x \in A!Array, NEW u \in Caller, NEW i \in Nat
               PROVE  <<u, i>> \in Range(a'[x]) <=> i \in 1..Len(alts'[u]) /\ alts'[u][i] = x
    BY DEF HoldsAlts
  <2>1. /\ <<u, i>> \in Range(a'[x]) <=>
             <<u, i>> \in Range(a[x]) /\ ~(u = t /\ i \in 1..n)
        /\ <<u, i>> \in Range(a[x]) <=> i \in 1..Len(alts[u]) /\ alts[u][i] = x
    BY <1>1, <1>7 DEF HoldsAlts
  <2>2. CASE u = t
    <3>1. Len(alts'[u]) = 0
      BY <1>1, <1>4, <2>2 DEF ArrTyped
    <3>2. i \notin 1..0
      OBVIOUS
    <3> QED BY <1>2, <2>1, <2>2, <3>1, <3>2
  <2>3. CASE u # t
    <3>1. alts'[u] = alts[u]
      BY <1>1, <1>4, <2>3 DEF ArrTyped
    <3> QED BY <2>1, <2>3, <3>1
  <2> QED BY <2>2, <2>3
<1> QED BY <1>8, <1>9, <1>10 DEF ArrInv

(* chanfree() of a channel on which nobody waits.                          *)
LEMMA FreeKeeps ==
  ASSUME ArrInv, NEW c \in Chan, A!chanfree(c)
  PROVE  ArrInv'
<1>1. PICK both : both = {c} \X {"SND", "RCV"}
  OBVIOUS
<1>2. both \subseteq A!Array
  BY <1>1 DEF A!Array
<1>3. /\ freed' = freed \cup both /\ \A x \in both : a[x] = <<>>
      /\ m' = [x \in A!Array |-> IF x \in both THEN 0 ELSE m[x]]
      /\ a' = a /\ alts' = alts /\ aborted' = aborted
  BY <1>1 DEF A!chanfree
<1>4. ArrTyped'
  BY <1>2, <1>3 DEF ArrInv, ArrTyped
<1>5. Slots'
  <2> SUFFICES ASSUME NEW x \in A!Array
               PROVE  Len(a[x]) <= m'[x] /\ (x \in freed' => a[x] = <<>>)
    BY <1>3 DEF ArrInv, Slots
  <2>1. CASE x \in both
    <3>1. a[x] = <<>> /\ m'[x] = 0
      BY <1>3, <2>1
    <3> QED BY <3>1
  <2>2. CASE x \notin both
    BY <1>3, <2>2 DEF ArrInv, Slots
  <2> QED BY <2>1, <2>2
<1>6. HoldsAlts'
  BY <1>3 DEF ArrInv, HoldsAlts
<1> QED BY <1>4, <1>5, <1>6 DEF ArrInv

(* At first no Alt is queued and nothing is allocated.                     *)
LEMMA ArrInit == A!Init => ArrInv
<1> SUFFICES ASSUME A!Init PROVE ArrInv
  OBVIOUS
<1>1. /\ a = [x \in A!Array |-> <<>>] /\ m = [x \in A!Array |-> 0]
      /\ alts = [t \in Caller |-> <<>>] /\ freed = {} /\ aborted = FALSE
  BY DEF A!Init
<1>2. ArrTyped
  <2>1. <<>> \in Seq(Entry) /\ <<>> \in Seq(A!Array \cup {None})
    OBVIOUS
  <2> QED BY <1>1, <2>1 DEF ArrTyped
<1>3. HoldsAlts
  <2>1. \A x \in A!Array : Range(a[x]) = {}
    BY <1>1 DEF Range
  <2>2. \A t \in Caller, i \in Nat : i \notin 1..Len(alts[t])
    <3>1. \A i \in Nat : i \notin 1..0
      OBVIOUS
    <3> QED BY <1>1, <3>1
  <2> QED BY <2>1, <2>2 DEF HoldsAlts
<1>4. Slots
  BY <1>1 DEF Slots, IsInjective
<1> QED BY <1>2, <1>3, <1>4 DEF ArrInv

(* What the inductive invariant says of the arrays, in the words of        *)
(* ArrayInv.                                                               *)
LEMMA ArrImplies == ArrInv => A!ArrayInv
<1> SUFFICES ASSUME ArrInv PROVE A!ArrayInv
  OBVIOUS
<1>0. ArrTyped /\ HoldsAlts /\ Slots /\ ~aborted
  BY DEF ArrInv, ArrTyped
<1> SUFFICES ASSUME NEW x \in A!Array
             PROVE  /\ A!Range(a[x]) = A!Of(x)
                    /\ A!Cardinality(A!Range(a[x])) = Len(a[x]) /\ Len(a[x]) <= m[x]
                    /\ x \in freed => a[x] = <<>>
  BY <1>0 DEF A!ArrayInv
<1>1. a[x] \in Seq(Entry) /\ IsInjective(a[x])
  BY <1>0 DEF ArrTyped, Slots
<1>2. A!Range(a[x]) = Range(a[x]) /\ \A S : A!Cardinality(S) = Cardinality(S)
  BY DEF A!Range, Range, A!Cardinality, Cardinality
<1>3. Cardinality(Range(a[x])) = Len(a[x]) /\ Range(a[x]) \subseteq Entry
  BY <1>1, QueueLength, RangeOfQueue
<1>4. \A t \in Caller : DOMAIN alts[t] = 1..Len(alts[t]) /\ DOMAIN alts[t] \subseteq Nat
  BY <1>0 DEF ArrTyped
<1>5. \A p : p \in A!Of(x) <=> \E t \in Caller, i \in Nat :
                 p = <<t, i>> /\ i \in 1..Len(alts[t]) /\ alts[t][i] = x
  BY <1>4 DEF A!Of
<1>6. \A p : p \in Range(a[x]) <=> \E t \in Caller, i \in Nat :
                 p = <<t, i>> /\ p \in Range(a[x])
  BY <1>3 DEF Entry
<1>7. Range(a[x]) = A!Of(x)
  <2>1. \A p : p \in Range(a[x]) <=> p \in A!Of(x)
    BY <1>0, <1>5, <1>6 DEF HoldsAlts
  <2> QED BY <2>1
<1> QED BY <1>0, <1>2, <1>3, <1>7 DEF Slots

(* Whatever Alts callers queue and withdraw, and in whatever order, the    *)
(* arrays of channel.c hold exactly the Alts of the tasks that wait, once  *)
(* each and in allocated slots, and altdequeue() never aborts.             *)
THEOREM AltsQueued == ASSUME A!AltArrayAssumption PROVE A!Spec => []ArrayInv
<1>1. A!Init => ArrInv
  BY ArrInit
<1>2. ArrInv /\ [A!Next]_(A!vars) => ArrInv'
  <2> SUFFICES ASSUME ArrInv, [A!Next]_(A!vars) PROVE ArrInv'
    OBVIOUS
  <2>1. ASSUME NEW t \in Caller, A!altalldequeue(t) PROVE ArrInv'
    BY <2>1, DequeueKeeps
  <2>2. ASSUME NEW t \in Caller, NEW as \in Calls, A!altqueue(t, as) PROVE ArrInv'
    BY <2>2, QueueKeeps
  <2>3. ASSUME NEW c \in Chan, A!chanfree(c) PROVE ArrInv'
    BY <2>3, FreeKeeps
  <2>4. CASE UNCHANGED A!vars
    BY <2>4 DEF A!vars, ArrInv, ArrTyped, HoldsAlts, Slots
  <2> QED BY <2>1, <2>2, <2>3, <2>4 DEF A!Next
<1>3. ArrInv => ArrayInv
  BY ArrImplies DEF ArrayInv
<1> QED BY <1>1, <1>2, <1>3, PTL DEF A!Spec

-----------------------------------------------------------------------------
(* The task table, store by store.                                         *)
(* The first n slots of tab hold the tasks S, each in the slot that sl     *)
(* says.                                                                   *)
InTable(tab, sl, n, S) ==
  /\ IsFiniteSet(S) /\ Cardinality(S) = n
  /\ \A k \in 0..(n - 1) : tab[k] \in S /\ sl[tab[k]] = k
  /\ \A t \in S : sl[t] \in 0..(n - 1) /\ tab[sl[t]] = t

(* Of the tasks S, x has left its slot to the last of n + 1, which does    *)
(* not know yet.                                                           *)
Hole(tab, sl, n, S, x) ==
  /\ IsFiniteSet(S) /\ Cardinality(S) = n + 1 /\ x \in S /\ sl[x] \in 0..n
  /\ \A t \in S \ {x} : sl[t] \in 0..n /\ sl[t] # sl[x] /\ tab[sl[t]] = t
  /\ \A k \in 0..n : k # sl[x] => tab[k] \in S \ {x} /\ sl[tab[k]] = k
  /\ tab[sl[x]] = IF sl[x] = n THEN x ELSE tab[n]

(* The table has room for n, in chunks.                                    *)
RoomFor(tab, n) == \E c \in Nat : DOMAIN tab = 0..(c - 1) /\ c % Chunk = 0 /\ n <= c

InfoTyped ==
  /\ nalltask \in Nat /\ slot \in [Block -> Nat] /\ allocated \subseteq Block
  /\ pc \in {"run", "grow", "assign", "slot", "enter", "count", "store", "leave",
             "move", "uncount", "reslot", "free"}
  /\ dangling \in BOOLEAN /\ (dangling => pc = "assign")
  /\ RoomFor(alltask, IF pc \in {"slot", "enter", "count", "move"} THEN nalltask + 1 ELSE nalltask)

(* What holds of the table before each store.                              *)
Creating ==
  /\ pc \in {"grow", "assign", "slot", "enter"} =>
       cur \in allocated /\ InTable(alltask, slot, nalltask, allocated \ {cur})
  /\ pc = "assign" => nalltask % Chunk = 0
  /\ pc = "enter" => slot[cur] = nalltask
  /\ pc = "count" => InTable(alltask, slot, nalltask + 1, allocated)
  /\ pc = "store" => /\ cur \in allocated /\ nalltask # 0 /\ slot[cur] = nalltask - 1
                     /\ InTable(alltask, slot, nalltask - 1, allocated \ {cur})

Cleaning ==
  /\ pc \in {"leave", "move"} => cur \in allocated
  /\ pc \in {"run", "leave"} => InTable(alltask, slot, nalltask, allocated)
  /\ pc = "move" => InTable(alltask, slot, nalltask + 1, allocated)
  /\ pc = "uncount" => nalltask # 0 /\ Hole(alltask, slot, nalltask - 1, allocated, cur)
  /\ pc = "reslot" => Hole(alltask, slot, nalltask, allocated, cur)
  /\ pc = "free" =>
       cur \in allocated /\ InTable(alltask, slot, nalltask, allocated \ {cur})

InfoInv == InfoTyped /\ Creating /\ Cleaning

-----------------------------------------------------------------------------
(* Entering a task behind the others.                                      *)
LEMMA EnterTable ==
  ASSUME NEW tab, NEW sl, NEW n \in Nat, NEW S, NEW x \in S,
         InTable(tab, sl, n, S \ {x}), sl[x] = n,
         NEW tab2, tab2[n] = x, \A k \in 0..(n - 1) : tab2[k] = tab[k]
  PROVE  InTable(tab2, sl, n + 1, S)
<1>1. IsFiniteSet(S) /\ Cardinality(S) = n + 1
  <2>1. S = (S \ {x}) \cup {x}
    OBVIOUS
  <2>2. IsFiniteSet(S \ {x}) /\ Cardinality(S \ {x}) = n
    BY DEF InTable
  <2> QED BY <2>1, <2>2, FS_AddElement
<1>2. \A k \in 0..n : k = n \/ k \in 0..(n - 1)
  OBVIOUS
<1>3. \A k \in 0..n : tab2[k] \in S /\ sl[tab2[k]] = k
  BY <1>2 DEF InTable
<1>4. \A t \in S : sl[t] \in 0..n /\ tab2[sl[t]] = t
  <2> SUFFICES ASSUME NEW t \in S PROVE sl[t] \in 0..n /\ tab2[sl[t]] = t
    OBVIOUS
  <2>1. CASE t = x
    BY <2>1
  <2>2. CASE t # x
    <3>1. sl[t] \in 0..(n - 1) /\ tab[sl[t]] = t
      BY <2>2 DEF InTable
    <3> QED BY <3>1
  <2> QED BY <2>1, <2>2
<1>5. (n + 1) - 1 = n
  OBVIOUS
<1> QED BY <1>1, <1>3, <1>4, <1>5 DEF InTable

(* A table is still one when it is written elsewhere.                      *)
LEMMA TableFrame ==
  ASSUME NEW tab, NEW sl, NEW n \in Nat, NEW S, InTable(tab, sl, n, S),
         NEW tab2, \A k \in 0..(n - 1) : tab2[k] = tab[k],
         NEW sl2, \A t \in S : sl2[t] = sl[t]
  PROVE  InTable(tab2, sl2, n, S)
BY DEF InTable

(* The last task is written to the slot of the one that goes.              *)
LEMMA MakeHole ==
  ASSUME NEW tab, NEW sl, NEW n \in Nat, NEW S, InTable(tab, sl, n + 1, S), NEW x \in S,
         NEW tab2, tab2[sl[x]] = tab[n],
         \A k \in 0..n : k # sl[x] => tab2[k] = tab[k]
  PROVE  Hole(tab2, sl, n, S, x)
<1>1. /\ IsFiniteSet(S) /\ Cardinality(S) = n + 1
      /\ \A k \in 0..n : tab[k] \in S /\ sl[tab[k]] = k
      /\ \A t \in S : sl[t] \in 0..n /\ tab[sl[t]] = t
  <2>1. (n + 1) - 1 = n
    OBVIOUS
  <2> QED BY <2>1 DEF InTable
<1>2. \A t \in S \ {x} : sl[t] # sl[x]
  BY <1>1
<1>3. n \in 0..n
  OBVIOUS
<1>4. tab2[sl[x]] = IF sl[x] = n THEN x ELSE tab2[n]
  BY <1>1, <1>3
<1> QED BY <1>1, <1>2, <1>4 DEF Hole

(* The last task is told its new slot.                                     *)
LEMMA FillHole ==
  ASSUME NEW tab, NEW sl, NEW n \in Nat, NEW S, NEW x, Hole(tab, sl, n, S, x),
         NEW y, y = tab[sl[x]],
         NEW sl2, sl2[y] = sl[x], \A t \in S : t # y => sl2[t] = sl[t]
  PROVE  x \in S /\ InTable(tab, sl2, n, S \ {x})
<1>1. PICK i \in 0..n : i = sl[x]
  BY DEF Hole
<1>2. /\ IsFiniteSet(S) /\ Cardinality(S) = n + 1 /\ x \in S
      /\ \A t \in S \ {x} : sl[t] \in 0..n /\ sl[t] # i /\ tab[sl[t]] = t
      /\ \A k \in 0..n : k # i => tab[k] \in S \ {x} /\ sl[tab[k]] = k
      /\ tab[i] = IF i = n THEN x ELSE tab[n]
      /\ sl2[tab[i]] = i /\ \A t \in S : t # tab[i] => sl2[t] = sl[t]
  BY <1>1 DEF Hole
<1>3. IsFiniteSet(S \ {x}) /\ Cardinality(S \ {x}) = n
  <2>1. IsFiniteSet(S \ {x}) /\ Cardinality(S \ {x}) = Cardinality(S) - 1
    BY <1>2, FS_RemoveElement
  <2> QED BY <1>2, <2>1
<1>4. ASSUME NEW k \in 0..(n - 1) PROVE tab[k] \in S \ {x} /\ sl2[tab[k]] = k
  <2>1. k \in 0..n /\ n \in 0..n /\ k # n
    OBVIOUS
  <2>2. CASE k = i
    BY <1>2, <2>1, <2>2
  <2>3. CASE k # i
    <3>1. tab[k] \in S \ {x} /\ sl[tab[k]] = k
      BY <1>2, <2>1, <2>3
    <3>2. tab[k] # tab[i]
      BY <1>2, <2>1, <2>3, <3>1
    <3> QED BY <1>2, <3>1, <3>2
  <2> QED BY <2>2, <2>3
<1>5. ASSUME NEW t \in S \ {x} PROVE sl2[t] \in 0..(n - 1) /\ tab[sl2[t]] = t
  <2>0. \A k \in 0..n : k # n => k \in 0..(n - 1)
    OBVIOUS
  <2>1. CASE t = tab[i]
    BY <1>2, <2>0, <2>1
  <2>2. CASE t # tab[i]
    <3>1. sl2[t] = sl[t] /\ sl[t] \in 0..n /\ sl[t] # i /\ tab[sl[t]] = t
      BY <1>2, <2>2
    <3>2. sl[t] # n
      BY <1>2, <2>2, <3>1
    <3> QED BY <2>0, <3>1, <3>2
  <2> QED BY <2>1, <2>2
<1> QED BY <1>2, <1>3, <1>4, <1>5 DEF InTable

-----------------------------------------------------------------------------
(* A store into the table does not change its size.                        *)
LEMMA PutIs ==
  ASSUME NEW k \in DOMAIN alltask, NEW t, I!Put(k, t)
  PROVE  /\ DOMAIN alltask' = DOMAIN alltask /\ alltask'[k] = t
         /\ \A j \in DOMAIN alltask : j # k => alltask'[j] = alltask[j]
BY DEF I!Put

(* realloc() keeps the entries and makes room for Chunk more.              *)
LEMMA GrownIs ==
  ASSUME I!InfoAssumption, NEW n \in Nat, n = nalltask, RoomFor(alltask, n),
         n % Chunk = 0, I!Grown
  PROVE  /\ RoomFor(alltask', n + 1)
         /\ \A k \in 0..(n - 1) : alltask'[k] = alltask[k]
<1>1. PICK c \in Nat : DOMAIN alltask = 0..(c - 1) /\ c % Chunk = 0 /\ n <= c
  BY DEF RoomFor
<1>2. Chunk \in Nat \ {0}
  BY DEF I!InfoAssumption
<1>3. PICK d \in Nat : d = n + Chunk
  BY <1>2
<1>4. alltask' = [k \in 0..(d - 1) |-> IF k \in DOMAIN alltask THEN alltask[k] ELSE Junk]
  <2>1. nalltask + Chunk = d
    BY <1>3
  <2>2. 0..(nalltask + Chunk - 1) = 0..(d - 1)
    BY <1>2, <2>1
  <2>3. PICK D : D = 0..(d - 1) /\ D = 0..(nalltask + Chunk - 1)
    BY <2>2
  <2> QED BY <2>3, Zenon DEF I!Grown
<1>5. n + 1 <= d /\ d % Chunk = 0
  <2>1. n <= c /\ c % Chunk = 0 /\ n % Chunk = 0
    BY <1>1
  <2>2. (n + Chunk) % Chunk = 0
    BY <1>2, <2>1, Capacity
  <2>3. n + 1 <= d
    BY <1>2, <1>3
  <2> QED BY <1>3, <2>2, <2>3
<1>6. \A k \in 0..(n - 1) : k \in 0..(d - 1) /\ k \in 0..(c - 1)
  <2>1. n <= c /\ n <= d
    BY <1>1, <1>5
  <2> QED BY <2>1
<1>7. \A k \in 0..(n - 1) : alltask'[k] = alltask[k]
  BY <1>1, <1>4, <1>6
<1>8. DOMAIN alltask' = 0..(d - 1)
  BY <1>4
<1> QED BY <1>5, <1>7, <1>8 DEF RoomFor

(* taskcreate(): malloc(), and realloc() where the table is full.          *)
LEMMA InfoGrows ==
  ASSUME I!InfoAssumption, InfoInv,
         (\E t \in Block : I!Allocates(t)) \/ I!Grows \/ I!Assigns
  PROVE  InfoInv'
<1> USE DEF I!At, I!Goes
<1>0. PICK n, S, sl, c : n \in Nat /\ n = nalltask /\ S = allocated /\ sl = slot /\ c = cur
  BY DEF InfoInv, InfoTyped
<1> USE <1>0
<1>1. ASSUME NEW t \in Block, I!Allocates(t) PROVE InfoInv'
  <2>1. /\ pc = "run" /\ t \notin allocated /\ allocated' = allocated \cup {t}
        /\ cur' = t /\ pc' = "grow" /\ UNCHANGED <<alltask, dangling, nalltask, slot>>
    BY <1>1 DEF I!Allocates, I!tableVars
  <2>2. allocated' \ {cur'} = allocated
    BY <2>1
  <2>3. InfoTyped'
    BY <2>1 DEF InfoInv, InfoTyped
  <2>4. cur' \in allocated' /\ InTable(alltask', slot', nalltask', allocated' \ {cur'})
    BY <2>1, <2>2 DEF InfoInv, Cleaning
  <2> QED BY <2>1, <2>3, <2>4 DEF InfoInv, Creating, Cleaning
<1>2. CASE I!Grows
  <2>1. /\ pc = "grow" /\ nalltask' = n /\ slot' = sl /\ allocated' = S /\ cur' = c
        /\ c \in S /\ InTable(alltask, sl, n, S \ {c}) /\ RoomFor(alltask, n)
        /\ dangling = FALSE
    BY <1>2 DEF I!Grows, InfoInv, InfoTyped, Creating
  <2>2. CASE nalltask % Chunk # 0 /\ pc' = "slot" /\ UNCHANGED <<alltask, dangling>>
    <3>1. RoomFor(alltask, n + 1)
      <4>1. PICK d \in Nat : DOMAIN alltask = 0..(d - 1) /\ d % Chunk = 0 /\ n <= d
        BY <2>1 DEF RoomFor
      <4>2. n % Chunk # 0 /\ Chunk \in Nat \ {0}
        BY <2>2 DEF I!InfoAssumption
      <4>3. n + 1 <= d
        BY <4>1, <4>2, Capacity
      <4> QED BY <4>1, <4>3 DEF RoomFor
    <3> QED BY <2>1, <2>2, <3>1 DEF InfoInv, InfoTyped, Creating, Cleaning
  <2>3. CASE nalltask % Chunk = 0 /\ pc' = "slot" /\ I!Grown /\ UNCHANGED dangling
    <3>1. RoomFor(alltask', n + 1) /\ \A k \in 0..(n - 1) : alltask'[k] = alltask[k]
      BY <2>1, <2>3, GrownIs
    <3>2. InTable(alltask', sl, n, S \ {c})
      BY <2>1, <3>1, TableFrame
    <3> QED BY <2>1, <2>3, <3>1, <3>2 DEF InfoInv, InfoTyped, Creating, Cleaning
  <2>4. CASE /\ nalltask % Chunk = 0 /\ pc' = "assign"
             /\ dangling' = (nalltask > 0) /\ UNCHANGED alltask
    BY <2>1, <2>4 DEF InfoInv, InfoTyped, Creating, Cleaning
  <2> QED BY <1>2, <2>2, <2>3, <2>4 DEF I!Grows
<1>3. CASE I!Assigns
  <2>1. /\ pc = "assign" /\ pc' = "slot" /\ I!Grown /\ dangling' = FALSE
        /\ nalltask' = n /\ slot' = sl /\ allocated' = S /\ cur' = c
        /\ c \in S /\ InTable(alltask, sl, n, S \ {c}) /\ RoomFor(alltask, n)
        /\ n % Chunk = 0
    BY <1>3 DEF I!Assigns, InfoInv, InfoTyped, Creating
  <2>2. RoomFor(alltask', n + 1) /\ \A k \in 0..(n - 1) : alltask'[k] = alltask[k]
    BY <2>1, GrownIs
  <2>3. InTable(alltask', sl, n, S \ {c})
    BY <2>1, <2>2, TableFrame
  <2> QED BY <2>1, <2>2, <2>3 DEF InfoInv, InfoTyped, Creating, Cleaning
<1> QED BY <1>1, <1>2, <1>3

(* taskcreate(): the slot, the entry and the count, in either order.       *)
LEMMA InfoEnters ==
  ASSUME I!InfoAssumption, InfoInv, I!SetsSlot \/ I!Enters
  PROVE  InfoInv'
<1> USE DEF I!At, I!Goes
<1>0. PICK n, S, sl, c : n \in Nat /\ n = nalltask /\ S = allocated /\ sl = slot /\ c = cur
  BY DEF InfoInv, InfoTyped
<1> USE <1>0
<1>1. S \subseteq Block /\ sl \in [Block -> Nat]
  BY <1>0 DEF InfoInv, InfoTyped
<1>2. CASE I!SetsSlot
  <2>1. /\ pc = "slot" /\ pc' = "enter" /\ slot' = [sl EXCEPT ![c] = n]
        /\ alltask' = alltask /\ dangling' = dangling /\ nalltask' = n
        /\ allocated' = S /\ cur' = c
        /\ c \in S /\ InTable(alltask, sl, n, S \ {c}) /\ RoomFor(alltask, n + 1)
    BY <1>2 DEF I!SetsSlot, InfoInv, InfoTyped, Creating
  <2>2. PICK sl2 : sl2 = slot'
    OBVIOUS
  <2>3. sl2 \in [Block -> Nat] /\ sl2[c] = n /\ \A t \in S \ {c} : sl2[t] = sl[t]
    BY <1>1, <2>1, <2>2
  <2>4. InTable(alltask, sl2, n, S \ {c})
    BY <2>1, <2>3, TableFrame
  <2> QED BY <2>1, <2>2, <2>3, <2>4 DEF InfoInv, InfoTyped, Creating, Cleaning
<1>3. CASE I!Enters
  <2>1. /\ dangling' = dangling /\ slot' = sl /\ allocated' = S /\ cur' = c
    BY <1>3 DEF I!Enters
  <2>2. CASE pc = "enter"
    <3>1. /\ c \in S /\ InTable(alltask, sl, n, S \ {c}) /\ sl[c] = n
          /\ RoomFor(alltask, n + 1)
      BY <2>2 DEF InfoInv, InfoTyped, Creating
    <3>2. CASE pc' = "count" /\ I!Put(nalltask, cur) /\ UNCHANGED nalltask
      <4>1. PICK d \in Nat : DOMAIN alltask = 0..(d - 1) /\ d % Chunk = 0 /\ n + 1 <= d
        BY <3>1 DEF RoomFor
      <4>2. n \in DOMAIN alltask /\ \A k \in 0..(n - 1) : k \in DOMAIN alltask /\ k # n
        BY <4>1
      <4>3. /\ DOMAIN alltask' = DOMAIN alltask /\ alltask'[n] = c
            /\ \A k \in 0..(n - 1) : alltask'[k] = alltask[k]
        BY <3>2, <4>2, PutIs
      <4>4. InTable(alltask', sl, n + 1, S)
        BY <3>1, <4>3, EnterTable
      <4>5. RoomFor(alltask', n + 1)
        BY <3>1, <4>3 DEF RoomFor
      <4> QED BY <1>1, <2>1, <2>2, <3>2, <4>4, <4>5
              DEF InfoInv, InfoTyped, Creating, Cleaning
    <3>3. CASE pc' = "store" /\ nalltask' = nalltask + 1 /\ UNCHANGED alltask
      <4>1. PICK p \in Nat : p = nalltask'
        BY <3>3
      <4>2. p = n + 1 /\ p - 1 = n /\ p # 0
        BY <3>3, <4>1
      <4> QED BY <1>1, <2>1, <2>2, <3>1, <3>3, <4>1, <4>2
              DEF InfoInv, InfoTyped, Creating, Cleaning
    <3> QED BY <1>3, <2>2, <3>2, <3>3 DEF I!Enters
  <2>3. CASE pc = "count"
    <3>1. pc' = "run" /\ nalltask' = nalltask + 1 /\ UNCHANGED alltask
      BY <1>3, <2>3 DEF I!Enters
    <3>2. InTable(alltask, sl, n + 1, S) /\ RoomFor(alltask, n + 1)
      BY <2>3 DEF InfoInv, InfoTyped, Creating
    <3> QED BY <1>1, <2>1, <2>3, <3>1, <3>2
            DEF InfoInv, InfoTyped, Creating, Cleaning
  <2>4. CASE pc = "store"
    <3>1. pc' = "run" /\ I!Put(nalltask - 1, cur) /\ UNCHANGED nalltask
      BY <1>3, <2>4 DEF I!Enters
    <3>2. /\ c \in S /\ n # 0 /\ sl[c] = n - 1 /\ RoomFor(alltask, n)
          /\ InTable(alltask, sl, n - 1, S \ {c})
      BY <2>4 DEF InfoInv, InfoTyped, Creating
    <3>3. PICK k \in Nat : k = n - 1 /\ k + 1 = n
      BY <3>2
    <3>4. PICK d \in Nat : DOMAIN alltask = 0..(d - 1) /\ d % Chunk = 0 /\ n <= d
      BY <3>2 DEF RoomFor
    <3>5. k \in DOMAIN alltask /\ \A j \in 0..(k - 1) : j \in DOMAIN alltask /\ j # k
      BY <3>3, <3>4
    <3>6. /\ DOMAIN alltask' = DOMAIN alltask /\ alltask'[k] = c
          /\ \A j \in 0..(k - 1) : alltask'[j] = alltask[j]
      BY <3>1, <3>3, <3>5, PutIs
    <3>7. InTable(alltask', sl, n, S)
      <4>1. c \in S /\ InTable(alltask, sl, k, S \ {c}) /\ sl[c] = k
        BY <3>2, <3>3
      <4>2. InTable(alltask', sl, k + 1, S)
        BY <3>6, <4>1, EnterTable
      <4> QED BY <3>3, <4>2
    <3>8. RoomFor(alltask', n)
      BY <3>2, <3>6 DEF RoomFor
    <3> QED BY <1>1, <2>1, <2>4, <3>1, <3>7, <3>8
            DEF InfoInv, InfoTyped, Creating, Cleaning
  <2> QED BY <1>3, <2>2, <2>3, <2>4 DEF I!Enters
<1> QED BY <1>2, <1>3

(* The clean-up of an exited task: the last task is moved and the count    *)
(* goes down, in either order, then the task is freed.                     *)
LEMMA InfoLeaves ==
  ASSUME I!InfoAssumption, InfoInv,
         (\E t \in Block : I!Exited(t)) \/ I!Leaves \/ I!Reslots \/ I!Frees
  PROVE  InfoInv'
<1> USE DEF I!At, I!Goes
<1>0. PICK n, S, sl, c : n \in Nat /\ n = nalltask /\ S = allocated /\ sl = slot /\ c = cur
  BY DEF InfoInv, InfoTyped
<1> USE <1>0
<1>1. S \subseteq Block /\ sl \in [Block -> Nat]
  BY DEF InfoInv, InfoTyped
<1>2. ASSUME NEW t \in Block, I!Exited(t) PROVE InfoInv'
  <2>1. /\ pc = "run" /\ pc' = "leave" /\ t \in S /\ cur' = t /\ allocated' = S
        /\ UNCHANGED <<alltask, dangling, nalltask, slot>>
    BY <1>2 DEF I!Exited, I!tableVars
  <2> QED BY <2>1 DEF InfoInv, InfoTyped, Creating, Cleaning
<1>3. CASE I!Leaves
  <2>1. /\ dangling' = dangling /\ slot' = sl /\ allocated' = S /\ cur' = c
    BY <1>3 DEF I!Leaves
  <2>2. CASE pc = "leave"
    <3>1. c \in S /\ InTable(alltask, sl, n, S) /\ RoomFor(alltask, n)
      BY <2>2 DEF InfoInv, InfoTyped, Cleaning
    <3>2. PICK l \in Nat : l = n - 1 /\ l + 1 = n /\ n # 0
      <4>1. sl[c] \in 0..(n - 1)
        BY <3>1 DEF InTable
      <4>2. n # 0 /\ n - 1 \in Nat
        BY <4>1
      <4> QED BY <4>2
    <3>3. CASE pc' = "move" /\ nalltask' = nalltask - 1 /\ UNCHANGED alltask
      <4>1. nalltask' = l /\ InTable(alltask, sl, l + 1, S) /\ RoomFor(alltask, l + 1)
        BY <3>1, <3>2, <3>3
      <4> QED BY <1>1, <2>1, <2>2, <3>1, <3>3, <4>1
              DEF InfoInv, InfoTyped, Creating, Cleaning
    <3>4. CASE /\ pc' = "uncount" /\ I!Put(slot[cur], alltask[nalltask - 1])
               /\ UNCHANGED nalltask
      <4>1. PICK d \in Nat : DOMAIN alltask = 0..(d - 1) /\ d % Chunk = 0 /\ n <= d
        BY <3>1 DEF RoomFor
      <4>2. sl[c] \in 0..l /\ \A k \in 0..l : k \in DOMAIN alltask
        <5>1. sl[c] \in 0..(n - 1)
          BY <3>1 DEF InTable
        <5> QED BY <3>2, <4>1, <5>1
      <4>3. /\ DOMAIN alltask' = DOMAIN alltask /\ alltask'[sl[c]] = alltask[l]
            /\ \A k \in 0..l : k # sl[c] => alltask'[k] = alltask[k]
        BY <3>2, <3>4, <4>2, PutIs
      <4>4. InTable(alltask, sl, l + 1, S)
        BY <3>1, <3>2
      <4>5. Hole(alltask', sl, l, S, c)
        BY <3>1, <4>3, <4>4, MakeHole
      <4>6. RoomFor(alltask', n)
        BY <3>1, <4>3 DEF RoomFor
      <4> QED BY <1>1, <2>1, <2>2, <3>2, <3>4, <4>5, <4>6
              DEF InfoInv, InfoTyped, Creating, Cleaning
    <3> QED BY <1>3, <2>2, <3>3, <3>4 DEF I!Leaves, I!LastTask
  <2>3. CASE pc = "move"
    <3>1. pc' = "reslot" /\ I!Put(slot[cur], alltask[nalltask]) /\ UNCHANGED nalltask
      BY <1>3, <2>3 DEF I!Leaves
    <3>2. c \in S /\ InTable(alltask, sl, n + 1, S) /\ RoomFor(alltask, n + 1)
      BY <2>3 DEF InfoInv, InfoTyped, Cleaning
    <3>3. PICK d \in Nat : DOMAIN alltask = 0..(d - 1) /\ d % Chunk = 0 /\ n + 1 <= d
      BY <3>2 DEF RoomFor
    <3>4. sl[c] \in 0..n /\ \A k \in 0..n : k \in DOMAIN alltask
      <4>1. sl[c] \in 0..((n + 1) - 1)
        BY <3>2 DEF InTable
      <4>2. n + 1 <= d
        BY <3>3
      <4> QED BY <3>3, <4>1, <4>2
    <3>5. /\ DOMAIN alltask' = DOMAIN alltask /\ alltask'[sl[c]] = alltask[n]
          /\ \A k \in 0..n : k # sl[c] => alltask'[k] = alltask[k]
      BY <3>1, <3>4, PutIs
    <3>6. Hole(alltask', sl, n, S, c)
      BY <3>2, <3>5, MakeHole
    <3>7. RoomFor(alltask', n)
      <4>1. n <= d
        BY <3>3
      <4> QED BY <3>3, <3>5, <4>1 DEF RoomFor
    <3> QED BY <1>1, <2>1, <2>3, <3>1, <3>6, <3>7
            DEF InfoInv, InfoTyped, Creating, Cleaning
  <2>4. CASE pc = "uncount"
    <3>1. pc' = "reslot" /\ nalltask' = nalltask - 1 /\ UNCHANGED alltask
      BY <1>3, <2>4 DEF I!Leaves, I!LastTask
    <3>2. n # 0 /\ Hole(alltask, sl, n - 1, S, c) /\ RoomFor(alltask, n)
      BY <2>4 DEF InfoInv, InfoTyped, Cleaning
    <3>3. PICK l \in Nat : l = n - 1 /\ l <= n
      BY <3>2
    <3>4. RoomFor(alltask, l)
      <4>1. PICK d \in Nat : DOMAIN alltask = 0..(d - 1) /\ d % Chunk = 0 /\ n <= d
        BY <3>2 DEF RoomFor
      <4>2. l <= d
        BY <3>3, <4>1
      <4> QED BY <4>1, <4>2 DEF RoomFor
    <3> QED BY <1>1, <2>1, <2>4, <3>1, <3>2, <3>3, <3>4
            DEF InfoInv, InfoTyped, Creating, Cleaning
  <2> QED BY <1>3, <2>2, <2>3, <2>4 DEF I!Leaves
<1>4. CASE I!Reslots
  <2>1. /\ pc = "reslot" /\ pc' = "free" /\ slot' = [sl EXCEPT ![alltask[sl[c]]] = sl[c]]
        /\ alltask' = alltask /\ dangling' = dangling /\ nalltask' = n
        /\ allocated' = S /\ cur' = c
        /\ Hole(alltask, sl, n, S, c) /\ RoomFor(alltask, n)
    BY <1>4 DEF I!Reslots, I!Moved, InfoInv, InfoTyped, Cleaning
  <2>2. PICK sl2, x : sl2 = slot' /\ x = alltask[sl[c]]
    OBVIOUS
  <2>3. x \in S
    <3>1. n \in 0..n
      OBVIOUS
    <3> QED BY <2>1, <2>2, <3>1 DEF Hole
  <2>4. /\ sl2 \in [Block -> Nat] /\ sl2[x] = sl[c]
        /\ \A t \in S : t # x => sl2[t] = sl[t]
    BY <1>1, <2>1, <2>2, <2>3 DEF Hole
  <2>5. /\ Hole(alltask, sl, n, S, c) /\ x = alltask[sl[c]] /\ sl2[x] = sl[c]
        /\ \A t \in S : t # x => sl2[t] = sl[t]
    BY <2>1, <2>2, <2>4
  <2>6. c \in S /\ InTable(alltask, sl2, n, S \ {c})
    BY <2>5, FillHole
  <2> QED BY <1>1, <2>1, <2>2, <2>4, <2>6 DEF InfoInv, InfoTyped, Creating, Cleaning
<1>5. CASE I!Frees
  <2>1. /\ pc = "free" /\ pc' = "run" /\ allocated' = S \ {c}
        /\ UNCHANGED <<alltask, dangling, nalltask, slot>> /\ cur' = c
        /\ c \in S /\ InTable(alltask, sl, n, S \ {c})
    BY <1>5 DEF I!Frees, I!tableVars, InfoInv, Cleaning
  <2> QED BY <1>1, <2>1 DEF InfoInv, InfoTyped, Creating, Cleaning
<1> QED BY <1>2, <1>3, <1>4, <1>5

(* At first there is no table.                                             *)
LEMMA InfoInit == ASSUME I!InfoAssumption, I!Init PROVE InfoInv
<1>1. /\ DOMAIN alltask = {} /\ dangling = FALSE /\ nalltask = 0
      /\ slot = [t \in Block |-> 0] /\ allocated = {} /\ pc = "run"
  BY DEF I!Init
<1>2. InTable(alltask, slot, 0, {})
  <2>1. IsFiniteSet({}) /\ Cardinality({}) = 0
    BY FS_EmptySet
  <2> QED BY <2>1 DEF InTable
<1>3. RoomFor(alltask, 0)
  <2>1. 0 % Chunk = 0 /\ 0..(0 - 1) = {}
    BY DEF I!InfoAssumption
  <2> QED BY <1>1, <2>1 DEF RoomFor
<1> QED BY <1>1, <1>2, <1>3 DEF InfoInv, InfoTyped, Creating, Cleaning

(* Of the tasks S, at most x and y are not listed.                         *)
LEMMA OneMissed ==
  ASSUME NEW S, NEW L, NEW x, NEW y, S \subseteq L \cup {x, y}
  PROVE  I!Cardinality(S \ (L \cup {x})) <= 1
<1>1. \A C : I!Cardinality(C) = Cardinality(C)
  BY DEF I!Cardinality, Cardinality
<1>2. IsFiniteSet({y}) /\ Cardinality({y}) = 1
  BY FS_Singleton
<1>3. S \ (L \cup {x}) \subseteq {y}
  OBVIOUS
<1>4. /\ IsFiniteSet(S \ (L \cup {x}))
      /\ Cardinality(S \ (L \cup {x})) <= Cardinality({y})
  BY <1>2, <1>3, FS_Subset
<1> QED BY <1>1, <1>2, <1>4

(* What the handler sees of a table that may be one entry longer or        *)
(* shorter than it thinks.                                                 *)
LEMMA InfoImplies == ASSUME InfoInv PROVE I!ListInv
<1> DEFINE L == I!taskinfo
<1>0. PICK n, S, sl, c : n \in Nat /\ n = nalltask /\ S = allocated /\ sl = slot /\ c = cur
  BY DEF InfoInv, InfoTyped
<1> USE <1>0
<1>1. ~dangling => L = {alltask[k] : k \in 0..(n - 1)}
  BY DEF I!taskinfo
<1> HIDE DEF L
<1>2. I!Cardinality(S) = Cardinality(S)
  BY DEF I!Cardinality, Cardinality
<1>3. ASSUME ~dangling, InTable(alltask, sl, n, S)
      PROVE  L = S /\ n = Cardinality(S) /\ \A t \in S : alltask[sl[t]] = t
  <2>1. \A t : t \in L <=> t \in S
    BY <1>1, <1>3 DEF InTable
  <2> QED BY <1>3, <2>1 DEF InTable
<1>4. ASSUME ~dangling, c \in S, InTable(alltask, sl, n, S \ {c})
      PROVE  L \subseteq S /\ S \subseteq L \cup {c}
  BY <1>1, <1>4 DEF InTable
<1>5. pc = "run" =>
        L = S /\ n = I!Cardinality(S) /\ \A t \in S : alltask[sl[t]] = t
  BY <1>2, <1>3 DEF InfoInv, InfoTyped, Cleaning
<1>6. ASSUME pc # "assign"
      PROVE  /\ pc # "store" => L \subseteq S
             /\ \E y : S \subseteq L \cup {c, y}
  <2>0. ~dangling
    BY <1>6 DEF InfoInv, InfoTyped
  <2>1. CASE pc \in {"run", "leave"}
    BY <1>3, <2>0, <2>1 DEF InfoInv, Cleaning
  <2>2. CASE pc \in {"grow", "slot", "enter", "free"}
    <3>1. c \in S /\ InTable(alltask, sl, n, S \ {c})
      BY <2>2 DEF InfoInv, Creating, Cleaning
    <3> QED BY <1>4, <2>0, <3>1
  <2>3. CASE pc \in {"count", "move"}
    <3>1. InTable(alltask, sl, n + 1, S)
      BY <2>3 DEF InfoInv, Creating, Cleaning
    <3>2. /\ \A k \in 0..n : alltask[k] \in S
          /\ \A t \in S : sl[t] \in 0..n /\ alltask[sl[t]] = t
      <4>1. (n + 1) - 1 = n
        OBVIOUS
      <4> QED BY <3>1, <4>1 DEF InTable
    <3>3. \A k \in 0..n : k = n \/ k \in 0..(n - 1)
      OBVIOUS
    <3>4. \A k \in 0..(n - 1) : k \in 0..n
      OBVIOUS
    <3>5. L \subseteq S /\ S \subseteq L \cup {c, alltask[n]}
      BY <1>1, <2>0, <3>2, <3>3, <3>4
    <3> QED BY <3>5
  <2>4. CASE pc = "store"
    <3>1. n # 0 /\ InTable(alltask, sl, n - 1, S \ {c})
      BY <2>4 DEF InfoInv, Creating
    <3>2. \A k \in 0..(n - 1 - 1) : k \in 0..(n - 1)
      OBVIOUS
    <3>3. S \subseteq L \cup {c}
      BY <1>1, <2>0, <3>1, <3>2 DEF InTable
    <3> QED BY <2>4, <3>3
  <2>5. CASE pc = "uncount"
    <3>1. n # 0 /\ Hole(alltask, sl, n - 1, S, c)
      BY <2>5 DEF InfoInv, Cleaning
    <3>2. n - 1 \in 0..(n - 1) /\ n - 1 \in Nat
      BY <3>1
    <3>3. \A k \in 0..(n - 1) : alltask[k] \in S
      BY <3>1, <3>2 DEF Hole
    <3>4. \A t \in S \ {c} : sl[t] \in 0..(n - 1) /\ alltask[sl[t]] = t
      BY <3>1 DEF Hole
    <3>5. L \subseteq S /\ S \subseteq L \cup {c}
      BY <1>1, <2>0, <3>3, <3>4
    <3> QED BY <3>5
  <2>6. CASE pc = "reslot"
    <3>1. Hole(alltask, sl, n, S, c)
      BY <2>6 DEF InfoInv, Cleaning
    <3>2. /\ \A k \in 0..(n - 1) : k \in 0..n
          /\ \A k \in 0..n : k # n => k \in 0..(n - 1)
          /\ n \in 0..n
      OBVIOUS
    <3>3. \A k \in 0..n : alltask[k] \in S
      BY <3>1, <3>2 DEF Hole
    <3>4. ASSUME NEW t \in S \ {c} PROVE \E k \in 0..(n - 1) : alltask[k] = t
      <4>1. /\ sl[t] \in 0..n /\ sl[t] # sl[c] /\ alltask[sl[t]] = t /\ sl[c] \in 0..n
            /\ alltask[sl[c]] = IF sl[c] = n THEN c ELSE alltask[n]
        BY <3>1 DEF Hole
      <4>2. CASE sl[t] = n
        <5>1. sl[c] # n /\ alltask[sl[c]] = t
          BY <4>1, <4>2
        <5> QED BY <3>2, <4>1, <5>1
      <4>3. CASE sl[t] # n
        BY <3>2, <4>1, <4>3
      <4> QED BY <4>2, <4>3
    <3>5. L \subseteq S /\ S \subseteq L \cup {c}
      BY <1>1, <2>0, <3>2, <3>3, <3>4
    <3> QED BY <3>5
  <2> QED BY <1>6, <2>1, <2>2, <2>3, <2>4, <2>5, <2>6 DEF InfoInv, InfoTyped
<1>7. pc # "assign" => I!Cardinality(S \ (L \cup {c})) <= 1
  BY <1>6, OneMissed
<1> QED BY <1>5, <1>6, <1>7 DEF I!ListInv, L

(* Whenever SIGQUIT comes, whatever order the stores are seen in, and      *)
(* however large the table: between operations taskinfo() lists exactly    *)
(* the tasks, in between only tasks that exist, but for the two places in  *)
(* taskcreate() that ListInv names.                                        *)
THEOREM HandlerSees == ASSUME I!InfoAssumption PROVE I!Spec => []ListInv
<1>1. I!Init => InfoInv
  BY InfoInit
<1>2. InfoInv /\ [I!Next]_(I!vars) => InfoInv'
  <2> SUFFICES ASSUME InfoInv, [I!Next]_(I!vars) PROVE InfoInv'
    OBVIOUS
  <2>1. CASE I!Next
    BY <2>1, InfoGrows, InfoEnters, InfoLeaves DEF I!Next
  <2>2. CASE UNCHANGED I!vars
    BY <2>2 DEF I!vars, I!tableVars, InfoInv, InfoTyped, Creating, Cleaning
  <2> QED BY <2>1, <2>2
<1>3. InfoInv => ListInv
  BY InfoImplies DEF ListInv
<1> QED BY <1>1, <1>2, <1>3, PTL DEF I!Spec
-----------------------------------------------------------------------------
(* The change of stacks.                                                   *)
Alive  == live \cup {Sched}
Memory == UNION {Ctx!StackOf(f) : f \in Ctx!Flow}
Cpu    == [esp : Int, eip : Int, eax : Int, reg : [Reg -> Val]]

(* The stack pointer that makecontext() gives to a new Task, and the one a *)
(* flow has before its own code has pushed anything.                       *)
Begin(t) == Ctx!ArgsAt(t) - 1
Base(f)  == IF f = Sched THEN Ctx!Top(Sched) ELSE Begin(f)

CtxTyped ==
  /\ mem \in [Memory -> Int] /\ cpu \in Cpu /\ ctx \in [Ctx!Flow -> Cpu]
  /\ self \in [Stacked -> Int] /\ live \subseteq Stacked
  /\ image \in [Ctx!Flow -> [esp : Int, reg : [Reg -> Val], words : Seq(Val)]]

(* What f has pushed lies between the two ends of its stack.               *)
Frame(f) ==
  /\ image[f].esp + Len(image[f].words) = Base(f)
  /\ image[f].esp > Stk[f] /\ Len(image[f].words) <= MaxWork

(* What f has pushed is still there.                                       *)
Kept(f) ==
  \A k \in DOMAIN image[f].words : mem[image[f].esp + k - 1] = image[f].words[k]

(* A Task that has not run yet, as makecontext() left it.                  *)
Fresh(t) ==
  /\ t \in live /\ image[t].words = <<>> /\ self[t] = 0
  /\ ctx[t].esp = Begin(t) /\ ctx[t].eip = Ctx!TaskStart
  /\ mem[Begin(t)] = 0
  /\ mem[Begin(t) + 1] = Ctx!SplitLow(Ctx!Pointer(t))
  /\ mem[Begin(t) + 2] = Ctx!SplitHigh(Ctx!Pointer(t))

(* f has called swapcontext(): the return address of the call is where the *)
(* second return of getcontext() will look for it.                         *)
Called(f) ==
  /\ Frame(f) /\ image[f].esp - 3 >= Stk[f]
  /\ mem[image[f].esp - 1] = Ctx!User

(* f is in swapcontext() with its context saved.                           *)
Saved(f) ==
  /\ Called(f)
  /\ ctx[f].esp = image[f].esp - 2 /\ ctx[f].reg = image[f].reg
  /\ ctx[f].eip = Ctx!Gret /\ ctx[f].eax = 1

Suspended(f) == Fresh(f) \/ Saved(f)

(* The places where the flow that has the CPU may be.  One that exits is   *)
(* no longer alive when it is in swapcontext(): it will not come back.     *)
AtUser(f) ==
  /\ f \in Alive /\ cpu.eip = Ctx!User /\ Frame(f)
  /\ cpu.esp = image[f].esp /\ cpu.reg = image[f].reg

AtStart(f) == Fresh(f) /\ cpu.eip = Ctx!TaskStart /\ cpu.esp = Begin(f)

Calling(f) == arg[1] = f /\ arg[2] \in Alive \ {f}

AtSwap(f) ==
  /\ Calling(f) /\ cpu.eip = Ctx!Swap /\ cpu.esp - 2 >= Stk[f]
  /\ f \in Alive => Called(f) /\ cpu.esp = image[f].esp - 1 /\ cpu.reg = image[f].reg

AtGet(f) ==
  /\ Calling(f) /\ cpu.eip = Ctx!Gret /\ cpu.eax = 0
  /\ f \in Alive => Saved(f) /\ cpu.esp = ctx[f].esp

AtBack(f) ==
  /\ f \in Alive /\ cpu.eip = Ctx!Gret /\ cpu.eax = 1
  /\ Saved(f) /\ cpu.esp = ctx[f].esp /\ cpu.reg = ctx[f].reg

Running(f) ==
  /\ cpu.esp \in Ctx!StackOf(f) /\ cpu.esp - 1 \in Ctx!StackOf(f)
  /\ AtUser(f) \/ AtStart(f) \/ AtSwap(f) \/ AtGet(f) \/ AtBack(f)

(* One flow has the CPU, the others that are alive are suspended.          *)
OneRuns ==
  \E f \in Ctx!Flow : Running(f) /\ \A g \in Alive \ {f} : Suspended(g)

StacksInv ==
  /\ CtxTyped /\ OneRuns
  /\ \A f \in Alive : Kept(f)
  /\ \A t \in live : self[t] \in {0, Ctx!Pointer(t)}
  /\ \A t \in Stacked \ live : image[t].words = <<>>

(* z is q times n, and r.                                                  *)
Composed(z, q, n, r) == z = q * n + r

(* Division undoes a multiplication with what is left over.                *)
LEMMA Divided ==
  ASSUME NEW n \in Nat \ {0}, NEW q \in Nat, NEW r \in 0..(n - 1), NEW z \in Nat,
         Composed(z, q, n, r)
  PROVE  z \div n = q /\ z % n = r
<1> DEFINE d == z \div n
           e == z % n
<1>1. d \in Int /\ e \in 0..(n - 1) /\ z = d * n + e /\ z = q * n + r
  BY DEF Composed
<1> HIDE DEF d, e
<1>2. (q - d) * n = e - r
  BY <1>1
<1>3. ~(q - d >= 1)
  <2> SUFFICES ASSUME q - d >= 1 PROVE FALSE
    OBVIOUS
  <2>1. (q - d) * n >= n
    BY <1>1
  <2> QED BY <1>1, <1>2, <2>1
<1>4. ~(q - d <= -1)
  <2> SUFFICES ASSUME q - d <= -1 PROVE FALSE
    OBVIOUS
  <2>1. (q - d) * n <= -n
    BY <1>1
  <2> QED BY <1>1, <1>2, <2>1
<1>5. q = d
  BY <1>1, <1>3, <1>4
<1> QED BY <1>1, <1>2, <1>5 DEF d, e

(* taskstart() puts the halves of an address together again, if it has no  *)
(* more than three times the bits of Half: the second shift of taskalloc() *)
(* is by half an uint only.                                                *)
LEMMA AddressJoined ==
  ASSUME NEW z \in Nat, Half \in Nat \ {0}, z < Half * Half * Half
  PROVE  Ctx!Joined(Ctx!SplitLow(z), Ctx!SplitHigh(z)) = z
<1> DEFINE h == Half
           q == z \div h
           r == z % h
           x == q \div h
           s == q % h
<1>1. q \in Nat /\ r \in 0..(h - 1) /\ z = q * h + r
  OBVIOUS
<1>2. x \in Nat /\ s \in 0..(h - 1) /\ q = x * h + s
  <2> HIDE DEF q
  <2> QED BY <1>1
<1> HIDE DEF q, r, x, s
<1>3. h * h \in Nat \ {0} /\ s * h + r \in 0..(h * h - 1)
  <2>1. s * h <= (h - 1) * h
    BY <1>2
  <2>2. (h - 1) * h = h * h - h
    OBVIOUS
  <2>3. s * h >= 0 /\ s * h \in Int /\ h * h >= h /\ h * h \in Int
    BY <1>2
  <2> QED BY <1>1, <2>1, <2>2, <2>3
<1>4. z = x * (h * h) + (s * h + r)
  BY <1>1, <1>2
<1>5. z % (h * h) = s * h + r
  <2> PICK n \in Nat \ {0}, w \in 0..(h * h - 1) : n = h * h /\ w = s * h + r
    BY <1>3
  <2>1. w \in 0..(n - 1) /\ z = x * n + w
    BY <1>4
  <2>2. Composed(z, x, n, w)
    BY <2>1 DEF Composed
  <2>3. z % n = w
    BY <1>2, <2>1, <2>2, Divided
  <2> QED BY <2>3
<1>6. x \in 0..(h - 1)
  <2> SUFFICES ASSUME x >= h PROVE FALSE
    BY <1>2
  <2>1. x * (h * h) >= h * (h * h)
    BY <1>2, <1>3
  <2>2. h * (h * h) = h * h * h
    OBVIOUS
  <2>3. s * h + r >= 0 /\ s * h + r \in Int /\ x * (h * h) \in Int
    BY <1>2, <1>3
  <2> QED BY <1>4, <2>1, <2>2, <2>3
<1>7. x % (h * h) = x /\ (x * h) % (h * h) = x * h
  <2>1. h <= h * h /\ x * h <= (h - 1) * h /\ (h - 1) * h = h * h - h
    BY <1>6
  <2>2. x \in 0..(h * h - 1) /\ x * h \in 0..(h * h - 1)
    BY <1>6, <2>1
  <2> PICK n \in Nat \ {0}, u \in Nat : n = h * h /\ u = x * h
    BY <1>3, <2>2
  <2>3. x \in 0..(n - 1) /\ u \in 0..(n - 1)
    BY <1>6, <2>2
  <2>4. x % n = x
    <3>1. Composed(x, 0, n, x)
      BY <1>6 DEF Composed
    <3> QED BY <1>6, <2>3, <3>1, Divided
  <2>5. u % n = u
    <3>1. Composed(u, 0, n, u)
      BY DEF Composed
    <3> QED BY <2>3, <3>1, Divided
  <2> QED BY <2>4, <2>5
<1>8. Ctx!SplitHigh(z) = x /\ Ctx!SplitLow(z) = s * h + r
  BY <1>5, <1>7 DEF Ctx!SplitHigh, Ctx!SplitLow, Ctx!UInt, x, q
<1>9. Ctx!Joined(s * h + r, x) = (x * h) * h + (s * h + r)
  BY <1>7 DEF Ctx!Joined, Ctx!UInt
<1> QED BY <1>2, <1>3, <1>4, <1>8, <1>9

(* makecontext() leaves room on both sides, and aligns.                    *)
LEMMA BeginIs ==
  ASSUME Ctx!ContextAssumption, NEW t \in Stacked
  PROVE  /\ Stk[t] \in Nat /\ Begin(t) \in Int
         /\ Begin(t) >= Stk[t] + 1 /\ Begin(t) + 2 <= Stk[t] + Size - 1
         /\ (Begin(t) + 1) % Align = 0
<1> DEFINE sp == Stk[t] + Low + (Size - Ends) - 2
           r == sp % Align
<1>1. /\ Stk[t] \in Nat /\ Size \in Nat /\ Align \in Nat \ {0} /\ Low \in Nat /\ Ends \in Nat
      /\ Low <= Ends /\ Ends + Align + 3 <= Size + Low
  BY DEF Ctx!ContextAssumption, Ctx!Flow
<1>2. sp \in Nat
  BY <1>1
<1>3. r \in 0..(Align - 1) /\ (sp - r) % Align = 0
  <2> HIDE DEF sp
  <2>1. r \in 0..(Align - 1) /\ sp = Align * (sp \div Align) + r /\ sp \div Align \in Nat
    BY <1>1, <1>2
  <2>2. PICK q \in Nat : sp = Align * q + r
    BY <2>1
  <2> HIDE DEF r
  <2>3. sp - r = Align * q
    BY <1>1, <1>2, <2>1, <2>2
  <2>4. (Align * q) % Align = 0
    BY <1>1, MultipleOf
  <2> QED BY <2>1, <2>3, <2>4
<1>4. Begin(t) = sp - r - 1
  BY DEF Begin, Ctx!ArgsAt
<1> HIDE DEF r
<1>5. Begin(t) + 1 = sp - r
  BY <1>2, <1>3, <1>4
<1> QED BY <1>1, <1>2, <1>3, <1>4, <1>5

(* The bounds of a stack, and where a flow begins on it.                   *)
LEMMA StackIs ==
  ASSUME Ctx!ContextAssumption, NEW f \in Ctx!Flow
  PROVE  /\ Stk[f] \in Nat /\ Size \in Nat
         /\ \A x : x \in Ctx!StackOf(f) <=> x \in Int /\ Stk[f] <= x /\ x <= Stk[f] + Size - 1
         /\ Base(f) \in Int /\ Base(f) > Stk[f] /\ Base(f) <= Stk[f] + Size - 1
         /\ Ctx!StackOf(f) \subseteq Memory
         /\ \A g \in Ctx!Flow \ {f} : \A x \in Ctx!StackOf(f) : x \notin Ctx!StackOf(g)
<1>1. /\ Stk[f] \in Nat /\ Size \in Nat /\ MaxWork \in Nat /\ MaxWork + 4 <= Size
  BY DEF Ctx!ContextAssumption
<1>2. Base(f) \in Int /\ Base(f) > Stk[f] /\ Base(f) <= Stk[f] + Size - 1
  <2>1. CASE f = Sched
    BY <1>1, <2>1 DEF Base, Ctx!Top
  <2>2. CASE f # Sched
    <3>1. f \in Stacked
      BY <2>2 DEF Ctx!Flow
    <3> QED BY <1>1, <2>2, <3>1, BeginIs DEF Base
  <2> QED BY <2>1, <2>2
<1>3. \A x : x \in Ctx!StackOf(f) <=> x \in Int /\ Stk[f] <= x /\ x <= Stk[f] + Size - 1
  BY <1>1 DEF Ctx!StackOf
<1>4. \A g \in Ctx!Flow \ {f} : \A x \in Ctx!StackOf(f) : x \notin Ctx!StackOf(g)
  BY DEF Ctx!ContextAssumption
<1>5. Ctx!StackOf(f) \subseteq Memory
  BY DEF Memory
<1> QED BY <1>1, <1>2, <1>3, <1>4, <1>5

(* The types of what concerns a flow.                                      *)
LEMMA FlowTyped ==
  ASSUME CtxTyped, NEW f \in Ctx!Flow
  PROVE  /\ image[f].esp \in Int /\ image[f].reg \in [Reg -> Val]
         /\ image[f].words \in Seq(Val) /\ Len(image[f].words) \in Nat
         /\ DOMAIN image[f].words = 1..Len(image[f].words)
         /\ ctx[f] \in Cpu /\ ctx[f].esp \in Int
         /\ cpu.esp \in Int /\ cpu.reg \in [Reg -> Val]
<1>1. image[f] \in [esp : Int, reg : [Reg -> Val], words : Seq(Val)] /\ ctx[f] \in Cpu
  BY DEF CtxTyped
<1>2. image[f].words \in Seq(Val)
  BY <1>1
<1>3. Len(image[f].words) \in Nat /\ DOMAIN image[f].words = 1..Len(image[f].words)
  BY <1>2, LenProperties
<1> QED BY <1>1, <1>2, <1>3 DEF CtxTyped, Cpu

(* x is in a stack of z words from s.                                      *)
Within(x, s, z) == x \in Int /\ s <= x /\ x <= s + z - 1

(* e is n words below b, which is in a stack of z words from s.            *)
Holds(e, n, b, s, z) == e + n = b /\ b <= s + z - 1 /\ e > s

(* What has been pushed, and what is about to be, is within the stack.     *)
LEMMA Room ==
  ASSUME NEW s \in Nat, NEW z \in Nat, NEW b \in Int, NEW e \in Int, NEW n \in Nat,
         Holds(e, n, b, s, z)
  PROVE  /\ Within(e, s, z) /\ Within(e - 1, s, z)
         /\ e > s + 1 => Within(e - 2, s, z) /\ Holds(e - 1, n + 1, b, s, z)
         /\ e - 3 >= s => Within(e - 2, s, z) /\ Within(e - 3, s, z)
         /\ \A k \in 1..n : Within(e + k - 1, s, z)
BY DEF Within, Holds

(* The same of a flow: what has been pushed is on its stack, and what is   *)
(* about to be.                                                            *)
LEMMA FrameRoom ==
  ASSUME Ctx!ContextAssumption, CtxTyped, NEW f \in Ctx!Flow, Frame(f)
  PROVE  /\ image[f].esp \in Ctx!StackOf(f) /\ image[f].esp - 1 \in Ctx!StackOf(f)
         /\ image[f].esp > Stk[f] + 1 => image[f].esp - 2 \in Ctx!StackOf(f)
         /\ image[f].esp - 3 >= Stk[f] =>
              image[f].esp - 2 \in Ctx!StackOf(f) /\ image[f].esp - 3 \in Ctx!StackOf(f)
         /\ \A k \in DOMAIN image[f].words : image[f].esp + k - 1 \in Ctx!StackOf(f)
<1>1. /\ image[f].esp \in Int /\ Len(image[f].words) \in Nat
      /\ DOMAIN image[f].words = 1..Len(image[f].words)
  BY FlowTyped
<1>2. Stk[f] \in Nat /\ Size \in Nat /\ Base(f) \in Int /\ Base(f) <= Stk[f] + Size - 1
  BY StackIs
<1> PICK s \in Nat, b \in Int, e \in Int, n \in Nat :
         s = Stk[f] /\ b = Base(f) /\ e = image[f].esp /\ n = Len(image[f].words)
  BY <1>1, <1>2
<1>3. Holds(e, n, b, s, Size)
  BY <1>2 DEF Holds, Frame
<1>4. /\ Within(e, s, Size) /\ Within(e - 1, s, Size)
      /\ e > s + 1 => Within(e - 2, s, Size)
      /\ e - 3 >= s => Within(e - 2, s, Size) /\ Within(e - 3, s, Size)
      /\ \A k \in 1..n : Within(e + k - 1, s, Size)
  BY <1>2, <1>3, Room
<1>5. \A x : Within(x, s, Size) => x \in Ctx!StackOf(f)
  BY StackIs DEF Within
<1> QED BY <1>1, <1>4, <1>5

(* What a flow has pushed is kept when nothing is written above its stack  *)
(* pointer.                                                                *)
LEMMA KeptStays ==
  ASSUME Ctx!ContextAssumption, CtxTyped, NEW f \in Ctx!Flow, Frame(f), Kept(f),
         \A x \in Ctx!StackOf(f) : x >= image[f].esp => mem'[x] = mem[x],
         image'[f] = image[f]
  PROVE  Kept(f)'
<1> DEFINE E == image[f].esp
           W == image[f].words
<1>1. E \in Int /\ Len(W) \in Nat /\ DOMAIN W = 1..Len(W)
  BY FlowTyped
<1>2. ASSUME NEW k \in 1..Len(W) PROVE E + k - 1 \in Ctx!StackOf(f) /\ E + k - 1 >= E
  <2>1. \A i \in DOMAIN W : E + i - 1 \in Ctx!StackOf(f)
    BY FrameRoom
  <2>2. E + k - 1 \in Ctx!StackOf(f)
    BY <1>1, <2>1
  <2> QED BY <1>1, <2>2
<1>3. \A k \in 1..Len(W) : mem'[E + k - 1] = mem[E + k - 1]
  BY <1>2
<1> QED BY <1>1, <1>3 DEF Kept

(* A flow whose stack, context and image stay as they are stays suspended. *)
LEMMA OthersStay ==
  ASSUME Ctx!ContextAssumption, CtxTyped, NEW g \in Ctx!Flow, Suspended(g), Kept(g),
         \A x \in Ctx!StackOf(g) : mem'[x] = mem[x],
         ctx'[g] = ctx[g], image'[g] = image[g],
         g \in live => g \in live' /\ self'[g] = self[g]
  PROVE  Suspended(g)' /\ Kept(g)'
<1>1. CASE Fresh(g)
  <2>1. g \in Stacked
    BY <1>1 DEF Fresh, CtxTyped
  <2>2. {Begin(g), Begin(g) + 1, Begin(g) + 2} \subseteq Ctx!StackOf(g)
    <3>1. /\ Stk[g] \in Nat /\ Begin(g) \in Int /\ Size \in Nat
          /\ Begin(g) >= Stk[g] + 1 /\ Begin(g) + 2 <= Stk[g] + Size - 1
      BY <2>1, BeginIs, StackIs
    <3> QED BY <3>1, StackIs
  <2>3. Fresh(g)'
    BY <1>1, <2>2 DEF Fresh
  <2>4. image[g].words = <<>> /\ DOMAIN image[g].words = {}
    BY <1>1 DEF Fresh
  <2> QED BY <2>3, <2>4 DEF Suspended, Kept
<1>2. CASE Saved(g)
  <2>1. Frame(g) /\ image[g].esp - 3 >= Stk[g]
    BY <1>2 DEF Saved, Called
  <2>3. image[g].esp - 1 \in Ctx!StackOf(g)
    BY <2>1, FrameRoom
  <2>4. Saved(g)'
    BY <1>2, <2>3 DEF Saved, Called, Frame
  <2>5. Kept(g)'
    BY <2>1, KeptStays
  <2> QED BY <2>4, <2>5 DEF Suspended
<1> QED BY <1>1, <1>2 DEF Suspended

(* There is one flow on whose stack the CPU is.                            *)
LEMMA RunningIs ==
  ASSUME Ctx!ContextAssumption, OneRuns, NEW f \in Ctx!Flow, Ctx!On(f)
  PROVE  Running(f) /\ \A g \in Alive \ {f} : Suspended(g)
<1>1. PICK h \in Ctx!Flow : Running(h) /\ \A g \in Alive \ {h} : Suspended(g)
  BY DEF OneRuns
<1>2. cpu.esp \in Ctx!StackOf(h) /\ cpu.esp \in Ctx!StackOf(f)
  BY <1>1 DEF Running, Ctx!On
<1>3. h = f
  BY <1>2, StackIs
<1> QED BY <1>1, <1>3

(* What is known of the flow that has the CPU, from where it is.           *)
LEMMA PlaceIs ==
  ASSUME Ctx!ContextAssumption, StacksInv, NEW f \in Ctx!Flow, Ctx!On(f)
  PROVE  /\ cpu.eip = Ctx!User => AtUser(f)
         /\ cpu.eip = Ctx!TaskStart => AtStart(f)
         /\ cpu.eip = Ctx!Swap => AtSwap(f)
         /\ cpu.eip = Ctx!Gret /\ cpu.eax = 0 => AtGet(f)
         /\ cpu.eip = Ctx!Gret /\ cpu.eax = 1 => AtBack(f)
         /\ cpu.eip # Ctx!Sret
         /\ cpu.esp \in Ctx!StackOf(f) /\ cpu.esp - 1 \in Ctx!StackOf(f)
         /\ \A g \in Alive \ {f} : g \in Ctx!Flow /\ Suspended(g) /\ Kept(g)
<1>1. Running(f) /\ \A g \in Alive \ {f} : Suspended(g)
  BY RunningIs DEF StacksInv
<1>2. Alive \subseteq Ctx!Flow
  BY DEF StacksInv, CtxTyped, Alive, Ctx!Flow
<1>3. \A g \in Alive : Kept(g)
  BY DEF StacksInv
<1>4. /\ cpu.eip = Ctx!User => AtUser(f)
      /\ cpu.eip = Ctx!TaskStart => AtStart(f)
      /\ cpu.eip = Ctx!Swap => AtSwap(f)
      /\ cpu.eip = Ctx!Gret /\ cpu.eax = 0 => AtGet(f)
      /\ cpu.eip = Ctx!Gret /\ cpu.eax = 1 => AtBack(f)
      /\ cpu.eip # Ctx!Sret
  BY <1>1 DEF Running, AtUser, AtStart, AtSwap, AtGet, AtBack, Ctx!User, Ctx!TaskStart,
              Ctx!Swap, Ctx!Gret, Ctx!Sret
<1> QED BY <1>1, <1>2, <1>3, <1>4 DEF Running

(* The halves of an address are numbers.                                   *)
LEMMA SplitTyped ==
  ASSUME Ctx!ContextAssumption, NEW z \in Nat
  PROVE  Ctx!SplitLow(z) \in Int /\ Ctx!SplitHigh(z) \in Int
<1>1. Half \in Nat \ {0}
  BY DEF Ctx!ContextAssumption
<1>2. PICK n \in Nat \ {0} : n = Half * Half
  <2>1. Half * Half >= Half /\ Half * Half \in Int
    BY <1>1
  <2> QED BY <1>1, <2>1
<1>3. z \div Half \in Nat
  BY <1>1
<1>4. PICK y \in Nat : y = z \div Half
  BY <1>3
<1>5. y \div Half \in Nat
  BY <1>1
<1> QED BY <1>2, <1>4, <1>5 DEF Ctx!SplitLow, Ctx!SplitHigh, Ctx!UInt

(* The registers stay registers.                                           *)
LEMMA CpuMoves ==
  ASSUME NEW c \in Cpu
  PROVE  /\ \A i \in Int : [c EXCEPT !.eip = i] \in Cpu
         /\ \A e \in Int, r \in [Reg -> Val] : [c EXCEPT !.esp = e, !.reg = r] \in Cpu
         /\ \A e, i \in Int : [c EXCEPT !.esp = e, !.eip = i] \in Cpu
         /\ \A e, i, x \in Int : [c EXCEPT !.esp = e, !.eip = i, !.eax = x] \in Cpu
BY DEF Cpu

(* A flow in its own code.                                                 *)
LEMMA UserIs ==
  ASSUME Ctx!ContextAssumption, StacksInv, NEW f \in Ctx!Flow, Ctx!At(f, Ctx!User)
  PROVE  /\ AtUser(f) /\ Frame(f) /\ Kept(f) /\ f \in Alive
         /\ cpu.esp \in Ctx!StackOf(f) /\ cpu.esp - 1 \in Ctx!StackOf(f)
         /\ \A g \in Alive \ {f} : g \in Ctx!Flow /\ Suspended(g) /\ Kept(g)
<1>1. Ctx!On(f) /\ cpu.eip = Ctx!User
  BY DEF Ctx!At
<1>2. AtUser(f)
  BY <1>1, PlaceIs
<1>3. f \in Alive /\ Frame(f)
  BY <1>2 DEF AtUser
<1> QED BY <1>1, <1>2, <1>3, PlaceIs DEF StacksInv

(* taskalloc(): a new stack is written, no other.                          *)
LEMMA CreatesKeeps ==
  ASSUME Ctx!ContextAssumption, StacksInv, NEW f \in Ctx!Flow, NEW t \in Stacked,
         Ctx!Creates(f, t)
  PROVE  StacksInv'
<1> DEFINE sp == Begin(t)
           lo == Ctx!SplitLow(Ctx!Pointer(t))
           hi == Ctx!SplitHigh(Ctx!Pointer(t))
<1>1. /\ Ctx!At(f, Ctx!User) /\ t \notin live
      /\ mem' = [mem EXCEPT ![sp] = 0, ![sp + 1] = lo, ![sp + 2] = hi]
      /\ ctx' = [ctx EXCEPT ![t] = [esp |-> sp, eip |-> Ctx!TaskStart, eax |-> 1,
                                    reg |-> cpu.reg]]
      /\ live' = live \cup {t} /\ self' = [self EXCEPT ![t] = 0]
      /\ cpu' = cpu /\ arg' = arg /\ image' = image
  BY DEF Ctx!Creates, Begin
<1>2. /\ AtUser(f) /\ Frame(f) /\ Kept(f) /\ f \in Alive
      /\ cpu.esp \in Ctx!StackOf(f) /\ cpu.esp - 1 \in Ctx!StackOf(f)
      /\ \A g \in Alive \ {f} : g \in Ctx!Flow /\ Suspended(g) /\ Kept(g)
  BY <1>1, UserIs
<1>3. t \in Ctx!Flow /\ t \notin Alive /\ t # f
  BY <1>1, <1>2 DEF Ctx!Flow, Alive, Ctx!ContextAssumption
<1>4. {sp, sp + 1, sp + 2} \subseteq Ctx!StackOf(t) /\ sp \in Int
  <2>1. /\ Stk[t] \in Nat /\ sp \in Int /\ Size \in Nat
        /\ sp >= Stk[t] + 1 /\ sp + 2 <= Stk[t] + Size - 1
    BY <1>3, BeginIs, StackIs
  <2> HIDE DEF sp
  <2> QED BY <1>3, <2>1, StackIs
<1> HIDE DEF sp
<1>5. Ctx!Pointer(t) \in Nat /\ lo \in Int /\ hi \in Int
  <2>1. Ctx!Pointer(t) \in Nat
    BY <1>3 DEF Ctx!Pointer, Ctx!ContextAssumption
  <2> QED BY <2>1, SplitTyped
<1> HIDE DEF lo, hi
<1>6. /\ mem' \in [Memory -> Int] /\ mem'[sp] = 0 /\ mem'[sp + 1] = lo /\ mem'[sp + 2] = hi
      /\ \A x \in Memory : x \notin {sp, sp + 1, sp + 2} => mem'[x] = mem[x]
  <2>1. mem \in [Memory -> Int] /\ {sp, sp + 1, sp + 2} \subseteq Memory
    BY <1>3, <1>4, StackIs DEF StacksInv, CtxTyped
  <2>2. sp # sp + 1 /\ sp # sp + 2 /\ sp + 1 # sp + 2
    BY <1>4
  <2> QED BY <1>1, <1>5, <2>1, <2>2
<1>7. \A g \in Ctx!Flow \ {t} : \A x \in Ctx!StackOf(g) : mem'[x] = mem[x]
  <2> SUFFICES ASSUME NEW g \in Ctx!Flow \ {t}, NEW x \in Ctx!StackOf(g)
               PROVE  x \in Memory /\ x \notin {sp, sp + 1, sp + 2}
    BY <1>6
  <2> QED BY <1>3, <1>4, StackIs
<1>8. CtxTyped'
  <2>1. /\ cpu \in Cpu /\ ctx \in [Ctx!Flow -> Cpu] /\ self \in [Stacked -> Int]
        /\ live \subseteq Stacked
        /\ image \in [Ctx!Flow -> [esp : Int, reg : [Reg -> Val], words : Seq(Val)]]
    BY DEF StacksInv, CtxTyped
  <2>2. [esp |-> sp, eip |-> Ctx!TaskStart, eax |-> 1, reg |-> cpu.reg] \in Cpu
    BY <1>4, <2>1 DEF Cpu, Ctx!TaskStart
  <2>3. ctx' \in [Ctx!Flow -> Cpu]
    BY <1>1, <2>1, <2>2
  <2>4. live' \subseteq Stacked
    BY <1>1, <2>1
  <2>5. self' \in [Stacked -> Int]
    BY <1>1, <2>1
  <2>6. cpu' = cpu /\ image' = image
    BY <1>1
  <2> QED BY <1>6, <2>1, <2>3, <2>4, <2>5, <2>6 DEF CtxTyped
<1>9. Fresh(t)'
  <2>1. ctx'[t] = [esp |-> sp, eip |-> Ctx!TaskStart, eax |-> 1, reg |-> cpu.reg]
    BY <1>1, <1>3 DEF StacksInv, CtxTyped
  <2>2. self'[t] = 0 /\ image'[t].words = <<>> /\ t \in live'
    BY <1>1 DEF StacksInv, CtxTyped
  <2> QED BY <1>6, <2>1, <2>2 DEF Fresh, sp, lo, hi
<1>10. Kept(t)'
  BY <1>9 DEF Fresh, Kept
<1>11. ASSUME NEW g \in Alive \ {f} PROVE Suspended(g)' /\ Kept(g)'
  <2>1. g \in Ctx!Flow /\ Suspended(g) /\ Kept(g) /\ g # t
    BY <1>2, <1>3
  <2>2. ctx'[g] = ctx[g] /\ image'[g] = image[g] /\ (g \in live => g \in live' /\ self'[g] = self[g])
    BY <1>1, <2>1 DEF StacksInv, CtxTyped
  <2>3. \A x \in Ctx!StackOf(g) : mem'[x] = mem[x]
    BY <1>7, <2>1
  <2> QED BY <2>1, <2>2, <2>3, OthersStay DEF StacksInv
<1>12. Kept(f)'
  BY <1>1, <1>2, <1>3, <1>7, KeptStays DEF StacksInv
<1>13. Running(f)' /\ AtUser(f)'
  BY <1>1, <1>2 DEF AtUser, Frame, Running, Alive
<1>14. Alive' = Alive \cup {t}
  BY <1>1 DEF Alive
<1>15. OneRuns'
  BY <1>9, <1>11, <1>13, <1>14 DEF OneRuns, Suspended
<1>16. \A u \in live' : self'[u] \in {0, Ctx!Pointer(u)}
  BY <1>1 DEF StacksInv, CtxTyped
<1>17. \A u \in Stacked \ live' : image'[u].words = <<>>
  BY <1>1 DEF StacksInv
<1>18. \A g \in Alive' : Kept(g)'
  BY <1>10, <1>11, <1>12, <1>14
<1> QED BY <1>8, <1>15, <1>16, <1>17, <1>18 DEF StacksInv

(* The others of a step that writes only the stack of f, and only what is  *)
(* known of f.                                                             *)
LEMMA OthersKept ==
  ASSUME Ctx!ContextAssumption, StacksInv, NEW f \in Ctx!Flow, Ctx!On(f),
         \A x \in Memory : x \notin Ctx!StackOf(f) => mem'[x] = mem[x],
         \A g \in Ctx!Flow \ {f} : ctx'[g] = ctx[g] /\ image'[g] = image[g],
         \A t \in live \ {f} : t \in live' /\ self'[t] = self[t]
  PROVE  \A g \in Alive \ {f} : Suspended(g)' /\ Kept(g)'
<1> SUFFICES ASSUME NEW g \in Alive \ {f} PROVE Suspended(g)' /\ Kept(g)'
  OBVIOUS
<1>1. g \in Ctx!Flow /\ Suspended(g) /\ Kept(g)
  BY PlaceIs
<1>2. \A x \in Ctx!StackOf(g) : mem'[x] = mem[x]
  <2> SUFFICES ASSUME NEW x \in Ctx!StackOf(g)
               PROVE  x \in Memory /\ x \notin Ctx!StackOf(f)
    OBVIOUS
  <2> QED BY <1>1, StackIs
<1>3. ctx'[g] = ctx[g] /\ image'[g] = image[g] /\ (g \in live => g \in live' /\ self'[g] = self[g])
  BY <1>1
<1> QED BY <1>1, <1>2, <1>3, OthersStay DEF StacksInv

(* taskstart() gets its arguments.                                         *)
LEMMA StartsKeeps ==
  ASSUME Ctx!ContextAssumption, StacksInv, NEW t \in Stacked, Ctx!Starts(t)
  PROVE  StacksInv'
<1>1. /\ Ctx!On(t) /\ cpu.eip = Ctx!TaskStart
      /\ self' = [self EXCEPT ![t] = Ctx!Joined(mem[cpu.esp + 1], mem[cpu.esp + 2])]
      /\ cpu' = [cpu EXCEPT !.eip = Ctx!User]
      /\ image' = [image EXCEPT ![t] = [esp |-> cpu.esp, reg |-> cpu.reg, words |-> <<>>]]
      /\ mem' = mem /\ ctx' = ctx /\ arg' = arg /\ live' = live
  BY DEF Ctx!Starts, Ctx!At
<1>2. t \in Ctx!Flow /\ t # Sched
  BY DEF Ctx!Flow, Ctx!ContextAssumption
<1>3. /\ AtStart(t) /\ cpu.esp \in Ctx!StackOf(t) /\ cpu.esp - 1 \in Ctx!StackOf(t)
      /\ cpu.esp = Begin(t) /\ t \in live
  BY <1>1, <1>2, PlaceIs DEF AtStart, Fresh
<1>4. CtxTyped /\ cpu.esp \in Int /\ cpu.reg \in [Reg -> Val]
  BY <1>2, FlowTyped DEF StacksInv
<1>5. self'[t] = Ctx!Pointer(t) /\ Ctx!Pointer(t) \in Int
  <2>1. Ctx!Pointer(t) \in Nat /\ Half \in Nat \ {0} /\ Ctx!Pointer(t) < Half * Half * Half
    BY <1>2 DEF Ctx!Pointer, Ctx!ContextAssumption
  <2>2. /\ mem[cpu.esp + 1] = Ctx!SplitLow(Ctx!Pointer(t))
        /\ mem[cpu.esp + 2] = Ctx!SplitHigh(Ctx!Pointer(t))
    BY <1>3 DEF AtStart, Fresh
  <2>3. Ctx!Joined(mem[cpu.esp + 1], mem[cpu.esp + 2]) = Ctx!Pointer(t)
    BY <2>1, <2>2, AddressJoined
  <2> QED BY <1>1, <1>4, <2>1, <2>3 DEF CtxTyped
<1>6. image'[t] = [esp |-> cpu.esp, reg |-> cpu.reg, words |-> <<>>]
  BY <1>1, <1>2, <1>4 DEF CtxTyped
<1>7. CtxTyped'
  <2>1. self' \in [Stacked -> Int]
    BY <1>1, <1>4, <1>5 DEF CtxTyped
  <2>2. cpu' \in Cpu
    <3>1. cpu \in Cpu
      BY <1>4 DEF CtxTyped
    <3>2. cpu' = [cpu EXCEPT !.eip = Ctx!User] /\ Ctx!User \in Int
      BY <1>1 DEF Ctx!User
    <3> QED BY <3>1, <3>2, CpuMoves
  <2>3. image' \in [Ctx!Flow -> [esp : Int, reg : [Reg -> Val], words : Seq(Val)]]
    <3>1. <<>> \in Seq(Val)
      OBVIOUS
    <3>2. [esp |-> cpu.esp, reg |-> cpu.reg, words |-> <<>>]
            \in [esp : Int, reg : [Reg -> Val], words : Seq(Val)]
      BY <1>4, <3>1
    <3> QED BY <1>1, <1>4, <3>2 DEF CtxTyped
  <2> QED BY <1>1, <1>4, <2>1, <2>2, <2>3 DEF CtxTyped
<1>8. \A g \in Alive \ {t} : Suspended(g)' /\ Kept(g)'
  <2>1. \A g \in Ctx!Flow \ {t} : ctx'[g] = ctx[g] /\ image'[g] = image[g]
    BY <1>1, <1>4 DEF CtxTyped
  <2>2. \A u \in live \ {t} : u \in live' /\ self'[u] = self[u]
    BY <1>1, <1>4 DEF CtxTyped
  <2> QED BY <1>1, <1>2, <2>1, <2>2, OthersKept
<1>9. Frame(t)' /\ Kept(t)'
  <2>1. Len(<<>>) = 0 /\ DOMAIN <<>> = {}
    OBVIOUS
  <2>2. Begin(t) >= Stk[t] + 1 /\ Stk[t] \in Nat /\ Begin(t) \in Int /\ MaxWork \in Nat
    BY BeginIs DEF Ctx!ContextAssumption
  <2>3. Base(t) = Begin(t)
    BY <1>2 DEF Base
  <2>4. Begin(t) + 0 = Begin(t) /\ Begin(t) > Stk[t] /\ 0 <= MaxWork
    BY <2>2
  <2> QED BY <1>3, <1>6, <2>1, <2>3, <2>4 DEF Frame, Kept
<1>10. /\ cpu'.esp = cpu.esp /\ cpu'.eip = Ctx!User /\ cpu'.reg = cpu.reg
  BY <1>1, <1>4 DEF CtxTyped, Cpu
<1>11. Alive' = Alive /\ t \in Alive
  BY <1>1, <1>3 DEF Alive
<1>12. Running(t)'
  BY <1>3, <1>6, <1>9, <1>10, <1>11 DEF Running, AtUser
<1>13. OneRuns'
  BY <1>2, <1>8, <1>11, <1>12 DEF OneRuns
<1>14. \A u \in live' : self'[u] \in {0, Ctx!Pointer(u)}
  BY <1>1, <1>4, <1>5 DEF StacksInv, CtxTyped
<1>15. \A u \in Stacked \ live' : image'[u].words = <<>>
  BY <1>1, <1>3, <1>4 DEF StacksInv, CtxTyped, Ctx!Flow
<1> QED BY <1>7, <1>8, <1>9, <1>11, <1>13, <1>14, <1>15 DEF StacksInv

(* A flow goes on in its own code.                                         *)
LEMMA WorksKeeps ==
  ASSUME Ctx!ContextAssumption, StacksInv, NEW f \in Ctx!Flow, NEW v \in Val,
         Ctx!Works(f, v)
  PROVE  StacksInv'
<1> DEFINE E == image[f].esp
           W == image[f].words
           U == <<v>> \o W
           R == Ctx!Regs(v)
<1>1. /\ Ctx!At(f, Ctx!User) /\ cpu.esp > Stk[f] + 1 /\ Len(W) < MaxWork
      /\ mem' = [mem EXCEPT ![cpu.esp - 1] = v]
      /\ cpu' = [cpu EXCEPT !.esp = cpu.esp - 1, !.reg = R]
      /\ image' = [image EXCEPT ![f] = [esp |-> cpu.esp - 1, reg |-> R, words |-> U]]
      /\ ctx' = ctx /\ arg' = arg /\ self' = self /\ live' = live
  BY DEF Ctx!Works
<1>2. /\ AtUser(f) /\ Frame(f) /\ Kept(f) /\ f \in Alive
      /\ cpu.esp \in Ctx!StackOf(f) /\ cpu.esp - 1 \in Ctx!StackOf(f)
  BY <1>1, UserIs
<1>3. CtxTyped /\ cpu.esp = E /\ cpu.eip = Ctx!User
  BY <1>2 DEF StacksInv, AtUser
<1>4. /\ E \in Int /\ W \in Seq(Val) /\ Len(W) \in Nat /\ DOMAIN W = 1..Len(W)
  BY <1>3, FlowTyped
<1>5. /\ U \in Seq(Val) /\ Len(U) = Len(W) + 1 /\ DOMAIN U = 1..(Len(W) + 1)
      /\ U[1] = v /\ \A k \in 2..(Len(W) + 1) : U[k] = W[k - 1]
  <2>1. /\ <<v>> \in Seq(Val) /\ Len(<<v>>) = 1 /\ <<v>>[1] = v
    OBVIOUS
  <2>2. /\ U \in Seq(Val) /\ Len(U) = 1 + Len(W)
        /\ \A k \in 1..(1 + Len(W)) : U[k] = IF k <= 1 THEN <<v>>[k] ELSE W[k - 1]
    BY <1>4, <2>1, ConcatProperties
  <2>3. DOMAIN U = 1..Len(U)
    BY <2>2, LenProperties
  <2> QED BY <1>4, <2>1, <2>2, <2>3
<1>6. R \in [Reg -> Val] /\ v \in Int
  BY DEF Ctx!Regs, Ctx!ContextAssumption
<1> HIDE DEF U, R
<1>7. image'[f] = [esp |-> E - 1, reg |-> R, words |-> U]
  BY <1>1, <1>3 DEF CtxTyped
<1>8. /\ Stk[f] \in Nat /\ Size \in Nat /\ Base(f) \in Int /\ MaxWork \in Nat
      /\ E + Len(W) = Base(f)
  BY <1>2, StackIs DEF Frame, Ctx!ContextAssumption
<1>9. /\ mem' \in [Memory -> Int] /\ mem'[E - 1] = v
      /\ \A x \in Memory : x # E - 1 => mem'[x] = mem[x]
  <2>1. E - 1 \in Memory /\ mem \in [Memory -> Int]
    BY <1>2, <1>3, StackIs DEF CtxTyped
  <2> QED BY <1>1, <1>3, <1>6, <2>1
<1>10. CtxTyped'
  <2>1. cpu' \in Cpu
    <3>1. cpu \in Cpu /\ cpu.esp - 1 \in Int
      BY <1>3, <1>4 DEF CtxTyped
    <3>2. cpu' = [cpu EXCEPT !.esp = cpu.esp - 1, !.reg = R]
      BY <1>1
    <3> QED BY <1>6, <3>1, <3>2, CpuMoves
  <2>2. [esp |-> cpu.esp - 1, reg |-> R, words |-> U]
          \in [esp : Int, reg : [Reg -> Val], words : Seq(Val)]
    BY <1>3, <1>4, <1>5, <1>6
  <2>3. image' \in [Ctx!Flow -> [esp : Int, reg : [Reg -> Val], words : Seq(Val)]]
    BY <1>1, <1>3, <2>2 DEF CtxTyped
  <2> QED BY <1>1, <1>3, <1>9, <2>1, <2>3 DEF CtxTyped
<1>11. \A g \in Alive \ {f} : Suspended(g)' /\ Kept(g)'
  <2>1. \A g \in Ctx!Flow \ {f} : ctx'[g] = ctx[g] /\ image'[g] = image[g]
    BY <1>1, <1>3 DEF CtxTyped
  <2>2. \A u \in live \ {f} : u \in live' /\ self'[u] = self[u]
    BY <1>1
  <2>3. \A x \in Memory : x \notin Ctx!StackOf(f) => mem'[x] = mem[x]
    BY <1>2, <1>3, <1>9
  <2>4. Ctx!On(f)
    BY <1>1 DEF Ctx!At
  <2> QED BY <2>1, <2>2, <2>3, <2>4, OthersKept
<1>12. Frame(f)'
  <2>1. PICK s \in Nat, b \in Int, e \in Int, n \in Nat, w \in Nat :
             s = Stk[f] /\ b = Base(f) /\ e = E /\ n = Len(W) /\ w = MaxWork
    BY <1>4, <1>8
  <2>2. e > s + 1 /\ n < w /\ e + n = b
    BY <1>1, <1>3, <1>8, <2>1
  <2>3. (e - 1) + (n + 1) = b /\ e - 1 > s /\ n + 1 <= w
    BY <2>2
  <2>4. /\ (E - 1) + (Len(W) + 1) = Base(f) /\ E - 1 > Stk[f] /\ Len(W) + 1 <= MaxWork
    BY <2>1, <2>3
  <2> QED BY <1>5, <1>7, <2>4 DEF Frame
<1>13. Kept(f)'
  <2> SUFFICES ASSUME NEW k \in 1..(Len(W) + 1) PROVE mem'[(E - 1) + k - 1] = U[k]
    BY <1>5, <1>7 DEF Kept
  <2>1. CASE k = 1
    <3>1. (E - 1) + k - 1 = E - 1
      BY <1>4, <2>1
    <3> QED BY <1>5, <1>9, <2>1, <3>1
  <2>2. CASE k # 1
    <3>1. /\ k \in 2..(Len(W) + 1) /\ k - 1 \in 1..Len(W)
          /\ (E - 1) + k - 1 = E + (k - 1) - 1 /\ (E - 1) + k - 1 # E - 1
      BY <1>4, <2>2
    <3>2. mem[E + (k - 1) - 1] = W[k - 1]
      BY <1>2, <1>4, <3>1 DEF Kept
    <3>3. E + (k - 1) - 1 \in Memory
      <4>1. E + (k - 1) - 1 \in Ctx!StackOf(f)
        <5>1. \A i \in DOMAIN W : E + i - 1 \in Ctx!StackOf(f)
          BY <1>2, <1>3, FrameRoom
        <5> PICK i \in DOMAIN W : i = k - 1
          BY <1>4, <3>1
        <5> QED BY <5>1
      <4> QED BY <4>1, StackIs
    <3> QED BY <1>5, <1>9, <3>1, <3>2, <3>3
  <2> QED BY <2>1, <2>2
<1>14. cpu'.esp = E - 1 /\ cpu'.eip = Ctx!User /\ cpu'.reg = R
  BY <1>1, <1>3 DEF CtxTyped, Cpu
<1>15. Alive' = Alive
  BY <1>1 DEF Alive
<1>16. Running(f)'
  <2>1. E - 1 \in Ctx!StackOf(f) /\ (E - 1) - 1 \in Ctx!StackOf(f)
    <3>1. E > Stk[f] + 1 /\ (E - 1) - 1 = E - 2
      BY <1>1, <1>3, <1>4
    <3>2. E - 2 \in Ctx!StackOf(f)
      BY <1>2, <1>3, <3>1, FrameRoom
    <3> QED BY <1>2, <1>3, <3>1, <3>2
  <2> QED BY <1>2, <1>7, <1>12, <1>14, <1>15, <2>1 DEF Running, AtUser
<1>17. OneRuns'
  BY <1>11, <1>15, <1>16 DEF OneRuns
<1>18. \A u \in Stacked \ live' : image'[u].words = <<>>
  <2>1. \A u \in Stacked \ live : u \notin Alive
    BY DEF Alive, Ctx!ContextAssumption
  <2> QED BY <1>1, <1>2, <1>3, <2>1 DEF StacksInv, CtxTyped, Ctx!Flow
<1>19. \A u \in live' : self'[u] \in {0, Ctx!Pointer(u)}
  BY <1>1 DEF StacksInv
<1> QED BY <1>10, <1>11, <1>13, <1>15, <1>17, <1>18, <1>19 DEF StacksInv

(* swapcontext() is called: needstack() has left it three words.           *)
LEMMA SwitchesKeeps ==
  ASSUME Ctx!ContextAssumption, StacksInv, NEW f \in Ctx!Flow, NEW u \in Alive \ {f},
         NEW exits \in BOOLEAN, exits => f \in Stacked, Ctx!Switches(f, u, exits)
  PROVE  StacksInv'
<1> DEFINE E == image[f].esp
           W == image[f].words
<1>1. /\ Ctx!At(f, Ctx!User) /\ ~Ctx!Needs(f)
      /\ mem' = [mem EXCEPT ![cpu.esp - 1] = Ctx!User]
      /\ cpu' = [cpu EXCEPT !.esp = cpu.esp - 1, !.eip = Ctx!Swap]
      /\ arg' = <<f, u>>
      /\ live' = IF exits THEN live \ {f} ELSE live
      /\ image' = IF exits THEN [image EXCEPT ![f] = Ctx!NoImage] ELSE image
      /\ ctx' = ctx /\ self' = self
  BY DEF Ctx!Switches
<1>2. /\ AtUser(f) /\ Frame(f) /\ Kept(f) /\ f \in Alive
      /\ cpu.esp \in Ctx!StackOf(f) /\ cpu.esp - 1 \in Ctx!StackOf(f)
  BY <1>1, UserIs
<1>3. CtxTyped /\ cpu.esp = E /\ cpu.reg = image[f].reg
  BY <1>2 DEF StacksInv, AtUser
<1>4. E \in Int /\ Len(W) \in Nat /\ cpu \in Cpu
  BY <1>3, FlowTyped DEF CtxTyped
<1>5. /\ Stk[f] \in Nat /\ Size \in Nat /\ Base(f) \in Int /\ MaxWork \in Nat /\ Red \in Nat
      /\ Base(f) <= Stk[f] + Size - 1 /\ E + Len(W) = Base(f) /\ Len(W) <= MaxWork
      /\ Red >= 3 /\ MaxWork + 4 <= Size
  BY <1>2, StackIs DEF Frame, Ctx!ContextAssumption
<1>6. E - 3 >= Stk[f]
  <2>1. CASE f = Sched
    <3>1. Base(f) = Stk[f] + Size - 1
      BY <2>1 DEF Base, Ctx!Top
    <3> QED BY <1>4, <1>5, <3>1
  <2>2. CASE f # Sched
    <3>1. ~(E - Stk[f] < Red)
      BY <1>1, <1>3, <2>2 DEF Ctx!Needs
    <3> QED BY <1>4, <1>5, <3>1
  <2> QED BY <2>1, <2>2
<1>7. /\ mem' \in [Memory -> Int] /\ mem'[E - 1] = Ctx!User
      /\ \A x \in Memory : x # E - 1 => mem'[x] = mem[x]
  <2>1. E - 1 \in Memory /\ mem \in [Memory -> Int] /\ Ctx!User \in Int
    BY <1>2, <1>3, StackIs DEF CtxTyped, Ctx!User
  <2> QED BY <1>1, <1>3, <2>1
<1>8. CtxTyped'
  <2>1. cpu' \in Cpu
    <3>1. cpu.esp - 1 \in Int /\ Ctx!Swap \in Int
      BY <1>3, <1>4 DEF Ctx!Swap
    <3>2. cpu' = [cpu EXCEPT !.esp = cpu.esp - 1, !.eip = Ctx!Swap]
      BY <1>1
    <3> QED BY <1>4, <3>1, <3>2, CpuMoves
  <2>2. 0 \in Val /\ <<>> \in Seq(Val)
    BY DEF Ctx!ContextAssumption
  <2>3. Ctx!NoImage \in [esp : Int, reg : [Reg -> Val], words : Seq(Val)]
    BY <2>2 DEF Ctx!NoImage, Ctx!Regs
  <2>4. image' \in [Ctx!Flow -> [esp : Int, reg : [Reg -> Val], words : Seq(Val)]]
    BY <1>1, <1>3, <2>3 DEF CtxTyped
  <2> QED BY <1>1, <1>3, <1>7, <2>1, <2>4 DEF CtxTyped
<1>9. \A g \in Alive \ {f} : Suspended(g)' /\ Kept(g)'
  <2>1. \A g \in Ctx!Flow \ {f} : ctx'[g] = ctx[g] /\ image'[g] = image[g]
    BY <1>1, <1>3 DEF CtxTyped
  <2>2. \A t \in live \ {f} : t \in live' /\ self'[t] = self[t]
    BY <1>1
  <2>3. \A x \in Memory : x \notin Ctx!StackOf(f) => mem'[x] = mem[x]
    BY <1>2, <1>3, <1>7
  <2>4. Ctx!On(f)
    BY <1>1 DEF Ctx!At
  <2> QED BY <2>1, <2>2, <2>3, <2>4, OthersKept
<1>10. Alive' \subseteq Alive /\ Alive' \ {f} = Alive \ {f} /\ u \in Alive' \ {f}
  BY <1>1 DEF Alive, Ctx!ContextAssumption
<1>11. /\ cpu'.esp = E - 1 /\ cpu'.eip = Ctx!Swap /\ cpu'.reg = image[f].reg
  BY <1>1, <1>3, <1>4 DEF Cpu
<1>12. f \in Alive' => ~exits /\ image' = image
  BY <1>1 DEF Alive, Ctx!ContextAssumption
<1>13. f \in Alive' => Called(f)'
  <2> SUFFICES ASSUME f \in Alive' PROVE Called(f)'
    OBVIOUS
  <2> QED BY <1>2, <1>6, <1>7, <1>12 DEF Called, Frame
<1>14. f \in Alive' => Kept(f)'
  <2>1. \A x \in Ctx!StackOf(f) : x >= E => mem'[x] = mem[x]
    <3> SUFFICES ASSUME NEW x \in Ctx!StackOf(f), x >= E
                 PROVE  x \in Memory /\ x # E - 1
      BY <1>7
    <3>1. x \in Int /\ x \in Memory
      BY StackIs
    <3> QED BY <1>4, <3>1
  <2> QED BY <1>2, <1>3, <1>12, <2>1, KeptStays
<1>15. Running(f)'
  <2>1. (E - 1) - 1 = E - 2 /\ (E - 1) - 2 = E - 3
    BY <1>4
  <2>2. E - 1 \in Ctx!StackOf(f) /\ (E - 1) - 1 \in Ctx!StackOf(f)
    BY <1>2, <1>3, <1>6, <2>1, FrameRoom
  <2>3. arg'[1] = f /\ arg'[2] = u
    BY <1>1
  <2>4. AtSwap(f)'
    BY <1>6, <1>10, <1>11, <1>12, <1>13, <2>1, <2>3 DEF AtSwap, Calling
  <2> QED BY <1>11, <2>2, <2>4 DEF Running
<1>16. OneRuns'
  BY <1>9, <1>10, <1>15 DEF OneRuns
<1>17. \A t \in Stacked \ live' : image'[t].words = <<>>
  <2> SUFFICES ASSUME NEW t \in Stacked \ live' PROVE image'[t].words = <<>>
    OBVIOUS
  <2>1. CASE t \in live
    <3>1. exits /\ t = f
      BY <1>1, <2>1
    <3> QED BY <1>1, <1>3, <3>1 DEF CtxTyped, Ctx!NoImage
  <2>2. CASE t \notin live
    <3>1. image[t].words = <<>> /\ t # f /\ t \in Ctx!Flow
      BY <1>2, <2>2 DEF StacksInv, Alive, Ctx!ContextAssumption, Ctx!Flow
    <3> QED BY <1>1, <1>3, <3>1 DEF CtxTyped
  <2> QED BY <2>1, <2>2
<1>18. \A t \in live' : self'[t] \in {0, Ctx!Pointer(t)}
  BY <1>1 DEF StacksInv
<1>19. \A g \in Alive' : Kept(g)'
  BY <1>9, <1>10, <1>14
<1> QED BY <1>8, <1>16, <1>17, <1>18, <1>19 DEF StacksInv

(* getcontext() saves the caller.                                          *)
LEMMA SavesKeeps ==
  ASSUME Ctx!ContextAssumption, StacksInv, NEW f \in Ctx!Flow, Ctx!getcontext(f)
  PROVE  StacksInv'
<1> DEFINE e == cpu.esp - 1
           c == [esp |-> e, eip |-> Ctx!Gret, eax |-> 1, reg |-> cpu.reg]
<1>1. /\ Ctx!On(f) /\ cpu.eip = Ctx!Swap
      /\ mem' = [mem EXCEPT ![e] = 0, ![e - 1] = Ctx!Gret]
      /\ ctx' = [ctx EXCEPT ![arg[1]] = c]
      /\ cpu' = [cpu EXCEPT !.esp = e, !.eip = Ctx!Gret, !.eax = 0]
      /\ arg' = arg /\ self' = self /\ image' = image /\ live' = live
  BY DEF Ctx!getcontext, Ctx!At, Ctx!Saved
<1>2. /\ AtSwap(f) /\ cpu.esp \in Ctx!StackOf(f) /\ cpu.esp - 1 \in Ctx!StackOf(f)
  BY <1>1, PlaceIs
<1>3. /\ arg[1] = f /\ arg[2] \in Alive \ {f} /\ cpu.esp - 2 >= Stk[f]
      /\ f \in Alive => Called(f) /\ cpu.esp = image[f].esp - 1 /\ cpu.reg = image[f].reg
  BY <1>2 DEF AtSwap, Calling
<1>4. CtxTyped /\ cpu \in Cpu /\ cpu.esp \in Int /\ e \in Int /\ image[f].esp \in Int
  BY FlowTyped DEF StacksInv, CtxTyped
<1>5. Stk[f] \in Nat /\ Size \in Nat /\ cpu.esp <= Stk[f] + Size - 1
  BY <1>2, StackIs
<1>6. e \in Ctx!StackOf(f) /\ e - 1 \in Ctx!StackOf(f)
  <2>1. e - 1 \in Int /\ Stk[f] <= e - 1 /\ e - 1 <= Stk[f] + Size - 1
    BY <1>3, <1>4, <1>5
  <2> QED BY <1>2, <2>1, StackIs
<1>7. /\ mem' \in [Memory -> Int]
      /\ \A x \in Memory : x # e /\ x # e - 1 => mem'[x] = mem[x]
  <2>1. e \in Memory /\ e - 1 \in Memory /\ mem \in [Memory -> Int] /\ Ctx!Gret \in Int
    BY <1>4, <1>6, StackIs DEF CtxTyped, Ctx!Gret
  <2> QED BY <1>1, <2>1
<1>8. c \in Cpu
  <2>1. e \in Int /\ Ctx!Gret \in Int /\ cpu.reg \in [Reg -> Val]
    BY <1>4 DEF Cpu, Ctx!Gret
  <2> HIDE DEF e
  <2> QED BY <2>1 DEF Cpu
<1>9. ctx' \in [Ctx!Flow -> Cpu] /\ ctx'[f] = c
  BY <1>1, <1>3, <1>4, <1>8 DEF CtxTyped
<1>10. /\ cpu' \in Cpu /\ cpu'.esp = e /\ cpu'.eip = Ctx!Gret /\ cpu'.eax = 0
  <2>1. Ctx!Gret \in Int /\ 0 \in Int
    BY DEF Ctx!Gret
  <2>2. cpu' \in Cpu
    BY <1>1, <1>4, <2>1, CpuMoves
  <2> QED BY <1>1, <1>4, <2>2 DEF Cpu
<1>11. CtxTyped'
  BY <1>1, <1>4, <1>7, <1>9, <1>10 DEF CtxTyped
<1>12. \A g \in Alive \ {f} : Suspended(g)' /\ Kept(g)'
  <2>1. \A g \in Ctx!Flow \ {f} : ctx'[g] = ctx[g] /\ image'[g] = image[g]
    BY <1>1, <1>3, <1>4 DEF CtxTyped
  <2>2. \A t \in live \ {f} : t \in live' /\ self'[t] = self[t]
    BY <1>1
  <2>3. \A x \in Memory : x \notin Ctx!StackOf(f) => mem'[x] = mem[x]
    BY <1>6, <1>7
  <2> QED BY <1>1, <2>1, <2>2, <2>3, OthersKept
<1>13. Alive' = Alive
  BY <1>1 DEF Alive
<1>14. ASSUME f \in Alive PROVE Saved(f)' /\ Kept(f)'
  <2>1. Called(f) /\ cpu.esp = image[f].esp - 1 /\ cpu.reg = image[f].reg /\ Kept(f)
    BY <1>3, <1>14 DEF StacksInv
  <2>2. /\ e = image[f].esp - 2 /\ image[f].esp - 1 # e /\ image[f].esp - 1 # e - 1
        /\ image[f].esp - 1 \in Memory
    BY <1>2, <1>4, <2>1, StackIs
  <2>3. Called(f)'
    BY <1>1, <1>7, <2>1, <2>2 DEF Called, Frame
  <2>4. Saved(f)'
    BY <1>1, <1>9, <2>1, <2>2, <2>3 DEF Saved
  <2>5. \A x \in Ctx!StackOf(f) : x >= image[f].esp => mem'[x] = mem[x]
    <3> SUFFICES ASSUME NEW x \in Ctx!StackOf(f), x >= image[f].esp
                 PROVE  x \in Memory /\ x # e /\ x # e - 1
      BY <1>7
    <3>1. x \in Int /\ x \in Memory
      BY StackIs
    <3> QED BY <1>4, <2>2, <3>1
  <2>6. Kept(f)'
    BY <1>1, <1>4, <2>1, <2>5, KeptStays DEF Called
  <2> QED BY <2>4, <2>6
<1>15. Running(f)'
  <2>1. AtGet(f)'
    BY <1>1, <1>3, <1>9, <1>10, <1>13, <1>14 DEF AtGet, Calling
  <2> QED BY <1>6, <1>10, <2>1 DEF Running
<1>16. OneRuns'
  BY <1>12, <1>13, <1>15 DEF OneRuns
<1>17. \A g \in Alive' : Kept(g)'
  BY <1>12, <1>13, <1>14
<1> QED BY <1>1, <1>11, <1>16, <1>17 DEF StacksInv

(* Where a suspended flow will go on, and that its return address can be   *)
(* pushed below that.                                                      *)
LEMMA ResumesAt ==
  ASSUME Ctx!ContextAssumption, CtxTyped, NEW u \in Ctx!Flow, Suspended(u)
  PROVE  /\ ctx[u].esp \in Ctx!StackOf(u) /\ ctx[u].esp - 1 \in Ctx!StackOf(u)
         /\ ctx[u].esp \in Int
<1>1. /\ Stk[u] \in Nat /\ Size \in Nat /\ Base(u) \in Int
      /\ Base(u) <= Stk[u] + Size - 1 /\ ctx[u].esp \in Int
  BY StackIs, FlowTyped
<1>2. CASE Fresh(u)
  <2>1. u \in Stacked /\ u \in live /\ ctx[u].esp = Begin(u)
    BY <1>2 DEF Fresh, CtxTyped
  <2>2. Begin(u) \in Int /\ Begin(u) >= Stk[u] + 1 /\ Begin(u) + 2 <= Stk[u] + Size - 1
    BY <2>1, BeginIs
  <2>3. /\ Begin(u) - 1 \in Int /\ Stk[u] <= Begin(u) - 1 /\ Begin(u) - 1 <= Stk[u] + Size - 1
        /\ Stk[u] <= Begin(u) /\ Begin(u) <= Stk[u] + Size - 1
    BY <1>1, <2>2
  <2> QED BY <1>1, <2>1, <2>2, <2>3, StackIs
<1>3. CASE Saved(u)
  <2>1. ctx[u].esp = image[u].esp - 2 /\ image[u].esp - 3 >= Stk[u] /\ Frame(u)
    BY <1>3 DEF Saved, Called
  <2>2. image[u].esp - 2 \in Ctx!StackOf(u) /\ image[u].esp - 3 \in Ctx!StackOf(u)
    BY <2>1, FrameRoom
  <2>3. (image[u].esp - 2) - 1 = image[u].esp - 3
    BY FlowTyped
  <2> QED BY <1>1, <2>1, <2>2, <2>3
<1> QED BY <1>2, <1>3 DEF Suspended

(* setcontext() goes on with another flow where that one was.              *)
LEMMA ResumesKeeps ==
  ASSUME Ctx!ContextAssumption, StacksInv, NEW f \in Ctx!Flow, Ctx!setcontext(f)
  PROVE  StacksInv'
<1>0. PICK u, p, q : u = arg[2] /\ p = cpu.esp - 1 /\ q = ctx[u].esp - 1
  OBVIOUS
<1>1. /\ Ctx!On(f) /\ cpu.eip = Ctx!Gret /\ cpu.eax = 0
      /\ mem' = [[mem EXCEPT ![p] = Ctx!Sret] EXCEPT ![q] = ctx[u].eip]
      /\ cpu' = [esp |-> ctx[u].esp, eip |-> mem'[q], eax |-> ctx[u].eax, reg |-> ctx[u].reg]
      /\ ctx' = ctx /\ arg' = arg /\ self' = self /\ image' = image /\ live' = live
  BY <1>0 DEF Ctx!setcontext, Ctx!At, Ctx!Pushed
<1>2. /\ AtGet(f) /\ p \in Ctx!StackOf(f)
      /\ \A g \in Alive \ {f} : g \in Ctx!Flow /\ Suspended(g) /\ Kept(g)
  BY <1>0, <1>1, PlaceIs
<1>3. u \in Alive \ {f} /\ (f \in Alive => Saved(f) /\ cpu.esp = ctx[f].esp)
  BY <1>0, <1>2 DEF AtGet, Calling
<1>4. CtxTyped /\ u \in Ctx!Flow /\ u # f /\ Suspended(u) /\ Kept(u) /\ u \in Alive
  BY <1>2, <1>3 DEF StacksInv
<1>5. ctx[u].esp \in Ctx!StackOf(u) /\ q \in Ctx!StackOf(u) /\ ctx[u].esp \in Int
  BY <1>0, <1>4, ResumesAt
<1>6. ctx[u] \in Cpu /\ ctx[u].eip \in Int /\ ctx[u].eax \in Int /\ ctx[u].reg \in [Reg -> Val]
  BY <1>4 DEF CtxTyped, Cpu
<1>7. /\ mem' \in [Memory -> Int] /\ mem'[q] = ctx[u].eip
      /\ \A x \in Memory : x # p /\ x # q => mem'[x] = mem[x]
  <2>1. p \in Memory /\ q \in Memory /\ mem \in [Memory -> Int] /\ Ctx!Sret \in Int
    BY <1>2, <1>4, <1>5, StackIs DEF CtxTyped, Ctx!Sret
  <2> QED BY <1>1, <1>6, <2>1
<1>8. /\ cpu'.esp = ctx[u].esp /\ cpu'.eip = ctx[u].eip /\ cpu'.eax = ctx[u].eax
      /\ cpu'.reg = ctx[u].reg /\ cpu' \in Cpu
  BY <1>1, <1>5, <1>6, <1>7 DEF Cpu
<1>9. CtxTyped'
  BY <1>1, <1>4, <1>7, <1>8 DEF CtxTyped
<1>10. Alive' = Alive
  BY <1>1 DEF Alive
<1>11. ASSUME NEW g \in Ctx!Flow \ {f, u}, NEW x \in Ctx!StackOf(g) PROVE mem'[x] = mem[x]
  <2>1. x \in Memory /\ x \notin Ctx!StackOf(f) /\ x \notin Ctx!StackOf(u)
    BY <1>4, StackIs
  <2> QED BY <1>2, <1>5, <1>7, <2>1
<1>12. ASSUME NEW g \in Alive \ {f, u} PROVE Suspended(g)' /\ Kept(g)'
  <2>1. g \in Ctx!Flow /\ Suspended(g) /\ Kept(g)
    BY <1>2
  <2>2. \A x \in Ctx!StackOf(g) : mem'[x] = mem[x]
    BY <1>11, <2>1
  <2> QED BY <1>1, <1>4, <2>1, <2>2, OthersStay
<1>13. ASSUME f \in Alive PROVE Suspended(f)' /\ Kept(f)'
  <2>1. Saved(f) /\ Called(f) /\ Frame(f) /\ Kept(f) /\ p = ctx[f].esp - 1
    BY <1>0, <1>3, <1>13 DEF Saved, Called, StacksInv
  <2>2. ctx[f].esp = image[f].esp - 2 /\ image[f].esp \in Int
    BY <1>4, <2>1, FlowTyped DEF Saved
  <2>3. p = image[f].esp - 3
    BY <2>1, <2>2
  <2>4. \A x \in Ctx!StackOf(f) : x >= image[f].esp - 1 => mem'[x] = mem[x]
    <3> SUFFICES ASSUME NEW x \in Ctx!StackOf(f), x >= image[f].esp - 1
                 PROVE  x \in Memory /\ x # p /\ x # q
      BY <1>7
    <3>1. x \in Int /\ x \in Memory /\ x \notin Ctx!StackOf(u)
      BY <1>4, StackIs
    <3> QED BY <1>5, <2>2, <2>3, <3>1
  <2>5. image[f].esp - 1 \in Ctx!StackOf(f)
    BY <1>4, <2>1, FrameRoom
  <2>6. mem'[image[f].esp - 1] = mem[image[f].esp - 1]
    <3>1. image[f].esp - 1 >= image[f].esp - 1
      BY <2>2
    <3> QED BY <2>4, <2>5, <3>1
  <2>7. Saved(f)'
    BY <1>1, <2>1, <2>6 DEF Saved, Called, Frame
  <2>8. Kept(f)'
    <3>1. \A x \in Ctx!StackOf(f) : x >= image[f].esp => mem'[x] = mem[x]
      <4> SUFFICES ASSUME NEW x \in Ctx!StackOf(f), x >= image[f].esp
                   PROVE  x >= image[f].esp - 1
        BY <2>4
      <4>1. x \in Int
        BY StackIs
      <4> QED BY <2>2, <4>1
    <3> QED BY <1>1, <1>4, <2>1, <3>1, KeptStays
  <2> QED BY <2>7, <2>8 DEF Suspended
<1>14. \A x \in Ctx!StackOf(u) : x # q => mem'[x] = mem[x]
  <2> SUFFICES ASSUME NEW x \in Ctx!StackOf(u), x # q PROVE x \in Memory /\ x # p
    BY <1>7
  <2> QED BY <1>2, <1>4, StackIs
<1>15. Kept(u)' /\ (AtStart(u) \/ AtBack(u))'
  <2>1. CASE Fresh(u)
    <3>1. u \in Stacked /\ ctx[u].esp = Begin(u) /\ ctx[u].eip = Ctx!TaskStart
      BY <1>4, <2>1 DEF Fresh, CtxTyped
    <3>2. /\ Begin(u) \in Int /\ Stk[u] \in Nat /\ Size \in Nat
          /\ Begin(u) >= Stk[u] + 1 /\ Begin(u) + 2 <= Stk[u] + Size - 1
      BY <1>4, <3>1, BeginIs, StackIs
    <3>3. q = Begin(u) - 1
      BY <1>0, <3>1
    <3>4. /\ Begin(u) \in Ctx!StackOf(u) /\ Begin(u) + 1 \in Ctx!StackOf(u)
          /\ Begin(u) + 2 \in Ctx!StackOf(u)
      BY <1>4, <3>2, StackIs
    <3>5. Begin(u) # q /\ Begin(u) + 1 # q /\ Begin(u) + 2 # q
      BY <3>2, <3>3
    <3>6. Fresh(u)'
      <4>1. /\ mem'[Begin(u)] = mem[Begin(u)] /\ mem'[Begin(u) + 1] = mem[Begin(u) + 1]
            /\ mem'[Begin(u) + 2] = mem[Begin(u) + 2]
        BY <1>14, <3>4, <3>5
      <4> QED BY <1>1, <2>1, <4>1 DEF Fresh
    <3>7. Kept(u)'
      BY <3>6 DEF Fresh, Kept
    <3> QED BY <1>8, <3>1, <3>6, <3>7 DEF AtStart
  <2>2. CASE Saved(u)
    <3>1. /\ Called(u) /\ Frame(u) /\ ctx[u].esp = image[u].esp - 2
          /\ ctx[u].eip = Ctx!Gret /\ ctx[u].eax = 1 /\ image[u].esp - 3 >= Stk[u]
      BY <2>2 DEF Saved, Called
    <3>2. image[u].esp \in Int /\ q = image[u].esp - 3
      <4>1. image[u].esp \in Int
        BY <1>4, FlowTyped
      <4> QED BY <1>0, <3>1, <4>1
    <3>3. \A x \in Ctx!StackOf(u) : x >= image[u].esp => mem'[x] = mem[x]
      <4> SUFFICES ASSUME NEW x \in Ctx!StackOf(u), x >= image[u].esp PROVE x # q
        BY <1>14
      <4>1. x \in Int
        BY <1>4, StackIs
      <4> QED BY <3>2, <4>1
    <3>4. Kept(u)'
      BY <1>1, <1>4, <3>1, <3>3, KeptStays
    <3>5. image[u].esp - 1 \in Ctx!StackOf(u) /\ image[u].esp - 1 # q
      BY <1>4, <3>1, <3>2, FrameRoom
    <3>6. Saved(u)'
      BY <1>1, <1>14, <2>2, <3>5 DEF Saved, Called, Frame
    <3> QED BY <1>1, <1>4, <1>8, <1>10, <3>1, <3>4, <3>6 DEF AtBack
  <2> QED BY <1>4, <2>1, <2>2 DEF Suspended
<1>16. Running(u)'
  <2>1. cpu'.esp - 1 = q
    BY <1>0, <1>8
  <2> QED BY <1>5, <1>8, <1>15, <2>1 DEF Running
<1>17. OneRuns'
  <2>1. \A g \in Alive' \ {u} : Suspended(g)'
    BY <1>10, <1>12, <1>13
  <2> QED BY <1>4, <1>16, <2>1 DEF OneRuns
<1>18. \A g \in Alive' : Kept(g)'
  BY <1>10, <1>12, <1>13, <1>15
<1> QED BY <1>1, <1>9, <1>17, <1>18 DEF StacksInv

(* swapcontext() returns to whom it was called by.                         *)
LEMMA ReturnsKeeps ==
  ASSUME Ctx!ContextAssumption, StacksInv, NEW f \in Ctx!Flow, Ctx!swapcontextReturns(f)
  PROVE  StacksInv'
<1> DEFINE E == image[f].esp
<1>1. /\ Ctx!On(f) /\ cpu.eip = Ctx!Gret /\ cpu.eax = 1
      /\ cpu' = [cpu EXCEPT !.esp = cpu.esp + 2, !.eip = mem[cpu.esp + 1], !.eax = 0]
      /\ mem' = mem /\ ctx' = ctx /\ arg' = arg /\ self' = self /\ image' = image
      /\ live' = live
  BY DEF Ctx!swapcontextReturns, Ctx!At
<1>2. AtBack(f) /\ \A g \in Alive \ {f} : Suspended(g)
  BY <1>1, PlaceIs
<1>3. /\ f \in Alive /\ Saved(f) /\ Called(f) /\ Frame(f)
      /\ cpu.esp = E - 2 /\ cpu.reg = image[f].reg
      /\ mem[E - 1] = Ctx!User /\ E - 3 >= Stk[f]
  BY <1>2 DEF AtBack, Saved, Called
<1>4. CtxTyped /\ cpu \in Cpu /\ E \in Int /\ Len(image[f].words) \in Nat
  BY FlowTyped DEF StacksInv, CtxTyped
<1>5. cpu.esp + 2 = E /\ cpu.esp + 1 = E - 1
  <2> PICK e \in Int : e = E
    BY <1>4
  <2>1. (e - 2) + 2 = e /\ (e - 2) + 1 = e - 1
    OBVIOUS
  <2> QED BY <1>3, <2>1
<1>6. /\ cpu' \in Cpu /\ cpu'.esp = E /\ cpu'.eip = Ctx!User /\ cpu'.reg = image[f].reg
  <2>1. cpu' = [cpu EXCEPT !.esp = E, !.eip = Ctx!User, !.eax = 0]
    BY <1>1, <1>3, <1>5
  <2>2. Ctx!User \in Int /\ 0 \in Int
    BY DEF Ctx!User
  <2> PICK e \in Int : e = E
    BY <1>4
  <2>3. cpu' \in Cpu
    <3>1. cpu \in Cpu /\ cpu' = [cpu EXCEPT !.esp = e, !.eip = Ctx!User, !.eax = 0]
      BY <1>4, <2>1
    <3> QED BY <2>2, <3>1, CpuMoves
  <2> QED BY <1>3, <1>4, <2>1, <2>3 DEF Cpu
<1>7. CtxTyped' /\ Alive' = Alive
  BY <1>1, <1>4, <1>6 DEF CtxTyped, Alive
<1>8. E \in Ctx!StackOf(f) /\ E - 1 \in Ctx!StackOf(f)
  BY <1>3, <1>4, FrameRoom
<1>9. Running(f)'
  <2>1. AtUser(f)'
    BY <1>1, <1>3, <1>6, <1>7 DEF AtUser, Frame
  <2> QED BY <1>6, <1>8, <2>1 DEF Running
<1>10. \A g \in Alive \ {f} : Suspended(g)'
  BY <1>1, <1>2 DEF Suspended, Fresh, Saved, Called, Frame
<1>11. OneRuns'
  BY <1>7, <1>9, <1>10 DEF OneRuns
<1>12. \A g \in Alive' : Kept(g)'
  BY <1>1, <1>7 DEF Kept, StacksInv
<1> QED BY <1>1, <1>7, <1>11, <1>12 DEF StacksInv

(* A step that changes neither memory nor registers.                       *)
LEMMA NothingKeeps ==
  ASSUME StacksInv, UNCHANGED <<mem, cpu, ctx, arg, self, image, live>>
  PROVE  StacksInv'
<1>1. /\ mem' = mem /\ cpu' = cpu /\ ctx' = ctx /\ arg' = arg /\ self' = self
      /\ image' = image /\ live' = live
  OBVIOUS
<1>2. CtxTyped' /\ Alive' = Alive
  BY <1>1 DEF StacksInv, CtxTyped, Alive
<1>3. \A g : Suspended(g)' <=> Suspended(g)
  BY <1>1 DEF Suspended, Fresh, Saved, Called, Frame
<1>4. \A g : Running(g)' <=> Running(g)
  BY <1>1, <1>2 DEF Running, AtUser, AtStart, AtSwap, AtGet, AtBack, Calling, Fresh,
                    Saved, Called, Frame
<1>5. OneRuns'
  BY <1>2, <1>3, <1>4 DEF StacksInv, OneRuns
<1>6. \A g \in Alive' : Kept(g)'
  BY <1>1, <1>2 DEF StacksInv, Kept
<1> QED BY <1>1, <1>2, <1>5, <1>6 DEF StacksInv

(* The scheduler is at its beginning, there are no tasks.                  *)
LEMMA StacksInit ==
  ASSUME Ctx!ContextAssumption, Ctx!Init
  PROVE  StacksInv
<1>1. /\ mem = [x \in Memory |-> 0]
      /\ cpu = [esp |-> Ctx!Top(Sched), eip |-> Ctx!User, eax |-> 0, reg |-> Ctx!Regs(0)]
      /\ ctx = [f \in Ctx!Flow |-> Ctx!NoContext]
      /\ self = [t \in Stacked |-> 0] /\ live = {}
      /\ image = [f \in Ctx!Flow |-> IF f = Sched
                                    THEN [Ctx!NoImage EXCEPT !.esp = Ctx!Top(f)]
                                    ELSE Ctx!NoImage]
  BY DEF Ctx!Init, Memory
<1>2. Sched \in Ctx!Flow /\ Sched \notin Stacked
  BY DEF Ctx!Flow, Ctx!ContextAssumption
<1>3. /\ Stk[Sched] \in Nat /\ Size \in Nat /\ MaxWork \in Nat /\ MaxWork + 4 <= Size
      /\ Ctx!Top(Sched) = Stk[Sched] + Size - 1
  BY <1>2, StackIs DEF Ctx!Top, Ctx!ContextAssumption
<1>4. Ctx!Regs(0) \in [Reg -> Val] /\ <<>> \in Seq(Val)
  BY DEF Ctx!Regs, Ctx!ContextAssumption
<1>5. /\ Ctx!NoImage = [esp |-> 0, reg |-> Ctx!Regs(0), words |-> <<>>]
      /\ image[Sched] = [esp |-> Ctx!Top(Sched), reg |-> Ctx!Regs(0), words |-> <<>>]
  BY <1>1, <1>2 DEF Ctx!NoImage
<1>6. CtxTyped
  <2>1. mem \in [Memory -> Int] /\ self \in [Stacked -> Int] /\ live \subseteq Stacked
    BY <1>1
  <2>2. cpu \in Cpu
    BY <1>1, <1>3, <1>4 DEF Cpu, Ctx!User
  <2>3. ctx \in [Ctx!Flow -> Cpu]
    BY <1>1, <1>4 DEF Cpu, Ctx!NoContext
  <2>4. image \in [Ctx!Flow -> [esp : Int, reg : [Reg -> Val], words : Seq(Val)]]
    <3>1. Ctx!NoImage \in [esp : Int, reg : [Reg -> Val], words : Seq(Val)]
      BY <1>4, <1>5
    <3>2. [esp |-> Ctx!Top(Sched), reg |-> Ctx!Regs(0), words |-> <<>>]
               \in [esp : Int, reg : [Reg -> Val], words : Seq(Val)]
      BY <1>3, <1>4
    <3>3. [Ctx!NoImage EXCEPT !.esp = Ctx!Top(Sched)]
            = [esp |-> Ctx!Top(Sched), reg |-> Ctx!Regs(0), words |-> <<>>]
      BY <1>5
    <3> QED BY <1>1, <3>1, <3>2, <3>3
  <2> QED BY <2>1, <2>2, <2>3, <2>4 DEF CtxTyped
<1>7. Alive = {Sched}
  BY <1>1 DEF Alive
<1>8. Frame(Sched) /\ Kept(Sched)
  <2>1. Len(<<>>) = 0 /\ DOMAIN <<>> = {}
    OBVIOUS
  <2>2. Ctx!Top(Sched) + 0 = Ctx!Top(Sched) /\ Ctx!Top(Sched) > Stk[Sched] /\ 0 <= MaxWork
    BY <1>3
  <2> QED BY <1>5, <2>1, <2>2 DEF Frame, Base, Kept
<1>9. Running(Sched)
  <2>1. Ctx!Top(Sched) \in Ctx!StackOf(Sched) /\ Ctx!Top(Sched) - 1 \in Ctx!StackOf(Sched)
    BY <1>2, <1>3, StackIs
  <2> QED BY <1>1, <1>5, <1>7, <1>8, <2>1 DEF Running, AtUser
<1>10. OneRuns
  BY <1>2, <1>7, <1>9 DEF OneRuns
<1>11. \A t \in Stacked : image[t].words = <<>>
  BY <1>1, <1>2, <1>5 DEF Ctx!Flow
<1> QED BY <1>1, <1>6, <1>7, <1>8, <1>10, <1>11 DEF StacksInv

(* What SwitchInv says follows.                                            *)
LEMMA StacksImply ==
  ASSUME Ctx!ContextAssumption, StacksInv
  PROVE  Ctx!SwitchInv
<1>1. PICK f \in Ctx!Flow : Running(f)
  BY DEF StacksInv, OneRuns
<1>2. Ctx!On(f)
  BY <1>1 DEF Running, Ctx!On
<1>3. Ctx!NeverReached
  BY <1>2, PlaceIs DEF Ctx!NeverReached
<1>4. Ctx!IntactInv
  <2>1. ASSUME NEW g \in Ctx!Flow, Ctx!At(g, Ctx!User)
        PROVE  cpu.esp = image[g].esp /\ cpu.reg = image[g].reg
    BY <2>1, UserIs DEF AtUser
  <2>2. \A g \in live \cup {Sched} : Kept(g)
    BY DEF StacksInv, Alive
  <2> QED BY <2>1, <2>2 DEF Ctx!IntactInv, Kept
<1>5. Ctx!RoomInv
  <2>1. f \in live \cup {Sched, arg[1]}
    BY <1>1 DEF Running, AtUser, AtStart, AtSwap, AtGet, AtBack, Calling, Fresh, Alive
  <2> QED BY <1>1, <2>1 DEF Ctx!RoomInv, Running
<1>6. Ctx!StartInv
  <2>1. ASSUME NEW t \in Stacked, Ctx!At(t, Ctx!TaskStart)
        PROVE  (cpu.esp + 1) % Align = 0 /\ mem[cpu.esp] = 0
    <3>1. t \in Ctx!Flow /\ Ctx!On(t) /\ cpu.eip = Ctx!TaskStart
      BY <2>1 DEF Ctx!Flow, Ctx!At
    <3>2. AtStart(t)
      BY <3>1, PlaceIs
    <3>3. cpu.esp = Begin(t) /\ mem[Begin(t)] = 0
      BY <3>2 DEF AtStart, Fresh
    <3> QED BY <3>3, BeginIs
  <2> QED BY <2>1 DEF Ctx!StartInv, StacksInv
<1> QED BY <1>3, <1>4, <1>5, <1>6 DEF Ctx!SwitchInv

(* Whatever tasks are created, switched to and exit, with any stacks that  *)
(* malloc() may give and any code that keeps within its stack: what a flow *)
(* has on its stack and in its registers is what it left there, and        *)
(* nothing outside the stacks is written.                                  *)
THEOREM SwitchKeepsStacks ==
  ASSUME Ctx!ContextAssumption
  PROVE  Ctx!Spec => []SwitchInv
<1>1. Ctx!Init => StacksInv
  BY StacksInit
<1>2. StacksInv /\ [Ctx!Next]_(Ctx!vars) => StacksInv'
  <2> SUFFICES ASSUME StacksInv, [Ctx!Next]_(Ctx!vars) PROVE StacksInv'
    OBVIOUS
  <2>1. ASSUME NEW f \in Ctx!Flow, NEW t \in Stacked, Ctx!Creates(f, t) PROVE StacksInv'
    BY <2>1, CreatesKeeps
  <2>2. ASSUME NEW f \in Ctx!Flow, NEW v \in Val, Ctx!Works(f, v) PROVE StacksInv'
    BY <2>2, WorksKeeps
  <2>3. ASSUME NEW f \in Ctx!Flow, Ctx!Overflow(f) PROVE StacksInv'
    BY <2>3, NothingKeeps DEF Ctx!Overflow
  <2>4. ASSUME NEW f \in Ctx!Flow,
               Ctx!getcontext(f) \/ Ctx!setcontext(f) \/ Ctx!swapcontextReturns(f)
        PROVE  StacksInv'
    BY <2>4, SavesKeeps, ResumesKeeps, ReturnsKeeps
  <2>5. ASSUME NEW t \in Stacked, Ctx!Starts(t) PROVE StacksInv'
    BY <2>5, StartsKeeps
  <2>6. ASSUME NEW t \in Stacked, t \in live, Ctx!Switches(Sched, t, FALSE)
        PROVE  StacksInv'
    <3>1. Sched \in Ctx!Flow /\ t \in Alive \ {Sched}
      BY <2>6 DEF Alive, Ctx!Flow, Ctx!ContextAssumption
    <3> QED BY <2>6, <3>1, SwitchesKeeps
  <2>7. ASSUME NEW t \in Stacked, NEW exits \in BOOLEAN, Ctx!Switches(t, Sched, exits)
        PROVE  StacksInv'
    <3>1. t \in Ctx!Flow /\ Sched \in Alive \ {t}
      BY DEF Alive, Ctx!Flow, Ctx!ContextAssumption
    <3> QED BY <2>7, <3>1, SwitchesKeeps
  <2>8. CASE UNCHANGED Ctx!vars
    BY <2>8, NothingKeeps DEF Ctx!vars
  <2> QED BY <2>1, <2>2, <2>3, <2>4, <2>5, <2>6, <2>7, <2>8 DEF Ctx!Next
<1>3. StacksInv => SwitchInv
  BY StacksImply DEF SwitchInv
<1> QED BY <1>1, <1>2, <1>3, PTL DEF Ctx!Spec
-----------------------------------------------------------------------------
(* Addresses *)

Bytes == 0..(ByteSize - 1)

(* What comes after a fourth part is not looked at.                        *)
PartsTaken == IF Len(name) < 4 THEN Len(name) ELSE 4

(* While the parts are read, the bytes so far are the parts so far.        *)
PartsInv ==
  /\ name \in Names /\ taken \in 0..4 /\ taken <= Len(name)
  /\ addr \in [1..4 -> Bytes]
  /\ \A k \in 1..taken :
       name[k].x \in Bytes /\ name[k].stop \in {"dot", "end"} /\ addr[k] = name[k].x

IPInv == (result = "none" => PartsInv) /\ AddressInv

(* Two bits more or less: the class of a byte.                             *)
LEMMA ClassOfByte ==
  ASSUME NEW b \in Nat \ {0}, b % 4 = 0, NEW x \in 0..(b - 1)
  PROVE  x \div (b \div 4) \in 0..3
<1> DEFINE q == b \div 4
<1>1. q \in Nat /\ b = 4 * q
  OBVIOUS
<1>2. q > 0
  BY <1>1
<1> HIDE DEF q
<1>3. x < 4 * q /\ x \in Nat
  BY <1>1
<1>4. x \div q \in Int /\ x \div q >= 0 /\ x \div q < 4
  BY <1>2, <1>3, <1>1
<1> QED
  BY <1>4 DEF q

(* The records of a name.                                                  *)
LEMMA NameIs ==
  ASSUME Parse!ParseAssumption, NEW s \in Names
  PROVE  /\ Len(s) \in Nat /\ DOMAIN s = 1..Len(s)
         /\ \A k \in 1..Len(s) : s[k].x \in Int /\ s[k].stop \in {"dot", "end", "other"}
<1>1. s \in Seq([x : Int, stop : {"dot", "end", "other"}])
  BY DEF Parse!ParseAssumption
<1>2. Len(s) \in Nat /\ DOMAIN s = 1..Len(s)
  BY <1>1, LenProperties
<1>3. \A k \in 1..Len(s) : s[k] \in [x : Int, stop : {"dot", "end", "other"}]
  BY <1>1, ElementOfSeq
<1> QED
  BY <1>2, <1>3

LEMMA TextIs ==
  ASSUME Parse!ParseAssumption, name \in Names
  PROVE  /\ Parse!Parts \in Seq(Int) /\ Len(Parse!Parts) = PartsTaken
         /\ DOMAIN Parse!Parts = 1..PartsTaken
         /\ \A k \in 1..PartsTaken : Parse!Parts[k] = name[k].x
         /\ PartsTaken \in 0..4 /\ PartsTaken <= Len(name)
         /\ Parse!Parts = <<>> <=> PartsTaken = 0
<1>0. Len(name) \in Nat
  BY NameIs
<1>1. PartsTaken \in 0..4 /\ PartsTaken <= Len(name)
  <2>1. PICK n \in Nat : n = Len(name)
    BY <1>0
  <2>2. CASE n < 4
    BY <2>1, <2>2 DEF PartsTaken
  <2>3. CASE ~(n < 4)
    <3>1. PartsTaken = 4
      BY <2>1, <2>3 DEF PartsTaken
    <3> QED
      BY <2>1, <2>3, <3>1
  <2> QED
    BY <2>2, <2>3
<1>2. Parse!Parts = [k \in 1..PartsTaken |-> name[k].x]
  BY DEF Parse!Parts, PartsTaken
<1>3. Parse!Parts \in [1..PartsTaken -> Int]
  BY <1>1, <1>2, NameIs
<1>4. Parse!Parts \in Seq(Int) /\ Len(Parse!Parts) = PartsTaken
  BY <1>1, <1>3, FunctionIsQueue
<1>5. \A k \in 1..PartsTaken : Parse!Parts[k] = name[k].x
  BY <1>2
<1>6. Parse!Parts = <<>> <=> PartsTaken = 0
  BY <1>4, EmptySeq
<1> QED
  BY <1>1, <1>3, <1>4, <1>5, <1>6

(* A turn of the loop that takes a part.                                   *)
LEMMA PartTakes ==
  ASSUME Parse!ParseAssumption, PartsInv, Parse!Part, result' = "none"
  PROVE  PartsInv'
<1>1. name \in Names /\ taken \in 0..4 /\ taken < 4 /\ taken < Len(name) /\ Len(name) \in Nat
  BY NameIs DEF PartsInv, Parse!Part, Parse!Reading
<1>0. PICK j : j = taken + 1
  OBVIOUS
<1>2. /\ name[j].x \in Bytes /\ name[j].stop \in {"dot", "end"}
      /\ addr' = [addr EXCEPT ![j] = name[j].x]
      /\ taken' = j /\ name' = name
  BY <1>0 DEF Parse!Part, Parse!Reading, Parse!Refuse, Bytes
<1>3. j \in 1..4 /\ j <= Len(name)
  BY <1>0, <1>1
<1>4. addr \in [1..4 -> Bytes]
  BY DEF PartsInv
<1>5. addr' \in [1..4 -> Bytes]
  BY <1>2, <1>3, <1>4
<1>6. ASSUME NEW k \in 1..j
      PROVE  name[k].x \in Bytes /\ name[k].stop \in {"dot", "end"} /\ addr'[k] = name[k].x
  <2>1. CASE k = j
    BY <2>1, <1>2, <1>3, <1>4
  <2>2. CASE k # j
    <3>1. k \in 1..taken /\ k \in 1..4
      BY <2>2, <1>0, <1>1
    <3>2. addr'[k] = addr[k]
      BY <3>1, <2>2, <1>2, <1>4
    <3> QED
      BY <3>1, <3>2 DEF PartsInv
  <2> QED
    BY <2>1, <2>2
<1>7. Bytes' = Bytes
  BY DEF Bytes
<1> QED
  BY <1>1, <1>2, <1>3, <1>5, <1>6, <1>7 DEF PartsInv

(* A turn that refuses: the part that stops the reading stands in the      *)
(* first four.                                                             *)
LEMMA PartRefuses ==
  ASSUME Parse!ParseAssumption, PartsInv, Parse!Part, result' # "none"
  PROVE  AddressInv'
<1>1. name \in Names /\ taken \in 0..4 /\ taken < 4 /\ taken < Len(name) /\ Len(name) \in Nat
  BY NameIs DEF PartsInv, Parse!Part, Parse!Reading
<1>0. PICK j : j = taken + 1
  OBVIOUS
<1>2. /\ ~(name[j].x \in Bytes /\ name[j].stop \in {"dot", "end"})
      /\ result' = "refused" /\ name' = name
  BY <1>0 DEF Parse!Part, Parse!Reading, Parse!Refuse, Bytes
<1>3. j \in 1..PartsTaken /\ j \in 1..Len(name)
  BY <1>0, <1>1 DEF PartsTaken
<1>4. Parse!Parts' = Parse!Parts
  BY <1>2 DEF Parse!Parts
<1>5. ~Parse!WellFormed(Parse!Parts)
  <2>1. j \in DOMAIN Parse!Parts /\ Parse!Parts[j] = name[j].x
    BY <1>1, <1>3, TextIs
  <2>2. name[j].stop \in {"dot", "end", "other"}
    BY <1>1, <1>3, NameIs
  <2> QED
    BY <2>1, <2>2, <1>2 DEF Parse!WellFormed, Bytes
<1>6. ~(Parse!WellFormed(Parse!Parts))'
  BY <1>2, <1>4, <1>5 DEF Parse!WellFormed, Parse!NetBytes, Parse!CLASS
<1> QED
  BY <1>2, <1>6 DEF AddressInv, Parse!AddressInv

(* What the bytes are when parseip() answers: the text of the name was     *)
(* well formed as far as it was read.                                      *)
LEMMA ReadToTheEnd ==
  ASSUME Parse!ParseAssumption, PartsInv, ~(taken < 4 /\ taken < Len(name))
  PROVE  /\ taken = PartsTaken /\ taken \in 0..4
         /\ addr \in [1..4 -> Bytes]
         /\ \A k \in 1..taken : addr[k] = Parse!Parts[k]
         /\ \A k \in 1..taken : Parse!Parts[k] \in Bytes /\ name[k].stop # "other"
         /\ taken > 0 => /\ Parse!CLASS(addr) = Parse!CLASS(Parse!Parts)
                         /\ Parse!CLASS(addr) \in 0..3
<1>1. name \in Names /\ taken \in 0..4 /\ taken <= Len(name) /\ Len(name) \in Nat
  BY NameIs DEF PartsInv
<1>2. taken = PartsTaken
  BY <1>1 DEF PartsTaken
<1>3. \A k \in 1..taken : Parse!Parts[k] = name[k].x
  BY <1>1, <1>2, TextIs
<1>4. addr \in [1..4 -> Bytes]
  BY DEF PartsInv
<1>5. /\ \A k \in 1..taken : addr[k] = Parse!Parts[k]
      /\ \A k \in 1..taken : Parse!Parts[k] \in Bytes /\ name[k].stop # "other"
  BY <1>3 DEF PartsInv
<1>6. ASSUME taken > 0
      PROVE  /\ Parse!CLASS(addr) = Parse!CLASS(Parse!Parts)
             /\ Parse!CLASS(addr) \in 0..3
  <2>1. addr[1] = Parse!Parts[1] /\ addr[1] \in 0..(ByteSize - 1)
    BY <1>1, <1>4, <1>5, <1>6 DEF Bytes
  <2>2. ByteSize \in Nat \ {0} /\ ByteSize % 4 = 0
    BY DEF Parse!ParseAssumption
  <2>3. addr[1] \div (ByteSize \div 4) \in 0..3
    BY <2>1, <2>2, ClassOfByte
  <2> QED
    BY <2>1, <2>3 DEF Parse!CLASS
<1> QED
  BY <1>1, <1>2, <1>4, <1>5, <1>6

(* The switch on the class, in numbers: what Spread makes of the bytes s   *)
(* of a name of n parts.                                                   *)
Answered(s, n, c, b) ==
  \A k \in 1..4 :
    b[k] = LET net == Parse!NetBytes(c) IN
           IF k <= net THEN s[k]
           ELSE IF k > 4 - (n - net) THEN s[k - (4 - n)]
           ELSE 0

LEMMA SpreadIs ==
  ASSUME NEW B, NEW b \in [1..4 -> B], NEW s, NEW n \in 1..4, NEW c \in 0..3,
         \A k \in 1..n : b[k] = s[k], NEW r,
         c # 3 /\ n # 4 => n \in Parse!Short(c),
         n = 4 \/ c # 3,
         r = IF c # 3 /\ n # 4 THEN Parse!Spread(b, n, c) ELSE b
  PROVE  Answered(s, n, c, r) /\ DOMAIN r = 1..4 /\ n > Parse!NetBytes(c)
<1>0. Parse!NetBytes(c) = IF c \in {0, 1} THEN 1 ELSE IF c = 2 THEN 2 ELSE 3
  BY DEF Parse!NetBytes
<1>1. CASE n = 4
  <2>1. r = b /\ \A k \in 1..4 : b[k] = s[k]
    BY <1>1
  <2>2. 4 > Parse!NetBytes(c) /\ Parse!NetBytes(c) \in Nat
    BY <1>0
  <2>3. \A k \in 1..4 : k - (4 - n) = k /\ (k > Parse!NetBytes(c) => k > 4 - (n - Parse!NetBytes(c)))
    BY <1>1, <2>2
  <2>4. Answered(s, n, c, r)
    BY <2>1, <2>2, <2>3 DEF Answered
  <2> QED
    BY <1>1, <2>1, <2>2, <2>4
<1>2. CASE n # 4 /\ c = 2
  <2>1. n = 3 /\ r = [b EXCEPT ![4] = b[3], ![3] = 0]
    BY <1>2 DEF Parse!Short, Parse!Spread
  <2>2. r[1] = b[1] /\ r[2] = b[2] /\ r[3] = 0 /\ r[4] = b[3] /\ DOMAIN r = 1..4
    BY <2>1
  <2>3. b[1] = s[1] /\ b[2] = s[2] /\ b[3] = s[3]
    BY <2>1
  <2> QED
    BY <1>2, <1>0, <2>1, <2>2, <2>3 DEF Answered
<1>3. CASE n # 4 /\ c \in {0, 1} /\ n = 3
  <2>1. r = [b EXCEPT ![4] = b[3], ![3] = b[2], ![2] = 0]
    BY <1>3 DEF Parse!Short, Parse!Spread
  <2>2. r[1] = b[1] /\ r[2] = 0 /\ r[3] = b[2] /\ r[4] = b[3] /\ DOMAIN r = 1..4
    BY <2>1
  <2>3. b[1] = s[1] /\ b[2] = s[2] /\ b[3] = s[3]
    BY <1>3
  <2> QED
    BY <1>3, <1>0, <2>2, <2>3 DEF Answered
<1>4. CASE n # 4 /\ c \in {0, 1} /\ n # 3
  <2>1. n = 2 /\ r = [b EXCEPT ![4] = b[2], ![3] = 0, ![2] = 0]
    BY <1>4 DEF Parse!Short, Parse!Spread
  <2>2. r[1] = b[1] /\ r[2] = 0 /\ r[3] = 0 /\ r[4] = b[2] /\ DOMAIN r = 1..4
    BY <2>1
  <2>3. b[1] = s[1] /\ b[2] = s[2]
    BY <2>1
  <2> QED
    BY <1>4, <1>0, <2>1, <2>2, <2>3 DEF Answered
<1> QED
  BY <1>1, <1>2, <1>3, <1>4

(* The answer after the loop.                                              *)
LEMMA FinishAnswers ==
  ASSUME Parse!ParseAssumption, PartsInv, Parse!Finish
  PROVE  AddressInv'
<1>1. ~(taken < 4 /\ taken < Len(name)) /\ name' = name /\ name \in Names
  BY DEF Parse!Finish, Parse!Reading, Parse!Refuse, PartsInv
<1>0. PICK s, c : s = Parse!Parts /\ c = Parse!CLASS(addr)
  OBVIOUS
<1>2. /\ taken = PartsTaken /\ taken \in 0..4 /\ addr \in [1..4 -> Bytes]
      /\ \A k \in 1..taken : addr[k] = s[k]
      /\ \A k \in 1..taken : s[k] \in Bytes /\ name[k].stop # "other"
      /\ taken > 0 => c = Parse!CLASS(s) /\ c \in 0..3
  BY <1>0, <1>1, ReadToTheEnd
<1>3. Len(s) = taken /\ DOMAIN s = 1..taken /\ (s = <<>> <=> taken = 0)
  BY <1>0, <1>1, <1>2, TextIs
<1>4. Parse!Parts' = s
  BY <1>0, <1>1 DEF Parse!Parts
<1>5. Parse!WellFormed(s) <=> s # <<>> /\ taken > Parse!NetBytes(Parse!CLASS(s))
  BY <1>2, <1>3 DEF Parse!WellFormed, Bytes
<1>6. (Parse!WellFormed(Parse!Parts))' <=> Parse!WellFormed(s)
  BY <1>1, <1>4 DEF Parse!WellFormed, Parse!NetBytes, Parse!CLASS
<1>7. Parse!Specified' <=> taken = 4 \/ (s # <<>> /\ Parse!CLASS(s) # 3)
  BY <1>3, <1>4 DEF Parse!Specified, Parse!CLASS
<1>8. SUFFICES ASSUME Parse!Specified'
               PROVE  IF Parse!WellFormed(s) THEN result' = "ok" /\ addr' = Parse!Address(s)
                      ELSE result' = "refused"
  <2>1. (Parse!Address(Parse!Parts))' = Parse!Address(s)
    BY <1>4 DEF Parse!Address, Parse!NetBytes, Parse!CLASS
  <2> QED
    BY <1>4, <1>6, <2>1 DEF AddressInv, Parse!AddressInv
<1>9. taken \in 1..4 /\ c = Parse!CLASS(s) /\ c \in 0..3 /\ (taken = 4 \/ c # 3)
  BY <1>2, <1>3, <1>7, <1>8
<1>10. CASE c # 3 /\ taken # 4 /\ taken \notin Parse!Short(c)
  <2>1. result' = "refused"
    BY <1>10, <1>0 DEF Parse!Finish, Parse!Refuse
  <2>2. taken <= Parse!NetBytes(c)
    <3>1. c \in {0, 1, 2} /\ taken \in {1, 2, 3}
      BY <1>9, <1>10
    <3>2. CASE c = 2
      BY <3>1, <3>2, <1>10 DEF Parse!Short, Parse!NetBytes
    <3>3. CASE c # 2
      BY <3>1, <3>3, <1>10 DEF Parse!Short, Parse!NetBytes
    <3> QED
      BY <3>2, <3>3
  <2>3. ~Parse!WellFormed(s)
    <3>1. Parse!NetBytes(c) \in Nat
      BY <1>9 DEF Parse!NetBytes
    <3> QED
      BY <3>1, <2>2, <1>5, <1>9
  <2> QED
    BY <2>1, <2>3
<1>11. CASE c # 3 /\ taken # 4 => taken \in Parse!Short(c)
  <2>1. /\ result' = "ok"
        /\ addr' = IF c # 3 /\ taken # 4 THEN Parse!Spread(addr, taken, c) ELSE addr
    BY <1>11, <1>0 DEF Parse!Finish
  <2>0. PICK n, b, r : n = taken /\ b = addr /\ r = addr'
    OBVIOUS
  <2>2. Answered(s, n, c, r) /\ DOMAIN r = 1..4 /\ n > Parse!NetBytes(c)
    <3>1. /\ b \in [1..4 -> Bytes] /\ n \in 1..4 /\ c \in 0..3
          /\ \A k \in 1..n : b[k] = s[k]
          /\ c # 3 /\ n # 4 => n \in Parse!Short(c)
          /\ n = 4 \/ c # 3
      BY <1>2, <1>9, <1>11, <2>0
    <3>2. r = IF c # 3 /\ n # 4 THEN Parse!Spread(b, n, c) ELSE b
      BY <2>0, <2>1
    <3> QED
      BY <3>1, <3>2, SpreadIs
  <2>3. addr' = Parse!Address(s)
    <3>1. Parse!Address(s) = [k \in 1..4 |-> Parse!Address(s)[k]]
      BY DEF Parse!Address
    <3>2. \A k \in 1..4 : Parse!Address(s)[k] = r[k]
      BY <2>0, <2>2, <1>3, <1>9 DEF Parse!Address, Answered
    <3>3. r = [k \in 1..4 |-> r[k]]
      <4>1. CASE c # 3 /\ n # 4
        BY <4>1, <2>0, <2>1, <1>2 DEF Parse!Spread
      <4>2. CASE ~(c # 3 /\ n # 4)
        BY <4>2, <2>0, <2>1, <1>2
      <4> QED
        BY <4>1, <4>2
    <3> QED
      BY <3>1, <3>2, <3>3, <2>0
  <2>4. Parse!WellFormed(s)
    BY <1>5, <1>9, <1>3, <2>0, <2>2
  <2> QED
    BY <2>1, <2>3, <2>4
<1> QED
  BY <1>10, <1>11

(* parseip() agrees with the definition of an address, for bytes of any    *)
(* size and names of any length: class, number of parts and what the stack *)
(* held do not matter beyond it.                                           *)
THEOREM AddressCorrect ==
  ASSUME Parse!ParseAssumption
  PROVE  Parse!Spec => []AddressInv
<1>1. Parse!Init => IPInv
  <2> SUFFICES ASSUME Parse!Init PROVE IPInv
    OBVIOUS
  <2>1. name \in Names /\ Len(name) \in Nat /\ taken = 0 /\ result = "none"
    BY NameIs DEF Parse!Init
  <2>2. addr \in [1..4 -> Bytes]
    BY DEF Parse!Init, Parse!ParseAssumption, Bytes
  <2>3. PartsInv
    BY <2>1, <2>2 DEF PartsInv
  <2> QED
    BY <2>1, <2>3 DEF IPInv, AddressInv, Parse!AddressInv
<1>2. IPInv /\ [Parse!Next]_(Parse!vars) => IPInv'
  <2> SUFFICES ASSUME IPInv, [Parse!Next]_(Parse!vars) PROVE IPInv'
    OBVIOUS
  <2>1. CASE Parse!Part
    <3>1. PartsInv
      BY <2>1 DEF IPInv, Parse!Part, Parse!Reading
    <3>2. CASE result' = "none"
      BY <2>1, <3>1, <3>2, PartTakes DEF IPInv, AddressInv, Parse!AddressInv
    <3>3. CASE result' # "none"
      BY <2>1, <3>1, <3>3, PartRefuses DEF IPInv
    <3> QED
      BY <3>2, <3>3
  <2>2. CASE Parse!Finish
    <3>1. PartsInv
      BY <2>2 DEF IPInv, Parse!Finish
    <3>2. result' # "none"
      BY <2>2 DEF Parse!Finish, Parse!Refuse
    <3> QED
      BY <2>2, <3>1, <3>2, FinishAnswers DEF IPInv
  <2>3. CASE UNCHANGED Parse!vars
    BY <2>3 DEF IPInv, PartsInv, Bytes, AddressInv, Parse!AddressInv, Parse!Specified,
         Parse!WellFormed, Parse!Address, Parse!NetBytes, Parse!CLASS, Parse!Parts, Parse!vars
  <2> QED
    BY <2>1, <2>2, <2>3 DEF Parse!Next
<1>3. IPInv => AddressInv
  BY DEF IPInv
<1> QED
  BY <1>1, <1>2, <1>3, PTL DEF Parse!Spec

-----------------------------------------------------------------------------
(* Formatted output *)

Text == Seq(Char)

(* As long as nothing was dropped, what is in the buffer is the whole text. *)
BufferInv ==
  /\ fmt \in Seq(Output!Token) /\ size \in Nat \ {0}
  /\ out \in Text /\ full \in Text
  /\ Len(out) < size /\ (out = full \/ Len(out) = size - 1)

OutInv == BufferInv /\ Output!NumberInv

(* SubSeq() and Blanks() as used for a field.                              *)
LEMMA FieldPart ==
  ASSUME Output!PrintAssumption, NEW s \in Text, NEW l \in 0..Len(s), NEW n \in Nat
  PROVE  /\ SubSeq(s, 1, l) \in Text /\ Len(SubSeq(s, 1, l)) = l
         /\ l = Len(s) => SubSeq(s, 1, l) = s
         /\ Output!Blanks(n) \in Text /\ Len(Output!Blanks(n)) = n
<1>1. s \in Seq(Char) /\ Len(s) \in Nat
  BY DEF Text
<1>2. SubSeq(s, 1, l) \in Seq(Char) /\ Len(SubSeq(s, 1, l)) = l
  BY <1>1, SubSeqProperties
<1>3. ASSUME l = Len(s) PROVE SubSeq(s, 1, l) = s
  <2>1. SubSeq(s, 1, Len(s)) = s
    BY <1>1, SubSeqFull
  <2> QED BY <1>3, <2>1, Zenon
<1>4. Output!Blanks(n) \in [1..n -> Char]
  BY DEF Output!Blanks, Output!PrintAssumption, Output!Own
<1>5. Output!Blanks(n) \in Seq(Char) /\ Len(Output!Blanks(n)) = n
  BY <1>4, FunctionIsQueue
<1> QED BY <1>2, <1>3, <1>5 DEF Text

(* r is what of the field f goes into the room there is.                    *)
Fits(r, f, room) ==
  /\ r \in Text /\ f \in Text /\ Len(r) < room
  /\ r = f \/ Len(r) = room - 1

(* A field that fits is written whole, one that does not fills the buffer  *)
(* up to the terminator.                                                   *)
LEMMA PrintstrFits ==
  ASSUME Output!PrintAssumption, NEW s \in Text, NEW w \in Int, NEW room \in Nat, room > 1,
         NEW r, r = Output!printstr(s, w, room), NEW f, f = Output!Field(s, w)
  PROVE  Fits(r, f, room)
<1>0. PICK b, v : b = Len(s) /\ v = Output!Abs(w)
  OBVIOUS
<1>1. b \in Nat /\ v \in Nat
  <2>1. s \in Seq(Char)
    BY DEF Text
  <2>2. b \in Nat
    BY <1>0, <2>1, LenProperties
  <2> QED BY <1>0, <2>2 DEF Output!Abs
<1>2. PICK e \in Nat : e = Output!Larger(v - b, 0)
  BY <1>1 DEF Output!Larger
<1>3. f = IF w < 0 THEN s \o Output!Blanks(e) ELSE Output!Blanks(e) \o s
  BY <1>0, <1>2 DEF Output!Field
<1>4. /\ Output!Blanks(e) \in Seq(Char) /\ s \in Seq(Char)
  BY <1>0, <1>1, FieldPart DEF Text
<1>5. f \in Text
  BY <1>3, <1>4, ConcatProperties DEF Text
<1>a. PICK g \in Nat : g = Output!Larger(b, v)
  BY <1>1 DEF Output!Larger
<1>6. PICK n, l : /\ n = Output!Clip(g, room)
                  /\ l = Output!Smaller(b, n)
  OBVIOUS
<1>7. n \in Nat /\ n < room /\ l \in 0..b /\ l <= n
  <2>2. n \in Nat /\ n < room
    BY <1>6 DEF Output!Clip
  <2> QED BY <1>1, <1>6, <2>2 DEF Output!Smaller
<1>8. PICK h \in Nat : h = n - l
  BY <1>7
<1>9. r = IF w < 0 THEN SubSeq(s, 1, l) \o Output!Blanks(h)
          ELSE Output!Blanks(h) \o SubSeq(s, 1, l)
  BY <1>0, <1>a, <1>6, <1>8 DEF Output!printstr
<1>10. /\ SubSeq(s, 1, l) \in Seq(Char) /\ Len(SubSeq(s, 1, l)) = l
       /\ l = b => SubSeq(s, 1, l) = s
       /\ Output!Blanks(h) \in Seq(Char) /\ Len(Output!Blanks(h)) = h
  BY <1>0, <1>7, FieldPart DEF Text
<1>11. r \in Text /\ Len(r) = n
  <2>1. CASE w < 0
    <3>1. r \in Seq(Char) /\ Len(r) = l + h
      BY <1>9, <1>10, <2>1, ConcatProperties
    <3> QED BY <3>1, <1>7, <1>8 DEF Text
  <2>2. CASE ~(w < 0)
    <3>1. r \in Seq(Char) /\ Len(r) = h + l
      BY <1>9, <1>10, <2>2, ConcatProperties
    <3> QED BY <3>1, <1>7, <1>8 DEF Text
  <2> QED BY <2>1, <2>2
<1>12. CASE g < room
  <2>1. n = g
    BY <1>6, <1>12 DEF Output!Clip
  <2>2. l = b /\ h = e
    BY <2>1, <1>1, <1>2, <1>a, <1>6, <1>8 DEF Output!Larger, Output!Smaller
  <2>3. r = f
    BY <1>3, <1>9, <1>10, <2>2
  <2> QED BY <1>5, <1>7, <1>11, <2>3 DEF Fits
<1>13. CASE ~(g < room)
  <2>1. n = room - 1
    BY <1>6, <1>13 DEF Output!Clip
  <2> QED BY <1>5, <1>7, <1>11, <2>1 DEF Fits
<1> QED BY <1>12, <1>13

(* A directive that puts a field behind what is in the buffer.             *)
LEMMA FieldKeeps ==
  ASSUME Output!PrintAssumption, NEW o \in Text, NEW z \in Nat, Len(o) < z - 1, NEW s \in Text, NEW w \in Int,
         NEW o2, o2 = o \o Output!printstr(s, w, z - Len(o)),
         NEW f2, f2 = o \o Output!Field(s, w)
  PROVE  Fits(o2, f2, z)
<1>0. o \in Seq(Char)
  BY DEF Text
<1>a. Len(o) \in Nat
  BY <1>0, LenProperties
<1>1. PICK n \in Nat : n = Len(o)
  BY <1>a, Zenon
<1>2. PICK room \in Nat : room = z - n /\ room > 1
  <2>1. n < z - 1
    BY <1>1, Zenon
  <2>2. z - n \in Nat /\ z - n > 1
    BY <2>1
  <2> QED BY <2>2
<1>3. PICK r, f : r = Output!printstr(s, w, room) /\ f = Output!Field(s, w)
  OBVIOUS
<1>4. r \in Text /\ f \in Text /\ Len(r) < room /\ (r = f \/ Len(r) = room - 1)
  <2>1. Fits(r, f, room)
    BY <1>2, <1>3, PrintstrFits
  <2> QED BY <2>1 DEF Fits
<1>5. o2 = o \o r /\ f2 = o \o f
  BY <1>1, <1>2, <1>3
<1>6. o2 \in Text /\ f2 \in Text /\ Len(o2) = n + Len(r)
  BY <1>1, <1>4, <1>5, ConcatProperties DEF Text
<1>7. Len(r) \in Nat
  <2>1. r \in Seq(Char)
    BY <1>4 DEF Text
  <2> QED BY <2>1, LenProperties
<1>8. Len(o2) < z /\ (Len(r) = room - 1 => Len(o2) = z - 1)
  <2>1. PICK x \in Nat : x = Len(r)
    BY <1>7, Zenon
  <2>2. Len(o2) = n + x /\ x < room /\ (Len(r) = room - 1 => x = room - 1)
    BY <1>4, <1>6, <2>1, Zenon
  <2> QED BY <1>2, <2>2
<1> QED BY <1>4, <1>5, <1>6, <1>8 DEF Fits

(* What a number is printed with.                                          *)
Digit   == {Output!digits[k] : k \in 1..16}
Printed == Digit \cup {"-", "x"}

(* One more character c of a text that stands for n so far.                *)
More(n, c, base) ==
  IF c \in {"-", "x"} THEN n ELSE n * base + Output!DigitValue(c)

(* g[k] is the number that the first k characters of the text stand for.   *)
Reads(g, text, base) ==
  /\ g \in [0..Len(text) -> Int] /\ g[0] = 0
  /\ \A k \in 1..Len(text) : g[k] = More(g[k - 1], text[k], base)

(* The sixteen digits differ from one another, and from the other          *)
(* characters in a number.                                                 *)
LEMMA DigitsDiffer ==
  /\ \A j, k \in 1..16 : Output!digits[j] = Output!digits[k] => j = k
  /\ \A k \in 1..16 : Output!digits[k] \notin {"-", "x"}
<1>1. ASSUME NEW j \in 1..16, NEW k \in 1..16, Output!digits[j] = Output!digits[k]
      PROVE  j = k
  BY <1>1 DEF Output!digits
<1>2. \A k \in 1..16 : Output!digits[k] \notin {"-", "x"}
  BY DEF Output!digits
<1> QED BY <1>1, <1>2

LEMMA DigitStandsFor ==
  ASSUME NEW k \in 1..16, NEW c, c = Output!digits[k]
  PROVE  /\ Output!DigitValue(c) = k - 1
         /\ c \in Digit /\ c \in Printed /\ c \notin {"-", "x"}
<1>1. c \in Digit /\ c \in Printed /\ c \notin {"-", "x"}
  BY DigitsDiffer DEF Digit, Printed
<1>2. PICK j : j = CHOOSE h \in 1..16 : Output!digits[h] = c
  OBVIOUS
<1>3. j \in 1..16 /\ Output!digits[j] = c
  BY <1>2
<1>4. j = k
  BY <1>3, DigitsDiffer
<1> QED BY <1>1, <1>2, <1>4 DEF Output!DigitValue

LEMMA MoreIs ==
  ASSUME NEW n \in Int, NEW c \in Printed, NEW base \in Nat
  PROVE  More(n, c, base) \in Int
<1>1. CASE c \in {"-", "x"}
  BY <1>1 DEF More
<1>2. CASE c \notin {"-", "x"}
  <2>1. PICK k \in 1..16 : c = Output!digits[k]
    BY <1>2 DEF Printed, Digit
  <2>2. PICK d : d = Output!DigitValue(c)
    OBVIOUS
  <2>3. d \in Int
    BY <2>1, <2>2, DigitStandsFor
  <2> QED BY <1>2, <2>2, <2>3 DEF More
<1> QED BY <1>1, <1>2

(* The same, with no word on what h[k] is.                                 *)
Follows(h, n, text, base) ==
  /\ h = [k \in 0..n |-> h[k]] /\ h[0] = 0
  /\ \A k \in 1..n : h[k] = More(h[k - 1], text[k], base)

(* There is one way to read a text.                                        *)
LEMMA ReadsOnce ==
  ASSUME NEW text \in Seq(Printed), NEW base \in Nat,
         NEW g, Reads(g, text, base), NEW n, n = Len(text),
         NEW h, Follows(h, n, text, base)
  PROVE  h = g
<1>1. n \in Nat
  BY LenProperties
<1>2. /\ g \in [0..n -> Int] /\ g[0] = 0
      /\ \A k \in 1..n : g[k] = More(g[k - 1], text[k], base)
      /\ h[0] = 0 /\ \A k \in 1..n : h[k] = More(h[k - 1], text[k], base)
  BY <1>1 DEF Reads, Follows
<1> DEFINE K == {k \in 0..n : g[k] = h[k]}
<1>3. 0 \in K
  BY <1>1, <1>2
<1>4. ASSUME NEW k \in 1..n, k - 1 \in K PROVE k \in K
  <2>1. g[k - 1] = h[k - 1]
    BY <1>4
  <2>2. g[k] = h[k]
    BY <1>2, <2>1
  <2> QED BY <2>2
<1>5. \A k \in 0..n : k \in K
  <2> HIDE DEF K
  <2> QED BY <1>1, <1>3, <1>4, CountingUp
<1>6. g = [k \in 0..n |-> g[k]] /\ h = [k \in 0..n |-> h[k]]
  BY <1>2 DEF Follows
<1> QED BY <1>5, <1>6

(* The value of a text is what is read at its end.                         *)
LEMMA ValueIsRead ==
  ASSUME NEW text \in Seq(Printed), NEW base \in Nat, NEW g, Reads(g, text, base),
         NEW n, n = Len(text)
  PROVE  Output!Value(text, base) = g[n]
<1> DEFINE Step(f) == [k \in 0..Len(text) |->
              IF k = 0 THEN 0
              ELSE IF text[k] \in {"-", "x"} THEN f[k - 1]
              ELSE f[k - 1] * base + Output!DigitValue(text[k])]
<1>0. n \in Nat
  BY LenProperties
<1>1. Step(g) = g
  <2>1. /\ g \in [0..n -> Int] /\ g[0] = 0
        /\ \A k \in 1..n : g[k] = More(g[k - 1], text[k], base)
    BY DEF Reads
  <2>2. ASSUME NEW k \in 0..n PROVE Step(g)[k] = g[k]
    <3>1. CASE k = 0
      BY <2>1, <3>1, <1>0
    <3>2. CASE k # 0
      <4>1. k \in 1..n /\ k \in 0..Len(text)
        BY <3>2, <1>0
      <4>2. g[k] = More(g[k - 1], text[k], base)
        BY <2>1, <4>1
      <4>3. Step(g)[k] = IF text[k] \in {"-", "x"} THEN g[k - 1]
                         ELSE g[k - 1] * base + Output!DigitValue(text[k])
        BY <3>2, <4>1
      <4> QED BY <4>2, <4>3 DEF More
    <3> QED BY <3>1, <3>2
  <2>3. DOMAIN Step(g) = 0..n
    OBVIOUS
  <2>4. Step(g) = [k \in 0..n |-> Step(g)[k]]
    OBVIOUS
  <2>5. g = [k \in 0..n |-> g[k]]
    BY <2>1
  <2> HIDE DEF Step
  <2> QED BY <2>2, <2>4, <2>5
<1>2. PICK f : f = CHOOSE e : e = Step(e)
  OBVIOUS
<1>3. f = Step(f)
  BY <1>1, <1>2
<1>4. Output!Value(text, base) = f[n]
  BY <1>2 DEF Output!Value
<1>5. f = g
  <2>1. f = [k \in 0..n |-> Step(f)[k]]
    BY <1>3
  <2>2. f = [k \in 0..n |-> f[k]]
    BY <2>1
  <2>3. f[0] = 0
    BY <1>0, <1>3
  <2>4. ASSUME NEW k \in 1..n PROVE f[k] = More(f[k - 1], text[k], base)
    <3>1. f[k] = Step(f)[k] /\ k \in 0..Len(text) /\ k # 0
      <4>1. k \in 0..Len(text) /\ k # 0
        BY <1>0
      <4> HIDE DEF Step
      <4>2. f[k] = Step(f)[k]
        BY <1>3, Zenon
      <4> QED BY <4>1, <4>2
    <3>2. Step(f)[k] = IF text[k] \in {"-", "x"} THEN f[k - 1]
                       ELSE f[k - 1] * base + Output!DigitValue(text[k])
      BY <3>1
    <3> QED BY <3>1, <3>2 DEF More
  <2> HIDE DEF Step
  <2>5. Follows(f, n, text, base)
    BY <2>2, <2>3, <2>4 DEF Follows
  <2> QED BY <2>5, ReadsOnce
<1> QED BY <1>4, <1>5

(* The text s stands for n.                                                *)
StandsFor(s, n, base) ==
  /\ s \in Seq(Printed)
  /\ \E g : Reads(g, s, base) /\ g[Len(s)] = n

(* A text of digits that stands for n, with a digit if n is not zero.      *)
Spells(s, n, base) ==
  /\ StandsFor(s, n, base) /\ s \in Seq(Digit)
  /\ n > 0 => Len(s) > 0

LEMMA StandsForValue ==
  ASSUME NEW s, NEW n, NEW base \in Nat, StandsFor(s, n, base)
  PROVE  Output!Value(s, base) = n
<1>1. s \in Seq(Printed)
  BY DEF StandsFor
<1>2. PICK g : Reads(g, s, base) /\ g[Len(s)] = n
  BY DEF StandsFor
<1>3. PICK k : k = Len(s)
  OBVIOUS
<1>4. Output!Value(s, base) = g[k]
  BY <1>1, <1>2, <1>3, ValueIsRead
<1> QED BY <1>2, <1>3, <1>4

(* One more digit at the end.                                              *)
LEMMA DigitAppended ==
  ASSUME NEW s, NEW n \in Int, NEW base \in Nat, StandsFor(s, n, base),
         NEW k \in 1..16, NEW c, c = Output!digits[k], NEW r, r = Append(s, c),
         NEW v, v = n * base + (k - 1)
  PROVE  StandsFor(r, v, base)
<1>1. PICK g : Reads(g, s, base) /\ g[Len(s)] = n
  BY DEF StandsFor
<1>2. c \in Printed /\ s \in Seq(Printed) /\ More(n, c, base) = v /\ v \in Int
  <2>1. c \in Printed /\ c \notin {"-", "x"} /\ Output!DigitValue(c) = k - 1
    BY DigitStandsFor
  <2>2. v \in Int
    OBVIOUS
  <2> QED BY <2>1, <2>2 DEF More, StandsFor
<1>0. PICK e \in Nat : e = Len(s)
  <2>1. Len(s) \in Nat
    BY <1>2, LenProperties
  <2> QED BY <2>1, Zenon
<1>3. r \in Seq(Printed) /\ Len(r) = e + 1 /\ r[e + 1] = c /\ \A j \in 1..e : r[j] = s[j]
  BY <1>0, <1>2, AppendProperties
<1> DEFINE h == [j \in 0..(e + 1) |-> IF j = e + 1 THEN v ELSE g[j]]
<1>4. /\ g \in [0..e -> Int] /\ g[0] = 0 /\ g[e] = n
      /\ \A j \in 1..e : g[j] = More(g[j - 1], s[j], base)
  BY <1>0, <1>1 DEF Reads
<1>5. h \in [0..(e + 1) -> Int]
  <2> SUFFICES ASSUME NEW j \in 0..(e + 1) PROVE (IF j = e + 1 THEN v ELSE g[j]) \in Int
    OBVIOUS
  <2>1. j # e + 1 => j \in 0..e
    OBVIOUS
  <2> QED BY <1>2, <1>4, <2>1
<1>6. h[0] = 0 /\ h[e + 1] = v
  BY <1>4
<1>7. ASSUME NEW j \in 1..(e + 1) PROVE h[j] = More(h[j - 1], r[j], base)
  <2>1. CASE j = e + 1
    <3>1. h[j] = v /\ r[j] = c /\ h[j - 1] = g[e] /\ g[e] = n
      BY <1>3, <1>4, <2>1
    <3> HIDE DEF h
    <3> QED BY <3>1, <1>2
  <2>2. CASE j # e + 1
    <3>1. j \in 1..e /\ j \in 0..(e + 1) /\ j - 1 \in 0..(e + 1) /\ j - 1 # e + 1
      BY <2>2
    <3>2. h[j] = g[j] /\ h[j - 1] = g[j - 1]
      BY <2>2, <3>1
    <3>3. g[j] = More(g[j - 1], s[j], base) /\ r[j] = s[j]
      BY <3>1, <1>3, <1>4
    <3> HIDE DEF h
    <3> QED BY <3>2, <3>3
  <2> QED BY <2>1, <2>2
<1> HIDE DEF h
<1>8. Reads(h, r, base) /\ h[Len(r)] = v
  BY <1>3, <1>5, <1>6, <1>7 DEF Reads
<1> QED BY <1>3, <1>8 DEF StandsFor

(* The sign, zeros and x in front.                                         *)
Leading == {"-", "0", "x"}

LEMMA FrontMore ==
  ASSUME NEW c \in Leading, NEW base \in Nat
  PROVE  c \in Printed /\ More(0, c, base) = 0
<1>1. "0" = Output!digits[1] /\ 1 \in 1..16
  BY DEF Output!digits
<1>2. CASE c = "0"
  <2>1. c \in Printed /\ c \notin {"-", "x"} /\ Output!DigitValue(c) = 1 - 1
    BY <1>1, <1>2, DigitStandsFor
  <2> QED BY <2>1 DEF More
<1>3. CASE c # "0"
  BY <1>3 DEF Leading, Printed, More
<1> QED BY <1>2, <1>3

LEMMA FrontAdded ==
  ASSUME NEW p \in Seq(Leading), NEW s, NEW n \in Int, NEW base \in Nat,
         StandsFor(s, n, base), NEW r, r = p \o s
  PROVE  StandsFor(r, n, base)
<1>1. PICK g : Reads(g, s, base) /\ g[Len(s)] = n
  BY DEF StandsFor
<1>2. s \in Seq(Printed)
  BY DEF StandsFor
<1>0. PICK e \in Nat, d \in Nat : e = Len(s) /\ d = Len(p)
  <2>1. Len(s) \in Nat /\ Len(p) \in Nat
    BY <1>2, LenProperties
  <2> QED BY <2>1, Zenon
<1>3. p \in Seq(Printed) /\ \A j \in 1..d : p[j] \in Leading
  <2>1. \A j \in 1..d : p[j] \in Leading
    BY <1>0, ElementOfSeq
  <2>2. Leading \subseteq Printed
    BY FrontMore
  <2>3. p \in Seq(Printed)
    BY <2>2, SeqMonotonic
  <2> QED BY <2>1, <2>3
<1>4. /\ r \in Seq(Printed) /\ Len(r) = d + e
      /\ \A j \in 1..(d + e) : r[j] = IF j <= d THEN p[j] ELSE s[j - d]
  BY <1>0, <1>2, <1>3, JoinIs
<1> DEFINE h == [j \in 0..(d + e) |-> IF j <= d THEN 0 ELSE g[j - d]]
<1>5. /\ g \in [0..e -> Int] /\ g[0] = 0 /\ g[e] = n
      /\ \A j \in 1..e : g[j] = More(g[j - 1], s[j], base)
  BY <1>0, <1>1 DEF Reads
<1>6. h \in [0..(d + e) -> Int]
  <2> SUFFICES ASSUME NEW j \in 0..(d + e) PROVE (IF j <= d THEN 0 ELSE g[j - d]) \in Int
    OBVIOUS
  <2>1. ~(j <= d) => j - d \in 0..e
    OBVIOUS
  <2> QED BY <1>5, <2>1
<1>7. h[0] = 0
  OBVIOUS
<1>8. h[d + e] = n
  <2>1. CASE e = 0
    BY <2>1, <1>5
  <2>2. CASE e # 0
    <3>1. ~(d + e <= d) /\ d + e \in 0..(d + e) /\ (d + e) - d = e
      BY <2>2
    <3> QED BY <3>1, <1>5
  <2> QED BY <2>1, <2>2
<1>9. ASSUME NEW j \in 1..(d + e) PROVE h[j] = More(h[j - 1], r[j], base)
  <2>0. j \in 0..(d + e) /\ j - 1 \in 0..(d + e)
    OBVIOUS
  <2>1. CASE j <= d
    <3>1. h[j] = 0 /\ h[j - 1] = 0
      BY <2>0, <2>1
    <3>2. r[j] \in Leading
      BY <1>3, <1>4, <2>1
    <3> HIDE DEF h
    <3> QED BY <3>1, <3>2, FrontMore
  <2>2. CASE ~(j <= d)
    <3>0. PICK i \in 1..e : i = j - d
      BY <2>2
    <3>1. h[j] = g[i] /\ r[j] = s[i]
      BY <2>0, <2>2, <3>0, <1>4
    <3>2. h[j - 1] = g[i - 1]
      <4>1. CASE i = 1
        <5>1. j - 1 <= d
          BY <3>0, <4>1
        <5> QED BY <2>0, <5>1, <4>1, <1>5
      <4>2. CASE i # 1
        <5>1. ~(j - 1 <= d) /\ (j - 1) - d = i - 1
          BY <3>0, <4>2
        <5> QED BY <2>0, <5>1
      <4> QED BY <4>1, <4>2
    <3>3. g[i] = More(g[i - 1], s[i], base)
      BY <1>5
    <3> HIDE DEF h
    <3> QED BY <3>1, <3>2, <3>3
  <2> QED BY <2>1, <2>2
<1> HIDE DEF h
<1>10. Reads(h, r, base) /\ h[Len(r)] = n
  BY <1>4, <1>6, <1>7, <1>8, <1>9 DEF Reads
<1> QED BY <1>4, <1>10 DEF StandsFor

(* A number without its last digit is smaller.                             *)
LEMMA LastDigit ==
  ASSUME NEW n \in Nat \ {0}, NEW base \in {8, 10, 16}
  PROVE  /\ n \div base \in 0..(n - 1) /\ (n % base) + 1 \in 1..16
         /\ (n \div base) * base + (((n % base) + 1) - 1) = n
<1>1. CASE base = 8
  BY <1>1
<1>2. CASE base = 10
  BY <1>2
<1>3. CASE base = 16
  BY <1>3
<1> QED BY <1>1, <1>2, <1>3

(* The text for n, when those for all smaller numbers are in d.            *)
NextText(d, n, base) ==
  IF n = 0 THEN <<>> ELSE Append(d[n \div base], Output!digits[(n % base) + 1])

(* d[n] is the text for each n up to last.                                    *)
Table(d, last, base) ==
  d \in [0..last -> Seq(Digit)] /\ \A n \in 0..last : d[n] = NextText(d, n, base)

LEMMA NextTextIs ==
  ASSUME NEW last \in Nat, NEW d \in [0..last -> Seq(Digit)], NEW n \in 1..(last + 1),
         NEW base \in {8, 10, 16}
  PROVE  NextText(d, n, base) \in Seq(Digit)
<1>1. PICK q, k : q = n \div base /\ k = (n % base) + 1
  OBVIOUS
<1>2. q \in 0..(n - 1) /\ k \in 1..16
  BY <1>1, LastDigit
<1>3. q \in 0..last /\ n # 0
  BY <1>2
<1>4. d[q] \in Seq(Digit) /\ Output!digits[k] \in Digit
  BY <1>2, <1>3, DigitStandsFor
<1>5. Append(d[q], Output!digits[k]) \in Seq(Digit)
  BY <1>4, AppendProperties
<1> QED BY <1>1, <1>3, <1>5 DEF NextText

LEMMA TableExists ==
  ASSUME NEW luv \in Nat, NEW base \in {8, 10, 16}
  PROVE  \E d : Table(d, luv, base)
<1> DEFINE K == {last \in 0..luv : \E d : Table(d, last, base)}
<1>1. 0 \in K
  <2> DEFINE d == [n \in 0..0 |-> <<>>]
  <2>1. d \in [0..0 -> Seq(Digit)] /\ d[0] = <<>>
    BY EmptySeq
  <2>2. \A n \in 0..0 : d[n] = NextText(d, n, base)
    BY <2>1 DEF NextText
  <2>3. Table(d, 0, base)
    BY <2>1, <2>2 DEF Table
  <2> HIDE DEF d
  <2> QED BY <2>3
<1>2. ASSUME NEW last \in 1..luv, last - 1 \in K PROVE last \in K
  <2>0. PICK l \in Nat : l = last - 1
    OBVIOUS
  <2>1. PICK d : Table(d, l, base)
    BY <1>2, <2>0
  <2>2. d \in [0..l -> Seq(Digit)] /\ \A n \in 0..l : d[n] = NextText(d, n, base)
    BY <2>1 DEF Table
  <2>3. PICK x : x = NextText(d, last, base)
    OBVIOUS
  <2>4. x \in Seq(Digit)
    <3>1. last \in 1..(l + 1)
      BY <2>0
    <3> QED BY <2>2, <2>3, <3>1, NextTextIs
  <2> DEFINE e == [n \in 0..last |-> IF n = last THEN x ELSE d[n]]
  <2>5. \A n \in 0..last : n # last => n \in 0..l
    BY <2>0
  <2>6. e \in [0..last -> Seq(Digit)]
    BY <2>2, <2>4, <2>5
  <2>7. ASSUME NEW n \in 0..last PROVE e[n] = NextText(e, n, base)
    <3>1. e[n] = NextText(d, n, base)
      <4>1. CASE n = last
        BY <4>1, <2>3
      <4>2. CASE n # last
        BY <4>2, <2>2, <2>5
      <4> QED BY <4>1, <4>2
    <3>2. CASE n = 0
      BY <3>1, <3>2 DEF NextText
    <3>3. CASE n # 0
      <4>1. PICK q : q = n \div base
        OBVIOUS
      <4>2. q \in 0..(n - 1)
        <5>1. n \in Nat \ {0}
          BY <3>3
        <5> QED BY <4>1, <5>1, LastDigit
      <4>3. e[q] = d[q]
        <5>1. q \in 0..last /\ q # last
          BY <4>2
        <5> QED BY <5>1
      <4> HIDE DEF e
      <4> QED BY <3>1, <4>1, <4>3 DEF NextText
    <3> QED BY <3>2, <3>3
  <2> HIDE DEF e
  <2>8. Table(e, last, base)
    BY <2>6, <2>7 DEF Table
  <2> QED BY <2>8
<1>3. \A last \in 0..luv : last \in K
  <2> HIDE DEF K
  <2> QED BY <1>1, <1>2, CountingUp
<1> QED BY <1>3

(* The digits that vseprint() writes from the back of buf spell the number. *)
LEMMA DigitsSpell ==
  ASSUME NEW luv \in Nat, NEW base \in {8, 10, 16}
  PROVE  Spells(Output!Digits(luv, base), luv, base)
<1> DEFINE Step(d) == [n \in 0..luv |->
              IF n = 0 THEN <<>>
              ELSE Append(d[n \div base], Output!digits[(n % base) + 1])]
<1>1. \E d : d = Step(d)
  <2>1. PICK d : Table(d, luv, base)
    BY TableExists
  <2>2. d = [n \in 0..luv |-> d[n]] /\ \A n \in 0..luv : d[n] = NextText(d, n, base)
    BY <2>1 DEF Table
  <2>3. d = [n \in 0..luv |-> NextText(d, n, base)]
    BY <2>2
  <2>4. d = Step(d)
    BY <2>3 DEF NextText
  <2> HIDE DEF Step
  <2> QED BY <2>4
<1>2. PICK d : d = CHOOSE e : e = Step(e)
  OBVIOUS
<1>3. d = Step(d)
  BY <1>1, <1>2
<1>4. Output!Digits(luv, base) = d[luv]
  BY <1>2 DEF Output!Digits
<1>5. \A n \in 0..luv : d[n] = NextText(d, n, base)
  <2> TAKE n \in 0..luv
  <2>1. Step(d)[n] = NextText(d, n, base)
    BY DEF NextText
  <2> HIDE DEF Step
  <2>2. d[n] = Step(d)[n]
    BY <1>3, Zenon
  <2> QED BY <2>1, <2>2
<1> HIDE DEF Step
<1> DEFINE K == {n \in 0..luv : \A j \in 0..n : Spells(d[j], j, base)}
<1>6. 0 \in K
  <2>1. d[0] = <<>>
    BY <1>5 DEF NextText
  <2>2. Spells(<<>>, 0, base)
    <3> DEFINE g == [k \in 0..0 |-> 0]
    <3>1. <<>> \in Seq(Printed) /\ <<>> \in Seq(Digit) /\ Len(<<>>) = 0
      BY EmptySeq
    <3>2. g \in [0..0 -> Int] /\ g[0] = 0
      OBVIOUS
    <3> HIDE DEF g
    <3>3. Reads(g, <<>>, base) /\ g[Len(<<>>)] = 0
      BY <3>1, <3>2 DEF Reads
    <3> QED BY <3>1, <3>3 DEF Spells, StandsFor
  <2> QED BY <2>1, <2>2
<1>7. ASSUME NEW n \in 1..luv, n - 1 \in K PROVE n \in K
  <2>1. PICK q, k : q = n \div base /\ k = (n % base) + 1
    OBVIOUS
  <2>2. q \in 0..(n - 1) /\ k \in 1..16 /\ q * base + (k - 1) = n
    BY <2>1, LastDigit
  <2>3. Spells(d[q], q, base)
    BY <1>7, <2>2
  <2>0. PICK s, c, r, v : /\ s = d[q] /\ c = Output!digits[k] /\ r = Append(s, c)
                          /\ v = q * base + (k - 1)
    OBVIOUS
  <2>4. StandsFor(s, q, base) /\ s \in Seq(Digit) /\ q \in Int /\ base \in Nat
    BY <2>0, <2>2, <2>3 DEF Spells
  <2>5. StandsFor(r, v, base)
    BY <2>0, <2>2, <2>4, DigitAppended
  <2>6. r \in Seq(Digit) /\ Len(r) > 0
    <3>1. c \in Digit
      BY <2>0, <2>2, DigitStandsFor
    <3>2. r \in Seq(Digit) /\ Len(r) = Len(s) + 1 /\ Len(s) \in Nat
      BY <2>0, <2>4, <3>1, AppendProperties, LenProperties
    <3> QED BY <3>2
  <2>7. d[n] = r /\ v = n
    <3>1. n # 0 /\ n \in 0..luv
      OBVIOUS
    <3> QED BY <1>5, <2>0, <2>1, <2>2, <3>1 DEF NextText
  <2>8. Spells(d[n], n, base)
    BY <2>5, <2>6, <2>7 DEF Spells
  <2>9. \A j \in 0..n : j # n => j \in 0..(n - 1)
    OBVIOUS
  <2> QED BY <1>7, <2>8, <2>9
<1>8. \A n \in 0..luv : n \in K
  <2> HIDE DEF K
  <2> QED BY <1>6, <1>7, CountingUp
<1> QED BY <1>4, <1>8

(* v is what a directive may be given as its argument.                     *)
Given(v, u) == (u = FALSE /\ v \in Output!Signed) \/ (u = TRUE /\ v \in Output!Unsigned)

(* The remainder of a number that is off by less than one range.           *)
LEMMA WrapsOnce ==
  ASSUME NEW n \in Nat \ {0}, NEW z \in Int, -n <= z, z < n
  PROVE  z % n = IF z < 0 THEN z + n ELSE z
<1> DEFINE d == z \div n
           e == z % n
<1>1. d \in Int /\ e \in 0..(n - 1) /\ z = d * n + e
  OBVIOUS
<1> HIDE DEF d, e
<1>2. ~(d >= 1)
  <2> SUFFICES ASSUME d >= 1 PROVE FALSE
    OBVIOUS
  <2>1. d * n >= n
    BY <1>1
  <2> QED BY <1>1, <2>1
<1>3. ~(d <= -2)
  <2> SUFFICES ASSUME d <= -2 PROVE FALSE
    OBVIOUS
  <2>1. d * n <= -2 * n
    BY <1>1
  <2> QED BY <1>1, <2>1
<1>4. d = 0 \/ d = -1
  BY <1>1, <1>2, <1>3
<1>5. CASE d = 0
  BY <1>1, <1>5 DEF e
<1>6. CASE d = -1
  BY <1>1, <1>6 DEF e
<1> QED BY <1>4, <1>5, <1>6

(* luv is the magnitude, also for the most negative number.                *)
LEMMA MagnitudeIs ==
  ASSUME Output!PrintAssumption, NEW v, NEW u, Given(v, u)
  PROVE  /\ v \in Int /\ Output!Abs(v) \in Nat
         /\ Output!Magnitude(v, u) = Output!Abs(v)
         /\ Output!Negative(v, u) <=> v < 0
<1>0. PICK n \in Nat \ {0} : n = Range2
  BY DEF Output!PrintAssumption
<1>1. CASE u = TRUE /\ v \in 0..(n - 1)
  <2>1. v % n = v
    BY <1>1, WrapsOnce
  <2>2. Output!Luv(v) = v /\ ~Output!Negative(v, u)
    BY <1>0, <1>1, <2>1 DEF Output!Luv, Output!Negative
  <2>3. v \in Nat /\ v \in Int /\ ~(v < 0)
    BY <1>1
  <2>4. Output!Magnitude(v, u) = v /\ Output!Abs(v) = v
    BY <2>2, <2>3 DEF Output!Magnitude, Output!Abs
  <2> QED BY <2>2, <2>3, <2>4
<1>2. CASE u = FALSE /\ v \in Int /\ -n <= 2 * v /\ 2 * v < n
  <2>1. v % n = IF v < 0 THEN v + n ELSE v
    <3>1. -n <= v /\ v < n
      BY <1>2
    <3> QED BY <1>2, <3>1, WrapsOnce
  <2>2. CASE v < 0
    <3>1. PICK l \in Int : l = v + n
      BY <1>2
    <3>2. Output!Luv(v) = l
      BY <1>0, <2>1, <2>2, <3>1 DEF Output!Luv
    <3>3. Output!Negative(v, u)
      <4>1. 2 * l >= n
        BY <1>2, <3>1
      <4> QED BY <1>0, <1>2, <3>2, <4>1 DEF Output!Negative
    <3>4. (-l) % n = -v
      <4>1. -n <= -l /\ -l < 0 /\ -l \in Int /\ -l < n
        BY <1>2, <2>2, <3>1
      <4>2. (-l) % n = IF -l < 0 THEN -l + n ELSE -l
        BY <4>1, WrapsOnce
      <4> QED BY <1>2, <3>1, <4>1, <4>2
    <3>5. Output!Magnitude(v, u) = -v
      BY <1>0, <3>2, <3>3, <3>4 DEF Output!Magnitude
    <3> QED BY <1>2, <2>2, <3>3, <3>5 DEF Output!Abs
  <2>3. CASE ~(v < 0)
    <3>1. Output!Luv(v) = v
      BY <1>0, <2>1, <2>3 DEF Output!Luv
    <3>2. ~Output!Negative(v, u)
      BY <1>0, <1>2, <3>1 DEF Output!Negative
    <3> QED BY <1>2, <2>3, <3>1, <3>2 DEF Output!Magnitude, Output!Abs
  <2> QED BY <2>2, <2>3
<1> QED BY <1>0, <1>1, <1>2 DEF Given, Output!Signed, Output!Unsigned

HasDigit(s) == \E k \in DOMAIN s : s[k] \notin {"-", "x"}

LEMMA DigitRemains ==
  ASSUME NEW p \in Seq(Printed), NEW s \in Seq(Printed), HasDigit(p) \/ HasDigit(s),
         NEW r, r = p \o s
  PROVE  HasDigit(r)
<1>0. PICK e \in Nat, d \in Nat : e = Len(s) /\ d = Len(p)
  <2>1. Len(s) \in Nat /\ Len(p) \in Nat
    BY LenProperties
  <2> QED BY <2>1, Zenon
<1>1. DOMAIN p = 1..d /\ DOMAIN s = 1..e
  BY <1>0, LenProperties
<1>2. /\ r \in Seq(Printed) /\ Len(r) = d + e
      /\ \A j \in 1..(d + e) : r[j] = IF j <= d THEN p[j] ELSE s[j - d]
  BY <1>0, JoinIs
<1>3. DOMAIN r = 1..(d + e)
  BY <1>2, LenProperties
<1>4. CASE HasDigit(p)
  <2>1. PICK k \in 1..d : p[k] \notin {"-", "x"}
    BY <1>1, <1>4 DEF HasDigit
  <2>2. k \in 1..(d + e) /\ r[k] = p[k]
    BY <1>2
  <2> QED BY <1>3, <2>1, <2>2 DEF HasDigit
<1>5. CASE HasDigit(s)
  <2>1. PICK k \in 1..e : s[k] \notin {"-", "x"}
    BY <1>1, <1>5 DEF HasDigit
  <2>2. PICK j \in 1..(d + e) : j = d + k
    OBVIOUS
  <2>3. ~(j <= d) /\ j - d = k
    BY <2>2
  <2>4. r[j] = s[k]
    BY <1>2, <2>3
  <2> QED BY <1>3, <2>1, <2>4 DEF HasDigit
<1> QED BY <1>4, <1>5

(* The text without sign.                                                  *)
LEMMA BodyIs ==
  ASSUME NEW n \in Nat, NEW base \in {8, 10, 16},
         NEW b, b = Output!Prefix(n, base) \o Output!Digits(n, base)
  PROVE  StandsFor(b, n, base) /\ HasDigit(b)
<1>1. PICK p, s : p = Output!Prefix(n, base) /\ s = Output!Digits(n, base)
  OBVIOUS
<1>2. /\ p \in Seq(Leading) /\ (n = 0 => HasDigit(p))
  <2>1. PICK z, x : /\ z = IF base = 8 \/ n = 0 THEN <<"0">> ELSE <<>>
                    /\ x = IF base = 16 THEN <<"0", "x">> ELSE <<>>
    OBVIOUS
  <2>2. z \in Seq(Leading) /\ x \in Seq(Leading)
    <3>1. <<>> \in Seq(Leading) /\ <<"0">> \in Seq(Leading) /\ <<"0", "x">> \in Seq(Leading)
      BY DEF Leading
    <3> QED BY <2>1, <3>1
  <2>3. p = z \o x
    BY <1>1, <2>1 DEF Output!Prefix
  <2>4. p \in Seq(Leading)
    BY <2>2, <2>3, ConcatProperties
  <2>5. ASSUME n = 0 PROVE HasDigit(p)
    <3>1. z = <<"0">>
      BY <2>1, <2>5
    <3>2. HasDigit(z)
      BY <3>1 DEF HasDigit
    <3>3. Leading \subseteq Printed
      BY FrontMore
    <3>4. z \in Seq(Printed) /\ x \in Seq(Printed)
      BY <2>2, <3>3, SeqMonotonic
    <3> QED BY <2>3, <3>2, <3>4, DigitRemains
  <2> QED BY <2>4, <2>5
<1>3. Spells(s, n, base)
  BY <1>1, DigitsSpell
<1>4. StandsFor(s, n, base) /\ s \in Seq(Digit) /\ (n > 0 => Len(s) > 0) /\ s \in Seq(Printed)
  BY <1>3 DEF Spells, StandsFor
<1>5. n > 0 => HasDigit(s)
  <2> SUFFICES ASSUME n > 0 PROVE HasDigit(s)
    OBVIOUS
  <2>1. 1 \in DOMAIN s
    <3>1. DOMAIN s = 1..Len(s) /\ Len(s) \in Nat
      BY <1>4, LenProperties
    <3> QED BY <1>4, <3>1
  <2>2. s[1] \in Digit
    BY <1>4, <2>1, ElementOfSeq, LenProperties
  <2>3. s[1] \notin {"-", "x"}
    BY <2>2, DigitsDiffer DEF Digit
  <2> QED BY <2>1, <2>3 DEF HasDigit
<1>6. b = p \o s
  BY <1>1
<1>7. StandsFor(b, n, base)
  <2>1. base \in Nat /\ n \in Int
    OBVIOUS
  <2> QED BY <1>2, <1>4, <1>6, <2>1, FrontAdded
<1>8. HasDigit(b)
  <2>1. HasDigit(p) \/ HasDigit(s)
    BY <1>2, <1>5
  <2>2. p \in Seq(Printed)
    <3>1. Leading \subseteq Printed
      BY FrontMore
    <3> QED BY <1>2, <3>1, SeqMonotonic
  <2> QED BY <1>4, <1>6, <2>1, <2>2, DigitRemains
<1> QED BY <1>7, <1>8

(* Every text of a number is right, whatever neg was on the stack.         *)
LEMMA TextsAreRight ==
  ASSUME Output!PrintAssumption, NEW v, NEW u, Given(v, u), NEW base \in {8, 10, 16},
         NEW text \in Output!Texts(v, u, base)
  PROVE  /\ text \in Text /\ HasDigit(text)
         /\ Output!Value(text, base) = Output!Abs(v)
         /\ v < 0 => text[1] = "-"
<1>1. PICK n : n = Output!Magnitude(v, u)
  OBVIOUS
<1>2. n \in Nat /\ n = Output!Abs(v) /\ (Output!Negative(v, u) <=> v < 0)
  BY <1>1, MagnitudeIs
<1>3. PICK b : b = Output!Prefix(n, base) \o Output!Digits(n, base)
  OBVIOUS
<1>4. StandsFor(b, n, base) /\ HasDigit(b) /\ b \in Seq(Printed) /\ n \in Int /\ base \in Nat
  <2>1. StandsFor(b, n, base) /\ HasDigit(b)
    BY <1>2, <1>3, BodyIs
  <2> QED BY <1>2, <2>1 DEF StandsFor
<1>5. PICK neg : /\ text = IF neg THEN <<"-">> \o b ELSE b
                 /\ neg \in IF Output!Negative(v, u) THEN {TRUE} ELSE BOOLEAN
  BY <1>1, <1>3 DEF Output!Texts
<1>6. PICK q : q = <<"-">>
  OBVIOUS
<1>7. q \in Seq(Leading) /\ q \in Seq(Printed) /\ Len(q) = 1 /\ q[1] = "-"
  BY <1>6 DEF Leading, Printed
<1>8. StandsFor(text, n, base) /\ HasDigit(text)
  <2>1. CASE neg
    <3>1. text = q \o b
      BY <1>5, <1>6, <2>1
    <3>2. StandsFor(text, n, base)
      BY <1>4, <1>7, <3>1, FrontAdded
    <3>3. HasDigit(text)
      BY <1>4, <1>7, <3>1, DigitRemains
    <3> QED BY <3>2, <3>3
  <2>2. CASE ~neg
    <3>1. text = b
      BY <1>5, <2>2
    <3> QED BY <1>4, <3>1
  <2> QED BY <2>1, <2>2
<1>9. text \in Text
  <2>1. text \in Seq(Printed)
    BY <1>8 DEF StandsFor
  <2>2. Printed \subseteq Char
    BY DEF Printed, Digit, Output!PrintAssumption, Output!Own
  <2> QED BY <2>1, <2>2, SeqMonotonic DEF Text
<1>10. Output!Value(text, base) = n
  BY <1>4, <1>8, StandsForValue
<1>11. ASSUME v < 0 PROVE text[1] = "-"
  <2>1. text = q \o b
    BY <1>2, <1>5, <1>6, <1>11
  <2>2. PICK e \in Nat, d \in Nat : e = Len(b) /\ d = Len(q)
    <3>1. Len(b) \in Nat /\ Len(q) \in Nat
      BY <1>4, <1>7, LenProperties
    <3> QED BY <3>1, Zenon
  <2>3. \A j \in 1..(d + e) : text[j] = IF j <= d THEN q[j] ELSE b[j - d]
    <3>1. q \in Seq(Printed) /\ b \in Seq(Printed)
      BY <1>4, <1>7
    <3> QED BY <2>1, <2>2, <3>1, JoinIs
  <2>4. d = 1
    BY <1>7, <2>2, Zenon
  <2>5. text[1] = q[1]
    BY <2>3, <2>4
  <2> QED BY <1>7, <2>5
<1> QED BY <1>2, <1>8, <1>9, <1>10, <1>11

(* What is known of each kind of token.                                    *)
LEMMA TokenIs ==
  ASSUME NEW t \in Output!Token
  PROVE  /\ t.kind \in {"char", "string", "number", "bad"}
         /\ t.kind = "char" => t.char \in Char
         /\ t.kind = "string" => t.s \in Text /\ t.width \in Int
         /\ t.kind = "number" => /\ Given(t.v, t.u) /\ t.base \in {8, 10, 16}
                                 /\ t.width \in Int
<1>1. CASE t \in Output!Directive(Output!Signed, FALSE)
  BY <1>1 DEF Output!Directive, Given
<1>2. CASE t \in Output!Directive(Output!Unsigned, TRUE)
  BY <1>2 DEF Output!Directive, Given
<1>3. CASE t \in [kind : {"char"}, char : Char]
  BY <1>3
<1>4. CASE t \in [kind : {"string"}, s : Seq(Char), width : Int]
  BY <1>4 DEF Text
<1>5. CASE t \in [kind : {"bad"}]
  BY <1>5
<1> QED BY <1>1, <1>2, <1>3, <1>4, <1>5 DEF Output!Token

(* The next token, while there is one and the buffer is not full: nothing  *)
(* has been dropped so far.                                                *)
LEMMA ScanningIs ==
  ASSUME BufferInv, Output!Scanning
  PROVE  /\ Head(fmt) \in Output!Token /\ Tail(fmt) \in Seq(Output!Token)
         /\ size \in Nat /\ Len(out) < size - 1 /\ out = full /\ out \in Text
<1>1. fmt \in Seq(Output!Token) /\ fmt # <<>> /\ size \in Nat /\ Len(out) < size - 1
  BY DEF BufferInv, Output!Scanning
<1>2. Head(fmt) \in Output!Token /\ Tail(fmt) \in Seq(Output!Token)
  BY <1>1, HeadTailProperties
<1>3. out \in Text /\ (out = full \/ Len(out) = size - 1)
  BY DEF BufferInv
<1>4. Len(out) # size - 1
  <2>1. Len(out) \in Nat
    <3>1. out \in Seq(Char)
      BY <1>3 DEF Text
    <3> QED BY <3>1, LenProperties
  <2>2. PICK x \in Nat : x = Len(out)
    BY <2>1, Zenon
  <2>3. x < size - 1
    BY <1>1, <2>2, Zenon
  <2>4. x # size - 1
    BY <1>1, <2>3
  <2> QED BY <2>2, <2>4
<1> QED BY <1>1, <1>2, <1>3, <1>4

LEMMA LiteralKeeps ==
  ASSUME Output!PrintAssumption, BufferInv, Output!Literal
  PROVE  BufferInv'
<1>1. /\ Output!Scanning /\ Head(fmt).kind = "char"
      /\ fmt' = Tail(fmt) /\ size' = size
  BY DEF Output!Literal
<1>2. /\ Head(fmt) \in Output!Token /\ Tail(fmt) \in Seq(Output!Token)
      /\ size \in Nat /\ Len(out) < size - 1 /\ out = full /\ out \in Text
  BY <1>1, ScanningIs
<1>0. PICK c, r : c = Head(fmt).char /\ r = Append(out, c)
  OBVIOUS
<1>3. c \in Char
  BY <1>0, <1>1, <1>2, TokenIs
<1>4. out' = r /\ full' = r
  BY <1>0, <1>2 DEF Output!Literal
<1>5. PICK x \in Nat : x = Len(out)
  <2>1. out \in Seq(Char)
    BY <1>2 DEF Text
  <2>2. Len(out) \in Nat
    BY <2>1, LenProperties
  <2> QED BY <2>2, Zenon
<1>6. r \in Text /\ Len(r) = x + 1
  BY <1>0, <1>2, <1>3, <1>5, AppendProperties DEF Text
<1>7. x + 1 < size /\ size \in Nat \ {0}
  <2>1. x < size - 1
    BY <1>2, <1>5, Zenon
  <2> QED BY <1>2, <2>1
<1>8. Len(r) < size
  BY <1>6, <1>7, Zenon
<1>9. Text' = Text /\ (Seq(Output!Token))' = Seq(Output!Token)
  BY DEF Text
<1> QED BY <1>1, <1>2, <1>4, <1>6, <1>7, <1>8 DEF BufferInv, Text

(* A directive that prints the text s in a field of width w.               *)
LEMMA DirectiveKeeps ==
  ASSUME Output!PrintAssumption, BufferInv, Output!Scanning,
         NEW s \in Text, NEW w \in Int,
         out' = out \o Output!printstr(s, w, size - Len(out)),
         full' = full \o Output!Field(s, w),
         fmt' = Tail(fmt), size' = size
  PROVE  BufferInv'
<1>1. /\ Tail(fmt) \in Seq(Output!Token)
      /\ size \in Nat /\ Len(out) < size - 1 /\ out = full /\ out \in Text
  BY ScanningIs
<1>2. PICK o, z, o2, f2 : o = out /\ z = size /\ o2 = out' /\ f2 = full'
  OBVIOUS
<1>3. /\ o \in Text /\ z \in Nat /\ Len(o) < z - 1
      /\ o2 = o \o Output!printstr(s, w, z - Len(o))
      /\ f2 = o \o Output!Field(s, w)
  BY <1>1, <1>2
<1>4. /\ o2 \in Text /\ f2 \in Text /\ Len(o2) < z
      /\ o2 = f2 \/ Len(o2) = z - 1
  <2>1. Fits(o2, f2, z)
    BY <1>3, FieldKeeps
  <2> QED BY <2>1 DEF Fits
<1>5. size \in Nat \ {0}
  BY DEF BufferInv
<1> QED BY <1>1, <1>2, <1>4, <1>5 DEF BufferInv, Text

LEMMA NumberKeeps ==
  ASSUME Output!PrintAssumption, BufferInv, Output!Number
  PROVE  BufferInv' /\ Output!NumberInv'
<1>1. /\ Output!Scanning /\ Head(fmt).kind = "number"
      /\ fmt' = Tail(fmt) /\ size' = size
  BY DEF Output!Number
<1>2. Head(fmt) \in Output!Token
  BY <1>1, ScanningIs
<1>3. PICK v, u, base, w : /\ v = Head(fmt).v /\ u = Head(fmt).u
                           /\ base = Head(fmt).base /\ w = Head(fmt).width
  OBVIOUS
<1>4. Given(v, u) /\ base \in {8, 10, 16} /\ w \in Int
  BY <1>1, <1>2, <1>3, TokenIs
<1>5. PICK text \in Output!Texts(v, u, base) :
        /\ out' = out \o Output!printstr(text, w, size - Len(out))
        /\ full' = full \o Output!Field(text, w)
        /\ number' = [v |-> v, base |-> base, text |-> text]
  BY <1>3 DEF Output!Number
<1>6. /\ text \in Text /\ HasDigit(text)
      /\ Output!Value(text, base) = Output!Abs(v)
      /\ v < 0 => text[1] = "-"
  BY <1>4, TextsAreRight
<1>7. BufferInv'
  BY <1>1, <1>4, <1>5, <1>6, DirectiveKeeps
<1>8. number'.v = v /\ number'.base = base /\ number'.text = text
  BY <1>5
<1>9. Output!NumberInv'
  BY <1>6, <1>8 DEF Output!NumberInv, HasDigit
<1> QED BY <1>7, <1>9

(* vseprint() stays within its buffer for all formats, widths and sizes,   *)
(* loses nothing before it is full, and prints numbers right for integers  *)
(* of any width.                                                           *)
THEOREM OutputCorrect ==
  ASSUME Output!PrintAssumption
  PROVE  Output!Spec => []OutputInv
<1>1. Output!Init => OutInv
  <2> SUFFICES ASSUME Output!Init PROVE OutInv
    OBVIOUS
  <2>1. out = <<>> /\ full = <<>> /\ number = Output!NoNumber /\ fmt \in Formats /\ size \in Sizes
    BY DEF Output!Init
  <2>2. fmt \in Seq(Output!Token) /\ size \in Nat \ {0}
    BY <2>1 DEF Output!PrintAssumption
  <2>3. out \in Seq(Char) /\ Len(out) = 0
    BY <2>1, EmptySeq
  <2>4. BufferInv
    BY <2>1, <2>2, <2>3 DEF BufferInv, Text
  <2>5. Output!NumberInv
    BY <2>1 DEF Output!NumberInv
  <2> QED BY <2>4, <2>5 DEF OutInv
<1>2. OutInv /\ [Output!Next]_(Output!vars) => OutInv'
  <2> SUFFICES ASSUME OutInv, [Output!Next]_(Output!vars) PROVE OutInv'
    OBVIOUS
  <2>0. BufferInv /\ Output!NumberInv
    BY DEF OutInv
  <2>n. number' = number => Output!NumberInv'
    BY <2>0 DEF Output!NumberInv, Output!NoNumber
  <2>1. CASE Output!Literal
    <3>1. number' = number
      BY <2>1 DEF Output!Literal
    <3> QED BY <2>0, <2>1, <2>n, <3>1, LiteralKeeps DEF OutInv
  <2>2. CASE Output!String
    <3>1. /\ Output!Scanning /\ Head(fmt).kind = "string"
          /\ out' = out \o Output!printstr(Head(fmt).s, Head(fmt).width, size - Len(out))
          /\ full' = full \o Output!Field(Head(fmt).s, Head(fmt).width)
          /\ fmt' = Tail(fmt) /\ size' = size /\ number' = number
      BY <2>2 DEF Output!String
    <3>2. Head(fmt) \in Output!Token
      BY <2>0, <3>1, ScanningIs
    <3>3. Head(fmt).s \in Text /\ Head(fmt).width \in Int
      BY <3>1, <3>2, TokenIs
    <3>4. BufferInv'
      BY <2>0, <3>1, <3>3, DirectiveKeeps
    <3> QED BY <2>n, <3>1, <3>4 DEF OutInv
  <2>3. CASE Output!Number
    BY <2>0, <2>3, NumberKeeps DEF OutInv
  <2>4. CASE Output!BadVerb
    <3>1. /\ size' = size /\ out' = out /\ full' = full /\ number' = number
          /\ fmt' = [k \in 1..6 |-> [kind |-> "char",
                                     char |-> <<"*", "v", "e", "r", "b", "*">>[k]]]
      BY <2>4 DEF Output!BadVerb
    <3>2. \A k \in 1..6 : <<"*", "v", "e", "r", "b", "*">>[k] \in Char
      <4>1. {"*", "v", "r"} \subseteq Char /\ {Output!digits[k] : k \in 1..16} \subseteq Char
        BY DEF Output!PrintAssumption, Output!Own
      <4>2. Output!digits[15] = "e" /\ Output!digits[12] = "b"
        BY DEF Output!digits
      <4>3. "e" \in Char /\ "b" \in Char
        BY <4>1, <4>2
      <4> QED BY <4>1, <4>3
    <3>3. fmt' \in [1..6 -> Output!Token]
      BY <3>1, <3>2 DEF Output!Token
    <3>4. fmt' \in Seq(Output!Token)
      BY <3>3, FunctionIsQueue
    <3>5. BufferInv'
      BY <2>0, <3>1, <3>4 DEF BufferInv, Text
    <3> QED BY <2>n, <3>1, <3>5 DEF OutInv
  <2>5. CASE UNCHANGED Output!vars
    <3>1. fmt' = fmt /\ size' = size /\ out' = out /\ full' = full /\ number' = number
      BY <2>5 DEF Output!vars
    <3>2. BufferInv'
      BY <2>0, <3>1 DEF BufferInv, Text
    <3> QED BY <2>n, <3>1, <3>2 DEF OutInv
  <2> QED BY <2>1, <2>2, <2>3, <2>4, <2>5 DEF Output!Next
<1>3. OutInv => OutputInv
  BY DEF OutInv, BufferInv, OutputInv, Output!OutputInv, Output!BoundInv, Output!LosslessInv
<1> QED BY <1>1, <1>2, <1>3, PTL DEF Output!Spec
=============================================================================
