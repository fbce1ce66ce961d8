------------------------------- MODULE ParseIp -------------------------------
(***************************************************************************)
(* parseip() of net.c: an address in numbers and dots, complete or short   *)
(* (10.1 for 10.0.0.1), becomes four bytes.                                *)
(*                                                                         *)
(* A name is what the calls of strtoul() make of it: a sequence of parts,  *)
(* each a number x (0 where there is no digit) and the character at which  *)
(* the number stops.                                                       *)
(***************************************************************************)
EXTENDS Integers, Sequences, SequencesExt

CONSTANTS
  ByteSize,  \* number of values of a byte: 256
  Names,     \* the names looked up
  Stacks     \* what the four bytes of addr may hold before they are set

ParseAssumption ==
  /\ ByteSize \in Nat \ {0} /\ ByteSize % 4 = 0
  /\ Names \subseteq Seq([x : Int, stop : {"dot", "end", "other"}])
  /\ Stacks \subseteq [1..4 -> 0..(ByteSize - 1)]

VARIABLES
  name,   \* the name
  i,      \* parts read
  addr,   \* addr[]
  result  \* "none" yet, -1 as "refused", 0 as "ok"

vars == <<name, i, addr, result>>

(* CLASS(): the two highest bits of the first byte.                        *)
CLASS(a) == a[1] \div (ByteSize \div 4)

Reading == result = "none" /\ i < 4 /\ i < Len(name)
Refuse  == result' = "refused" /\ UNCHANGED <<name, i, addr>>

(* One turn of the loop: a number that is no byte, or that is followed by  *)
(* anything but a dot or the end, ends it.                                 *)
Part ==
  LET part == name[i + 1] IN
  /\ Reading
  /\ IF part.x \in 0..(ByteSize - 1) /\ part.stop \in {"dot", "end"}
     THEN /\ addr' = [addr EXCEPT ![i + 1] = part.x]
          /\ i' = i + 1
          /\ UNCHANGED <<name, result>>
     ELSE Refuse

(* Mutant of Spread: the bytes are moved in the wrong order.               *)
SpreadForward(a, n, class) ==
  IF class = 2 THEN [a EXCEPT ![4] = a[3], ![3] = 0]
  ELSE IF n = 3 THEN [a EXCEPT ![2] = 0, ![3] = 0, ![4] = a[2]]
  ELSE [a EXCEPT ![2] = 0, ![3] = 0, ![4] = a[2]]

(* The bytes of a short name moved to the end, zeros in between.           *)
Spread(a, n, class) ==
  IF class = 2 THEN [a EXCEPT ![4] = a[3], ![3] = 0]
  ELSE IF n = 3 THEN [a EXCEPT ![4] = a[3], ![3] = a[2], ![2] = 0]
  ELSE [a EXCEPT ![4] = a[2], ![3] = 0, ![2] = 0]

(* The parts with which a short name of class A or B is complete.          *)
Short(class) == IF class = 2 THEN {3} ELSE {2, 3}

(* After the loop: the switch on the class, which has no case for 3.       *)
Finish ==
  LET class == CLASS(addr) IN
  /\ result = "none" /\ ~Reading
  /\ IF class # 3 /\ i # 4 /\ i \notin Short(class)
     THEN Refuse
     ELSE /\ addr' = IF class # 3 /\ i # 4 THEN Spread(addr, i, class) ELSE addr
          /\ result' = "ok"
          /\ UNCHANGED <<name, i>>

(* addr is on the stack and not initialised.                               *)
Init == name \in Names /\ i = 0 /\ addr \in Stacks /\ result = "none"

Next == Part \/ Finish \/ (result # "none" /\ UNCHANGED vars)

Spec == Init /\ [][Next]_vars
-----------------------------------------------------------------------------
(* Reference: the parts that name the network come first, those that name  *)
(* the host last, and zeros are in between.  What comes after a fourth dot *)
(* is not looked at.                                                       *)
Parts == [k \in 1..(IF Len(name) < 4 THEN Len(name) ELSE 4) |-> name[k].x]

NetBytes(class) == CASE class \in {0, 1} -> 1 [] class = 2 -> 2 [] class = 3 -> 3

Address(s) ==
  LET net == NetBytes(CLASS(s)) IN
  [k \in 1..4 |-> IF k <= net THEN s[k]
                  ELSE IF k > 4 - (Len(s) - net) THEN s[k - (4 - Len(s))]
                  ELSE 0]

WellFormed(s) ==
  /\ \A k \in DOMAIN s : s[k] \in 0..(ByteSize - 1) /\ name[k].stop # "other"
  /\ s # <<>> /\ Len(s) > NetBytes(CLASS(s))

(* Names whose first part is of class A or B, or that have four parts.     *)
Specified == Len(Parts) = 4 \/ (Parts # <<>> /\ CLASS(Parts) # 3)

(* parseip() accepts exactly the names that have a part of the host, and   *)
(* its answer is the network's bytes, zeros, the host's bytes: whatever    *)
(* the stack held, and for every class whose short forms it knows.         *)
AddressInv ==
  Specified /\ result # "none" =>
    IF WellFormed(Parts) THEN result = "ok" /\ addr = Address(Parts)
    ELSE result = "refused"

(* net.c:135: parseip() converts the text form of an address to the        *)
(* corresponding number; the answer is made of the text alone.             *)
MadeOfName ==
  result = "ok" => \A k \in 1..4 : addr[k] \in {0} \cup {Parts[j] : j \in DOMAIN Parts}
=============================================================================
