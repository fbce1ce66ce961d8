------------------------------- MODULE MCParts -------------------------------
(***************************************************************************)
(* Model-checking instance of six parts of the library that do not touch   *)
(* one another's state.  A behaviour exercises the part named by part; the *)
(* others stay as they are at the beginning.                               *)
(***************************************************************************)
EXTENDS Parts, TLC

CONSTANTS t1, t2  \* the tasks with stacks

VARIABLE part  \* the part that is exercised

listState    == <<head, tail, next, prev, alarmtime, elems>>
altState     == <<a, m, alts, freed, aborted>>
infoState    == <<alltask, dangling, nalltask, slot, allocated, pc, cur>>
contextState == <<mem, cpu, ctx, arg, self, image, live, ended>>
parseState   == <<name, taken, addr, result>>
printState   == <<fmt, size, out, full, number>>
-----------------------------------------------------------------------------
(* Calls of up to two Alts, also both on the same channel.                 *)
MCCalls == UNION {[1..n -> (Chan \X {"SND", "RCV"}) \cup {None}] : n \in 1..2}

(* Two tasks whose stacks begin at different alignments, one of them       *)
(* beyond what an uint holds.                                              *)
MCStk == (Sched :> 5) @@ (t1 :> 30) @@ (t2 :> 71)

(* Names of up to five numbers between dots, one value for each class and  *)
(* one too large for a byte of two bits, and how the last number stops.    *)
NameOf(s, last) ==
  [k \in DOMAIN s |-> [x |-> s[k], stop |-> IF k = Len(s) THEN last ELSE "dot"]]

AllNames == {NameOf(s, last) : s \in UNION {[1..n -> 0..4] : n \in 0..5},
                               last \in {"end", "dot", "other"}}
NonEmpty == AllNames \ {<<>>}
MCStacks == {[k \in 1..4 |-> b] : b \in 0..3}

(* Formats of up to two tokens, among them the boundary numbers of four    *)
(* bits in three bases, signed and unsigned.                               *)
SignedNumbers ==
  [kind : {"number"}, v : {-8, -7, -1, 0, 7}, u : {FALSE}, base : {8, 10, 16},
   width : {0, 3}]
UnsignedNumbers ==
  [kind : {"number"}, v : {0, 8, 15}, u : {TRUE}, base : {8, 10, 16}, width : {-4}]
Numbers == SignedNumbers \cup UnsignedNumbers
Strings == [kind : {"string"}, s : {<<>>, <<"a", "b">>}, width : {-4, 0, 4}]
Tokens  == Numbers \cup Strings
             \cup {[kind |-> "char", char |-> "c"], [kind |-> "bad"]}

(* The characters of these formats, and those that vseprint() writes.      *)
MCChar == {"0", "1", "2", "3", "4", "5", "6", "7", "8", "9", "a", "b", "c", "d", "e",
           "f", " ", "-", "x", "*", "v", "r"}

AllFormats == UNION {[1..n -> Tokens] : n \in 0..2}
OneNumber  == {<<n>> : n \in Numbers}

(* Task and Block are one set, of which Caller is a part.                  *)
Symmetry == Permutations(Caller)
-----------------------------------------------------------------------------
ASSUME
  /\ TaskListAssumption /\ A!AltArrayAssumption /\ I!InfoAssumption
  /\ Ctx!ContextAssumption /\ Parse!ParseAssumption /\ Output!PrintAssumption

NoParse ==
  /\ name = <<>> /\ taken = 0 /\ addr = [k \in 1..4 |-> 0] /\ result = "refused"
NoPrint ==
  /\ fmt = <<>> /\ size = 1 /\ out = <<>> /\ full = <<>> /\ number = Output!NoNumber

PartsInit ==
  /\ part \in {"lists", "alts", "info", "context", "parse", "output"}
  /\ Init /\ A!Init /\ I!Init /\ Ctx!Init
  /\ IF part = "parse" THEN Parse!Init ELSE NoParse
  /\ IF part = "output" THEN Output!Init ELSE NoPrint

PartsNext ==
  /\ \/ /\ part = "lists" /\ Next
        /\ UNCHANGED <<altState, infoState, contextState, parseState, printState>>
     \/ /\ part = "alts" /\ A!Next
        /\ UNCHANGED <<listState, infoState, contextState, parseState, printState>>
     \/ /\ part = "info" /\ I!Next
        /\ UNCHANGED <<listState, altState, contextState, parseState, printState>>
     \/ /\ part = "context" /\ Ctx!Next
        /\ UNCHANGED <<listState, altState, infoState, parseState, printState>>
     \/ /\ part = "parse" /\ Parse!Next
        /\ UNCHANGED <<listState, altState, infoState, contextState, printState>>
     \/ /\ part = "output" /\ Output!Next
        /\ UNCHANGED <<listState, altState, infoState, contextState, parseState>>
  /\ UNCHANGED part

PartsSpec ==
  PartsInit /\ [][PartsNext]_<<part, listState, altState, infoState, contextState,
                               parseState, printState>>
=============================================================================
