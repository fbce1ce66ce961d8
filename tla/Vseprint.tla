------------------------------ MODULE Vseprint ------------------------------
(***************************************************************************)
(* vseprint() of print.c, which all printing goes through: it copies a     *)
(* format to a buffer of fixed size and replaces its directives.           *)
(*                                                                         *)
(* A format is a sequence of tokens: literal characters, and directives    *)
(* with width, verb and argument already taken from the format and from    *)
(* the argument list.  Formats end in a complete directive, as all in the  *)
(* library do.                                                             *)
(***************************************************************************)
EXTENDS Integers, Sequences, SequencesExt

CONSTANTS
  Range2,   \* number of values of uvlong: 2^64
  Char,     \* the characters
  Formats,  \* the formats
  Sizes     \* sizes edst - dst of the buffer

digits == <<"0", "1", "2", "3", "4", "5", "6", "7", "8", "9", "a", "b", "c",
            "d", "e", "f">>

(* The characters that vseprint() writes of its own.                       *)
Own == {digits[k] : k \in 1..16} \cup {" ", "-", "x", "*", "v", "r"}

(* The argument of a signed directive fits in vlong, that of an unsigned   *)
(* one in uvlong.                                                          *)
Signed   == {n \in Int : -Range2 <= 2 * n /\ 2 * n < Range2}
Unsigned == 0..(Range2 - 1)

Directive(values, u) ==
  [kind : {"number"}, v : values, u : {u}, base : {8, 10, 16}, width : Int]

Token ==
  Directive(Signed, FALSE) \cup Directive(Unsigned, TRUE)
    \cup [kind : {"char"}, char : Char]
    \cup [kind : {"string"}, s : Seq(Char), width : Int]
    \cup [kind : {"bad"}]

PrintAssumption ==
  /\ Range2 \in Nat \ {0} /\ Range2 % 2 = 0 /\ Sizes \subseteq Nat \ {0}
  /\ Own \subseteq Char /\ Formats \subseteq Seq(Token)

VARIABLES
  fmt,    \* what is left of the format, from p on
  size,   \* edst - dst
  out,    \* the characters from dst to w
  full,   \* the text without regard to the size of the buffer
  number  \* the last number printed, with the text made of it

vars == <<fmt, size, out, full, number>>

Blanks(n) == [k \in 1..n |-> " "]
-----------------------------------------------------------------------------
(* Numbers *)

(* luv: the argument as uvlong.  u stands for FlagUnsigned.                *)
Luv(v)         == v % Range2
Negative(v, u) == ~u /\ 2 * Luv(v) >= Range2

(* luv after the sign has been taken off.                                  *)
Magnitude(v, u) == IF Negative(v, u) THEN (-Luv(v)) % Range2 ELSE Luv(v)

(* The digits of luv, written from the back of buf.                        *)
Digits(luv, base) ==
  LET d[n \in 0..luv] ==
        IF n = 0 THEN <<>> ELSE Append(d[n \div base], digits[(n % base) + 1])
  IN  d[luv]

(* What stands in front of the digits.                                     *)
Prefix(luv, base) ==
  (IF base = 8 \/ luv = 0 THEN <<"0">> ELSE <<>>)
    \o (IF base = 16 THEN <<"0", "x">> ELSE <<>>)

(* The text of v.  neg is set for negative numbers only: for the others it *)
(* is what happens to be on the stack.                                     *)
Texts(v, u, base) ==
  LET luv  == Magnitude(v, u)
      body == Prefix(luv, base) \o Digits(luv, base)
      negs == IF Negative(v, u) THEN {TRUE} ELSE BOOLEAN
  IN  {IF neg THEN <<"-">> \o body ELSE body : neg \in negs}
-----------------------------------------------------------------------------
(* Mutant of Clip: no room is kept for the terminator.                     *)
ClipNot(n, room) == IF n > room THEN room ELSE n

(* n characters at most, and one less than there is room for.              *)
Clip(n, room) == IF n >= room THEN room - 1 ELSE n

Larger(a, b)  == IF a > b THEN a ELSE b
Smaller(a, b) == IF a < b THEN a ELSE b
Abs(n)        == IF n < 0 THEN -n ELSE n

(* printstr(): s in a field of |width|, to the left for a negative width.  *)
printstr(s, width, room) ==
  LET n == Clip(Larger(Len(s), Abs(width)), room)
      l == Smaller(Len(s), n)
  IN  IF room <= 0 THEN <<>>
      ELSE IF width < 0 THEN SubSeq(s, 1, l) \o Blanks(n - l)
      ELSE Blanks(n - l) \o SubSeq(s, 1, l)

(* The same field, without regard to the buffer.                           *)
Field(s, width) ==
  LET pad == Blanks(Larger(Abs(width) - Len(s), 0))
  IN  IF width < 0 THEN s \o pad ELSE pad \o s

Scanning == fmt # <<>> /\ Len(out) < size - 1

Literal ==
  /\ Scanning /\ Head(fmt).kind = "char"
  /\ out' = Append(out, Head(fmt).char)
  /\ full' = Append(full, Head(fmt).char)
  /\ fmt' = Tail(fmt)
  /\ UNCHANGED <<size, number>>

(* %c, %s, %r: the argument is a string.                                   *)
String ==
  /\ Scanning /\ Head(fmt).kind = "string"
  /\ out' = out \o printstr(Head(fmt).s, Head(fmt).width, size - Len(out))
  /\ full' = full \o Field(Head(fmt).s, Head(fmt).width)
  /\ fmt' = Tail(fmt)
  /\ UNCHANGED <<size, number>>

(* %d, %o, %x, %p                                                          *)
Number ==
  /\ Scanning /\ Head(fmt).kind = "number"
  /\ \E text \in Texts(Head(fmt).v, Head(fmt).u, Head(fmt).base) :
       /\ out' = out \o printstr(text, Head(fmt).width, size - Len(out))
       /\ full' = full \o Field(text, Head(fmt).width)
       /\ number' = [v |-> Head(fmt).v, base |-> Head(fmt).base, text |-> text]
  /\ fmt' = Tail(fmt)
  /\ UNCHANGED size

(* An unknown verb: the rest of the format is given up for "*verb*".       *)
BadVerb ==
  /\ Scanning /\ Head(fmt).kind = "bad"
  /\ fmt' = [k \in 1..6 |-> [kind |-> "char",
                             char |-> <<"*", "v", "e", "r", "b", "*">>[k]]]
  /\ UNCHANGED <<size, out, full, number>>

NoNumber == [v |-> 0, base |-> 0, text |-> <<>>]

Init ==
  /\ fmt \in Formats /\ size \in Sizes
  /\ out = <<>> /\ full = <<>> /\ number = NoNumber

Next ==
  \/ Literal \/ String \/ Number \/ BadVerb
  \/ ~Scanning /\ UNCHANGED vars     \* assert(w < edst); *w = 0

Spec == Init /\ [][Next]_vars
-----------------------------------------------------------------------------
(* The buffer is never overrun and its last byte is left for the           *)
(* terminator: assert(w < edst) in vseprint(), whatever widths the format  *)
(* asks for.                                                               *)
BoundInv == Len(out) < size

(* Nothing is lost silently: as long as the buffer is not full it holds    *)
(* the whole text of the directives so far, each padded to its width.      *)
LosslessInv == Len(out) < size - 1 => out = full

(* The number that a text stands for.                                      *)
DigitValue(c) == (CHOOSE k \in 1..16 : digits[k] = c) - 1
Value(text, base) ==
  LET f[k \in 0..Len(text)] ==
        IF k = 0 THEN 0
        ELSE IF text[k] \in {"-", "x"} THEN f[k - 1]
        ELSE f[k - 1] * base + DigitValue(text[k])
  IN  f[Len(text)]

(* %d, %o and %x print a text that stands for the argument's magnitude,    *)
(* with at least one digit, and a sign if the argument is negative: also   *)
(* for zero and for the most negative number.                              *)
NumberInv ==
  number # NoNumber =>
    /\ Value(number.text, number.base) = Abs(number.v)
    /\ number.v < 0 => number.text[1] = "-"
    /\ \E k \in DOMAIN number.text : number.text[k] \notin {"-", "x"}

(* vseprint() stays within its buffer, drops nothing that fits, and prints *)
(* numbers right.                                                          *)
OutputInv == BoundInv /\ LosslessInv /\ NumberInv

(* print.c:195: the sign is printed for negative numbers.                  *)
SignInv == number # NoNumber /\ number.text[1] = "-" => number.v < 0
=============================================================================
