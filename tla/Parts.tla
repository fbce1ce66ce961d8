-------------------------------- MODULE Parts --------------------------------
(***************************************************************************)
(* Six parts of the library that do not touch one another's state, side by *)
(* side: the linked lists of task.c, the arrays of Alts of channel.c, the  *)
(* task table as the signal handler sees it, the change of stacks, the     *)
(* reading of addresses in net.c and the formatted output of print.c.      *)
(***************************************************************************)
EXTENDS TaskList

CONSTANTS
  Caller, Chan, None, Grain, Calls,                           \* AltArray
  Block, Junk, Freed, Chunk,                                  \* TaskInfo
  Stacked, Sched, Stk, Size, Align, Low, Ends, Red, Half, Reg, Val, MaxWork, \* Context
  ByteSize, Names, Stacks,                                    \* ParseIp
  Range2, Char, Formats, Sizes                                \* Vseprint

VARIABLES
  a, m, alts, freed, aborted,                                 \* AltArray
  alltask, dangling, nalltask, slot, allocated, pc, cur,      \* TaskInfo
  mem, cpu, ctx, arg, self, image, live, ended,               \* Context
  name, taken, addr, result,                                  \* ParseIp
  fmt, size, out, full, number                                \* Vseprint

A == INSTANCE AltArray WITH Task <- Caller
I == INSTANCE TaskInfo WITH Task <- Block
Ctx == INSTANCE Context WITH Task <- Stacked
Parse == INSTANCE ParseIp WITH i <- taken
Output == INSTANCE Vseprint
-----------------------------------------------------------------------------
(* The arrays of channel.c hold exactly the Alts of the waiting tasks.     *)
ArrayInv == A!ArrayInv

(* What taskinfo() lists when SIGQUIT comes at any instruction.            *)
ListInv == I!ListInv

(* swapcontext() keeps the stacks and registers of tasks apart, taskstart() *)
(* gets what taskalloc() gave to makecontext(), and needstack() leaves room. *)
SwitchInv == Ctx!SwitchInv

(* parseip() agrees with the reference definition of an address.           *)
AddressInv == Parse!AddressInv

(* net.c:135: the answer of parseip() is made of the text alone.           *)
MadeOfName == Parse!MadeOfName

(* vseprint() never overruns its buffer, loses nothing before it is full,  *)
(* and prints numbers right, but for a sign that should not be.            *)
OutputInv == Output!OutputInv

(* print.c:195: vseprint() prints a sign for negative numbers only.        *)
SignInv == Output!SignInv
=============================================================================
