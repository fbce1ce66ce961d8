------------------------------- MODULE Context -------------------------------
(***************************************************************************)
(* The change of stacks: makecontext() and swapcontext() of context.c, the *)
(* assembler getxmcontext() and setxmcontext() of asm.S, and what          *)
(* taskalloc(), taskstart(), needstack() and taskswitch() do with stacks.  *)
(*                                                                         *)
(* Memory is a function from word addresses to words; stacks grow down.    *)
(* Return addresses are negative numbers, one for each place of the code   *)
(* that is returned to.  Calls push their argument and return address, as  *)
(* the 386 does.  Frames of other functions on the way are left out.       *)
(***************************************************************************)
EXTENDS Integers, Sequences, FiniteSets

CONSTANTS
  Task,    \* the Task blocks
  Sched,   \* the scheduler, which runs on the stack of the process
  Stk,     \* Stk[f]: lowest word of the stack of f
  Size,    \* words of a stack
  Align,   \* words to which makecontext() aligns: 4
  Low,     \* words left open at the low end: 2
  Ends,    \* words left open at both ends: 16
  Red,     \* words needstack(0) wants to be left: 64
  Half,    \* 2^16: an uint has Half * Half values
  Reg,     \* the general and segment registers that are saved
  Val,     \* values of registers and local variables
  MaxWork  \* bound: words that a flow's own code has on its stack

Flow == Task \cup {Sched}

VARIABLES
  mem,    \* the words of all stacks
  cpu,    \* esp, eip, eax and the other registers
  ctx,    \* uc_xmcontext of every flow
  arg,    \* oucp and ucp of the swapcontext() call under way
  self,   \* the Task that taskstart() found in its arguments
  image,  \* what the code of a flow knows of its own stack and registers
  live,   \* tasks that exist
  ended   \* the program was aborted

vars == <<mem, cpu, ctx, arg, self, image, live, ended>>

(* Places in the code: in swapcontext() at its start and after the calls   *)
(* of getcontext() and setcontext(), taskstart(), and a task's own code.   *)
Swap      == -1
Gret      == -2
Sret      == -3
TaskStart == -4
User      == -5

StackOf(f) == Stk[f]..(Stk[f] + Size - 1)
On(f)      == cpu.esp \in StackOf(f)
At(f, p)   == ~ended /\ On(f) /\ cpu.eip = p
Top(f)     == Stk[f] + Size - 1
Regs(v)    == [r \in Reg |-> v]
NoContext  == [esp |-> 0, eip |-> 0, eax |-> 0, reg |-> Regs(0)]
NoImage    == [esp |-> 0, reg |-> Regs(0), words |-> <<>>]

(* Stacks come from malloc() and are apart, at addresses of no more than   *)
(* 48 bits.  A task has room for its arguments, aligned, between what is   *)
(* left open; needstack() asks for more than swapcontext() takes; and the  *)
(* scheduler, which does not ask, has that much left on the stack of the   *)
(* process.                                                                *)
ContextAssumption ==
  /\ Sched \notin Task /\ Stk \in [Flow -> Nat]
  /\ \A n \in {Size, Align, Low, Ends, Red, Half, MaxWork} : n \in Nat \ {0}
  /\ Val \subseteq Nat /\ 0 \in Val
  /\ \A f, g \in Flow : f # g => StackOf(f) \cap StackOf(g) = {}
  /\ \A t \in Task : Stk[t] < Half * Half * Half
  /\ Low <= Ends /\ Ends + Align + 3 <= Size + Low
  /\ Red >= 3 /\ MaxWork + 4 <= Size
-----------------------------------------------------------------------------
(* Creation *)

UInt == Half * Half
Pointer(t) == Stk[t]

(* taskalloc(): x is z shifted by 16 bits twice.                           *)
SplitHigh(z) == ((z \div Half) \div Half) % UInt
SplitLow(z)  == z % UInt

(* taskstart(): x << 16 is an uint, the second shift is of an ulong.       *)
Joined(y, x) == ((x * Half) % UInt) * Half + y

(* makecontext(): the address below the arguments.                         *)
ArgsAt(t) ==
  LET sp == Stk[t] + Low + (Size - Ends) - 2
  IN  sp - (sp % Align)

(* taskalloc() gives a fresh Task the present registers; makecontext()     *)
(* puts the arguments and a return address of 0 on its stack.              *)
Creates(f, t) ==
  LET sp == ArgsAt(t) - 1 IN
  /\ At(f, User) /\ t \in Task \ live
  /\ mem' = [mem EXCEPT ![sp] = 0, ![sp + 1] = SplitLow(Pointer(t)),
                        ![sp + 2] = SplitHigh(Pointer(t))]
  /\ ctx' = [ctx EXCEPT ![t] = [esp |-> sp, eip |-> TaskStart, eax |-> 1,
                                reg |-> cpu.reg]]
  /\ live' = live \cup {t}
  /\ self' = [self EXCEPT ![t] = 0]
  /\ UNCHANGED <<cpu, arg, image, ended>>

(* taskstart() takes its arguments and calls the function of the Task.     *)
Starts(t) ==
  /\ At(t, TaskStart)
  /\ self' = [self EXCEPT ![t] = Joined(mem[cpu.esp + 1], mem[cpu.esp + 2])]
  /\ cpu' = [cpu EXCEPT !.eip = User]
  /\ image' = [image EXCEPT ![t] = [esp |-> cpu.esp, reg |-> cpu.reg, words |-> <<>>]]
  /\ UNCHANGED <<mem, ctx, arg, live, ended>>

(* A flow's own code uses its registers and its stack, within its bounds.  *)
Works(f, v) ==
  /\ At(f, User) /\ cpu.esp > Stk[f] + 1 /\ Len(image[f].words) < MaxWork
  /\ mem' = [mem EXCEPT ![cpu.esp - 1] = v]
  /\ cpu' = [cpu EXCEPT !.esp = @ - 1, !.reg = Regs(v)]
  /\ image' = [image EXCEPT ![f] = [esp |-> cpu.esp - 1, reg |-> Regs(v),
                                    words |-> <<v>> \o @.words]]
  /\ UNCHANGED <<ctx, arg, self, live, ended>>
-----------------------------------------------------------------------------
(* Switching *)

(* needstack(0): too little is left.  The scheduler does not ask.          *)
Needs(f) == f # Sched /\ cpu.esp - Stk[f] < Red

Overflow(f) ==
  /\ At(f, User) /\ Needs(f)
  /\ ended' = TRUE
  /\ UNCHANGED <<mem, cpu, ctx, arg, self, image, live>>

(* contextswitch(): f calls swapcontext() to go on with u.  A task that    *)
(* exits does the same and is freed afterwards.                            *)
Switches(f, u, exits) ==
  /\ At(f, User) /\ ~Needs(f)
  /\ mem' = [mem EXCEPT ![cpu.esp - 1] = User]
  /\ cpu' = [cpu EXCEPT !.esp = @ - 1, !.eip = Swap]
  /\ arg' = <<f, u>>
  /\ live' = IF exits THEN live \ {f} ELSE live
  /\ image' = IF exits THEN [image EXCEPT ![f] = NoImage] ELSE image
  /\ UNCHANGED <<ctx, self, ended>>

(* getxmcontext(): registers, 1 for eax, the return address, and the stack *)
(* pointer as it will be after the return.                                 *)
Saved(esp) == [esp |-> esp, eip |-> Gret, eax |-> 1, reg |-> cpu.reg]

getcontext(f) ==
  LET esp == cpu.esp - 1 IN
  /\ At(f, Swap)
  /\ mem' = [mem EXCEPT ![esp] = 0, ![esp - 1] = Gret]
  /\ ctx' = [ctx EXCEPT ![arg[1]] = Saved(esp)]
  /\ cpu' = [cpu EXCEPT !.esp = esp, !.eip = Gret, !.eax = 0]
  /\ UNCHANGED <<arg, self, image, live, ended>>

(* Mutant of Pushed: a context that was saved is relied on to have its     *)
(* return address on its stack.                                            *)
PushedNew(m, c) == IF c.eip = TaskStart THEN [m EXCEPT ![c.esp - 1] = c.eip] ELSE m

(* pushl of the new eip onto the new stack.                                *)
Pushed(m, c) == [m EXCEPT ![c.esp - 1] = c.eip]

(* setxmcontext(): its call has overwritten the return address of          *)
(* getxmcontext() on the old stack; its ret takes what it has pushed.      *)
setcontext(f) ==
  LET c == ctx[arg[2]]
      m == Pushed([mem EXCEPT ![cpu.esp - 1] = Sret], c)
  IN
  /\ At(f, Gret) /\ cpu.eax = 0
  /\ mem' = m
  /\ cpu' = [esp |-> c.esp, eip |-> m[c.esp - 1], eax |-> c.eax, reg |-> c.reg]
  /\ UNCHANGED <<ctx, arg, self, image, live, ended>>

(* getcontext() has returned for the second time: swapcontext() returns.   *)
swapcontextReturns(f) ==
  /\ At(f, Gret) /\ cpu.eax = 1
  /\ cpu' = [cpu EXCEPT !.esp = @ + 2, !.eip = mem[cpu.esp + 1], !.eax = 0]
  /\ UNCHANGED <<mem, ctx, arg, self, image, live, ended>>
-----------------------------------------------------------------------------
(* The scheduler runs and has no tasks yet.                                *)
Init ==
  /\ mem = [a \in UNION {StackOf(f) : f \in Flow} |-> 0]
  /\ cpu = [esp |-> Top(Sched), eip |-> User, eax |-> 0, reg |-> Regs(0)]
  /\ ctx = [f \in Flow |-> NoContext]
  /\ arg = <<Sched, Sched>>
  /\ self = [t \in Task |-> 0]
  /\ image = [f \in Flow |-> IF f = Sched THEN [NoImage EXCEPT !.esp = Top(f)] ELSE NoImage]
  /\ live = {} /\ ended = FALSE

Next ==
  \/ \E f \in Flow :
       \/ \E t \in Task : Creates(f, t)
       \/ \E v \in Val : Works(f, v)
       \/ Overflow(f) \/ getcontext(f) \/ setcontext(f) \/ swapcontextReturns(f)
  \/ \E t \in Task :
       \/ Starts(t)
       \/ t \in live /\ Switches(Sched, t, FALSE)
       \/ \E exits \in BOOLEAN : Switches(t, Sched, exits)
  \/ ended /\ UNCHANGED vars

Spec == Init /\ [][Next]_vars
-----------------------------------------------------------------------------
(* What each flow has put on its stack stays there while others run, are   *)
(* created and exit; and when it has the CPU back from swapcontext(), its  *)
(* stack pointer and all registers are what they were before the call.     *)
IntactInv ==
  /\ \A f \in live \cup {Sched} : \A k \in DOMAIN image[f].words :
       mem[image[f].esp + k - 1] = image[f].words[k]
  /\ \A f \in Flow : At(f, User) => cpu.esp = image[f].esp /\ cpu.reg = image[f].reg

(* assert(1 == 0) behind setcontext() (context.c:53) is never executed:    *)
(* control comes back to swapcontext() only as the second return of        *)
(* getcontext(), although the return address that this takes has been      *)
(* overwritten by the call of setcontext().                                *)
NeverReached == cpu.eip # Sret

(* needstack() leaves swapcontext() room: it never writes below the stack, *)
(* where the Task and its saved context lie.                               *)
RoomInv ==
  ~ended => \E f \in live \cup {Sched, arg[1]} : cpu.esp - 1 \in StackOf(f)

(* taskstart() begins on the stack of its own Task, aligned as makecontext *)
(* promises, with nothing to return to, and puts its Task's address        *)
(* together again.                                                         *)
StartInv ==
  /\ \A t \in Task : At(t, TaskStart) =>
       (cpu.esp + 1) % Align = 0 /\ mem[cpu.esp] = 0
  /\ \A t \in live : self[t] \in {0, Pointer(t)}

(* swapcontext() is a switch of stacks: what a flow has on its stack and   *)
(* in its registers is its own, its new stack is what taskalloc() asked    *)
(* for, and neither the assert behind setcontext() nor memory outside the  *)
(* stacks is reached.                                                      *)
SwitchInv == IntactInv /\ NeverReached /\ RoomInv /\ StartInv
=============================================================================
