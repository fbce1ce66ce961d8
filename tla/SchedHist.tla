------------------------------ MODULE SchedHist ------------------------------
(***************************************************************************)
(* Module Sched with history variables, for what the README says of the    *)
(* value taskyield() returns and of the exit status of the program.        *)
(***************************************************************************)
EXTENDS Sched

VARIABLES
  ahead,   \* for a task in taskyield(): the tasks that were ready when it called
  ran,     \* ... and the other tasks that have been on the CPU since
  leaver   \* how the last task that stopped being a non-system task did so

histVars == <<schedVars, ahead, ran, leaver>>

InYield(t)  == yieldn[t] # NoYield
Entering(t) == ~InYield(t) /\ yieldn'[t] # NoYield
Switched(u) == oncpu = "sched" /\ oncpu' = "task" /\ taskrunning' = u

HistInit ==
  /\ Init
  /\ ahead = [t \in Task |-> {}]
  /\ ran = [t \in Task |-> {}]
  /\ leaver = [how |-> "none", status |-> 0]

HistNext ==
  /\ Next
  /\ ahead' = [t \in Task |-> IF Entering(t) THEN Range(runqueue)
                              ELSE IF yieldn'[t] = NoYield THEN {}
                              ELSE ahead[t]]
  /\ ran' = [t \in Task |-> IF Entering(t) \/ yieldn'[t] = NoYield THEN {}
                            ELSE ran[t] \cup {u \in Task \ {t} : Switched(u)}]
  /\ leaver' =
       IF \E t \in Users : ~exiting[t] /\ exiting'[t]
       THEN [how |-> "exit", status |-> taskexitval']
       ELSE IF \E t \in Users : system'[t]
       THEN [how |-> "system", status |-> 0]
       ELSE leaver

HistSpec == HistInit /\ [][HistNext]_histVars
-----------------------------------------------------------------------------
(* README:42-46 on taskyield(): the caller runs again once every task that *)
(* was ready has had its turn, and the result is the number of other tasks *)
(* that ran meanwhile (also when the switch counter has wrapped).          *)
YieldCountsOthers ==
  \A t \in Task : InYield(t) /\ taskrunning = t /\ oncpu = "task" =>
    /\ ran[t] = ahead[t]
    /\ YieldResult(t) = Cardinality(ran[t])

(* README:29-30 on taskexit(): when the last non-system task leaves by     *)
(* taskexit(), the program ends with that task's status, whatever status   *)
(* system tasks exit with.                                                 *)
ExitStatus ==
  ended = "done" /\ leaver.how = "exit" => taskexitval = leaver.status
=============================================================================
