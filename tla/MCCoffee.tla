------------------------------ MODULE MCCoffee ------------------------------
(***************************************************************************)
(* Instances of CoffeeSession for TLC: the budgets of the runs.            *)
(***************************************************************************)
EXTENDS CoffeeRefinement, TLC

Allow(command, tap, reject, lost, crash, delete) ==
  [command |-> command, tap |-> tap, reject |-> reject,
   lost |-> lost, crash |-> crash, delete |-> delete]

MCBudgetChat == Allow(2, 2, 1, 0, 0, 1)
MCBudgetRestart == Allow(2, 0, 0, 1, 2, 0)
MCBudgetRetry == Allow(1, 1, 4, 1, 1, 0)
MCBudgetEarly == Allow(2, 0, 0, 0, 0, 0)

MCSymmetry == Permutations(Users)
=============================================================================
