--------------------------- MODULE MCRegistration ---------------------------
(***************************************************************************)
(* Instances of RegistrationFlow for TLC: the budgets of the runs.         *)
(***************************************************************************)
EXTENDS RegistrationFlow, TLC

Allow(command, clash, drop, crash) ==
  [command |-> command, clash |-> clash, drop |-> drop, crash |-> crash]

MCCalm == Allow(3, 0, 0, 0)
MCFaults == Allow(2, 1, 1, 1)
MCTwoCommands == Allow(2, 0, 0, 0)

MCSymmetry == Permutations(Tasks) \cup Permutations(Names)
=============================================================================
