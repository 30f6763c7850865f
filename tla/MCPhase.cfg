SPECIFICATION Spec
CONSTANTS
  t1 = t1
  t2 = t2
  Order <- TwoTasks
  MaxTip = 2
  MaxFaults = 2
  FixBudget = 1
  MaxRounds = 1
  MaxRuns = 2
INVARIANT PhaseProven RoundSpentOnce CompleteIsTested ReceiptTells
CHECK_DEADLOCK FALSE
