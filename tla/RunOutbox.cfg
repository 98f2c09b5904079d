CONSTANTS
  Tools = {t1}
  MaxGen = 2
  MaxSeq = 6
  Budgets <- MCBudgets
CHECK_DEADLOCK FALSE
SPECIFICATION OutboxSpec
INVARIANTS
  TerminalClosesChat
  OneFactPerIndex
  DeliveriesSurvive
  ClosedIsReceived
PROPERTIES
  FramesLeave
  CancelDecided
