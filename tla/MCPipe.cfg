CONSTANTS
  Clients = {c1, c2, c3}
  MaxWritten = 3
  MaxBatch = 2
  Budgets <- MCBudgets
  MaxPushbacks = 3
SPECIFICATION Spec
SYMMETRY Symmetry
CHECK_DEADLOCK FALSE
INVARIANTS PipeInvariant NoForgottenDeferred AnswersTrue
PROPERTIES FirstComeFirstServed ImplementsChannel
