CONSTANTS
  WindowSize = 3
  Budgets <- MCBudgets
  Tokens = {1, 2}
  MaxMessages = 6
SPECIFICATION WindowSpec
INVARIANT RolesAlternate
