SPECIFICATION Spec
CONSTANTS
  c1 = c1
  c2 = c2
  Agent = agent
  Clients = {agent, other}
  Categories = {c1, c2}
  Defaults = {c1}
  Amounts = {1, 2}
  Dates = {1, 2}
  MaxId = 2
  Requests <- MCRequests
  Filters <- MCFilters
  None = None
  Bad = Bad
  NoBill = NoBill
  MaxRound = 1
  MaxCalls = 2
  MaxTurns = 2
  MaxDay = 2
  MaxDeaths = 1
  MaxForeign = 1
INVARIANTS StatisticsAgreeWithQuery AskedWithTodaysPrompt SeenIsRemembered NothingHalfDone
PROPERTIES ImplementsBook TurnEnds
