SPECIFICATION Spec
CONSTANTS
  Callers = {c1, c2}
  MaxSize = 2
  Images <- MCImages
  MaxCalls = 2
  MaxTime = 4
  Life = 4
  Margin = 2
  Delay = 1
INVARIANTS TokenValidWhenUsed ArrivedIsPrefix ReportIsTrue
PROPERTY CallEnds
