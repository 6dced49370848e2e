SPECIFICATION FairSpec
CONSTANTS
  Names <- MCNames
  Worlds <- MCWorlds
  Qname = "b"
  Anchored = FALSE
  Dots = 0
  Ndots = 1
  Search <- MCSearch
  Lookup <- MCLookup
  Hosts = {"c"}
  Servers <- OneServer
  Rotate = FALSE
  Attempts = 2
  MaxDepth = 3
  Modes = {TRUE, FALSE}
  MaxRefer = 1
  MaxLate = 1
INVARIANTS StackBounded ResolvesRight FailOnlyUnheard
PROPERTY LookupEnds
CHECK_DEADLOCK FALSE
