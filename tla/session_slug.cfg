SPECIFICATION SessionSpec
CONSTANTS
  Names = {"Ana", "ANA", "Leo"}
  Passes = {"p1", "p2"}
  SlugOf <- AllSlugs
  SlugMax = 2
  MaxUsers = 2
  NameW = 2
  PlainW = 2
  HashW = 5
  Legacy <- None
  Cut = "cut"
  NoText = "empty"
  MaxFaults = 0
  MaxBadReads = 0
  MaxBoots = 3
  Typeable <- Typed
  DevUser <- Admin
  DevPass = "admin"
INVARIANT SavedAccountsOpen
CHECK_DEADLOCK FALSE
VIEW SessionView
