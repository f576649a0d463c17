SPECIFICATION SessionSpec
CONSTANTS
  Names = {"Ana", "ANA", "Leo"}
  Passes = {"p1", "p2"}
  SlugOf <- AllSlugs
  SlugMax = 2
  MaxUsers = 2
  NameW = 2
  PlainW = 2
  HashW = 5
  Legacy <- LeftOver
  Cut = "cut"
  NoText = "empty"
  MaxFaults = 1
  MaxBadReads = 1
  MaxBoots = 3
  Typeable <- Typed
  DevUser <- Admin
  DevPass = "admin"
CHECK_DEADLOCK FALSE
INVARIANT SavedAccountsStay
