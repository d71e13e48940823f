SPECIFICATION Spec
CONSTANTS
  a = a
  b = b
  c = c
  x = x
  y = y
  Absent = Absent
  Cold = Cold
  Files <- MCFiles
  Names <- MCNames
  Lines <- MCLines
  Contents <- MCContents
  Origin <- MCOrigin
  Procs = {"p1", "p2"}
  MaxChanges = 3
  MaxCrashes = 1
  PerName = 1
  Doubtful <- MCDoubtful
  Unstamped <- MCUnstamped
INVARIANTS
  NothingIsLost
  EdgesAreTrue
  ParkedWasOffered
PROPERTY
  PassesSeeTheDatabase
CHECK_DEADLOCK FALSE
