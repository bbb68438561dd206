SPECIFICATION FairSpec
CONSTANTS
  Pids = {p1, p2, p3}
  Lists <- Edited
  EditWhenUp = FALSE
  MaxFaults = 4
  None = None
INVARIANTS TypeOK PidNamesServer InstancesMatch
PROPERTIES ServesAgain
