SPECIFICATION Spec
CONSTANTS
  Pids = {p1, p2, p3}
  Lists <- Edited
  EditWhenUp = FALSE
  MaxFaults = 4
  None = None
PROPERTIES StaleIsReplaced
