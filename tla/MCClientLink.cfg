SPECIFICATION Spec
CONSTANTS
    f1 = f1
    f2 = f2
    Forms <- TwoForms
    Kinds <- AllKinds
    MaxReqs = 3
    MaxRx = 6
    IdSpace = 2
    Timeout = 2
INVARIANTS TypeOK OwnAnswer Resynced
PROPERTIES CallsReturn
