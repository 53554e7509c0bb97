SPECIFICATION Spec
CONSTANTS
    ann = ann
    bob = bob
    k1 = k1
    k2 = k2
    Users = {ann, bob}
    Keys = {k1, k2}
    Values = {1, 2}
    Declared = {k1}
    Kinds <- MCKinds
    Faults = {"call", "yaml", "interrupt"}
    Empty = Empty
    None = None
CHECK_DEADLOCK FALSE
PROPERTIES UntouchedKept
