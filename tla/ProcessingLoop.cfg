SPECIFICATION FairSpec
CONSTANTS
    a = a
    b = b
    c = c
    a1 = a1
    b1 = b1
    b2 = b2
    c1 = c1
    Modules = {a, b, c}
    Order <- ThreeModules
    Inputs = {a1, b1, b2, c1}
    InputsOf <- TheirInputs
    Transformed = {b1}
    Reconnected = {b1}
    Throwing = {a, b}
    Nil = Nil
    MaxCycles = 3
INVARIANTS
    NoReentry
    OncePerCycle
    InputsAreCurrent
    OrderDoesNotMatter
PROPERTIES
    CycleAdvances
    CycleEnds
CHECK_DEADLOCK FALSE
