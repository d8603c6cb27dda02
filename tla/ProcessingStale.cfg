SPECIFICATION Spec
CONSTANTS
    a = a
    b = b
    c = c
    a1 = a1
    b1 = b1
    b2 = b2
    c1 = c1
    Modules = {a, b, c}
    Order <- ThreeModules
    Inputs = {a1, b1, b2, c1}
    InputsOf <- TheirInputs
    Transformed = {b1}
    Reconnected = {b1}
    Throwing = {a, b}
    Nil = Nil
    MaxCycles = 3
INVARIANT
    ThrowIsSignalled
CHECK_DEADLOCK FALSE
