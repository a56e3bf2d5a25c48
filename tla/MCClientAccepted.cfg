CONSTANTS
    c1 = c1
    c2 = c2
    Client <- MCClient
    NoClient = NoClient
    SerialModulus = 7
    MaxAccepts = 5
SPECIFICATION Spec
SYMMETRY ClientSymmetry
INVARIANT SuccessIsAccepted
CHECK_DEADLOCK FALSE
