CONSTANTS
    c1 = c1
    c2 = c2
    Client <- MCClient
    NoClient = NoClient
    SerialModulus = 7
    MaxAccepts = 5
SPECIFICATION Spec
SYMMETRY ClientSymmetry
INVARIANTS NoMissedSerial SuccessIsNotEarly
CHECK_DEADLOCK FALSE
