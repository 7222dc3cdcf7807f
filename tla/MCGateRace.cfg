SPECIFICATION Spec
CONSTANTS
    Requests = {q1, q2, q3}
    Rate = 1
    Concurrency = 3
    MaxNow = 3
    None = None
SYMMETRY RequestSymmetry
CHECK_DEADLOCK FALSE
INVARIANTS AdmissionBound
