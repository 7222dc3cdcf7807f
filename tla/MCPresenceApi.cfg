SPECIFICATION ApiSpec
CONSTANTS
    Sessions = {s1, s2, s3}
    TTL = 2
    MaxViewers = 2
    MaxTime = 8
    MaxActivations = 3
CHECK_DEADLOCK FALSE
SYMMETRY SessionSymmetry
INVARIANTS CapacityHeld
PROPERTIES ActivationOnFirstViewer RegistrySpec
