SPECIFICATION Spec
CONSTANTS
    Servers = {s1, s2}
    Providers = {p1, p2}
    LegacyTimes = {1, 2}
    MaxRefreshes = 2
    None = None
SYMMETRY StoreSymmetry
INVARIANTS SchemaWhole
PROPERTIES StateSpec
