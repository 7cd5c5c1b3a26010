SPECIFICATION Spec
CONSTANTS
    Events = {e1, e2, e3, e4, e5, e6}
    Width = 3
    Lease = 1
SYMMETRY EventSymmetry
INVARIANTS TypeOK
PROPERTY ImplementsDeadlines
