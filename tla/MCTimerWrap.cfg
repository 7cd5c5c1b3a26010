SPECIFICATION Spec
CONSTANTS
    Events = {e1, e2}
    Width = 6
    Lease = 3
SYMMETRY EventSymmetry
PROPERTY ExtendsForward
