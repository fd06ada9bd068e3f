SPECIFICATION Spec
CONSTANTS
    Calls = {c1, c2}
    Children = {k1, k2}
    None = None
INVARIANTS
    OwnsItsChild
