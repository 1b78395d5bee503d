SPECIFICATION Spec
CONSTANTS
    Item = {a, b}
    N = 3
    None = None
INVARIANT RepresentationInv
PROPERTY ImplementsQueue
