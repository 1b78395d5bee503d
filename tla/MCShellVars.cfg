SPECIFICATION Spec
CONSTANTS
    Name = {A}
    Literal = {one, two}
    Blank = Blank
    Unset = Unset
    MaxAssign = 2
    MaxLines = 2
    MaxStages = 2
    MaxDepth = 1
INVARIANT
    AssignmentsUndone
PROPERTY
    ImplementsDynamicScope
