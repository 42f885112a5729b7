CONSTANTS
    Size = 8
    Sizes = {1, 2, 3}
    MaxOwners = 3
SPECIFICATION Spec
INVARIANT TypeOK
INVARIANT CountIsExact
INVARIANT OwnedPoolExists
PROPERTY ImplementsRegion
CHECK_DEADLOCK FALSE
