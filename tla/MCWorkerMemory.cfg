CONSTANTS
    Size = 10
    Modes <- MCModes
    FieldSizes = {1, 2, 3}
    ResponseFields <- MCResponseFields
    BeforeBody = 2
SPECIFICATION Spec
INVARIANT TypeOK
INVARIANT BooksBalance
INVARIANT NoCarryOver
PROPERTY OneDelivery
PROPERTY OwnFieldsAlone
CHECK_DEADLOCK FALSE
