SPECIFICATION PathSpec
CONSTANTS
    Others <- MCOthers
    Texts <- MCTexts
    MaxSize = 100
    Targets <- MCTargets
    Arguments <- MCArguments
    PoolSize = 6
    IndexName <- MCIndexName
    TypeOf <- MCTypeOf
    Lower <- MCLower
INVARIANTS PathTypeOK InBounds StripsByParity StaysBelowRoot TypeIsTheFiles AnsweredOnceIfComplete
CHECK_DEADLOCK FALSE
