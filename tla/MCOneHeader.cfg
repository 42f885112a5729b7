SPECIFICATION Spec
CONSTANTS
    Characters <- Alphabet
    Token <- MCToken
    Quote = "q"
    Keep = 2
    Worlds <- MCWorlds
    Chunks = {1, 2, 3, 5}
INVARIANTS TypeOK NoNameLost NoTextLost JoinsWhatIsIncluded
CHECK_DEADLOCK FALSE
