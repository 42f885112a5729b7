CONSTANTS
    None = None
    Workers = {w1}
    Clients = {c1, c2}
    Timeout = 2
SPECIFICATION FairSpec
PROPERTY ConnectionsEnd
PROPERTY ClientsAccepted
