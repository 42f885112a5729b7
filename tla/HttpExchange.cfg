SPECIFICATION FairExchange
CONSTANTS
    Workers = {w1}
    Clients = {c1, c2}
    None = None
    Timeout = 2
INVARIANTS ExchangeTypeOK AnsweredAfterAsking
PROPERTIES ClientReturns
