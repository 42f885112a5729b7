SPECIFICATION FairClients
CONSTANT MaxMessages = 2
INVARIANTS ClientsTypeOK AliveWhileUsed InStep PrintedAfterClose
PROPERTIES ImplementsExchange ReturnsWhenClosed
CHECK_DEADLOCK FALSE
