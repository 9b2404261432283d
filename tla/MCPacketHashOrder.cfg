SPECIFICATION Spec
CONSTANTS
    Quarter = 2
    RootName = "root"
    Seeds = {3, 150}
    Requests <- MCRequests
    Responses <- MCResponses
    Key <- MCKey
    Accepts <- MCAccepts
    HashFunctions <- MCHashFunctions
    MinCapacity = 2
    MaxSearch = 1
PROPERTY ReturnsOldest
