CONSTANTS
    SupermarketOptions <- MCSupermarketOptions
    TimeLimit = 9
    CalcClients = {"c1", "c2"}
    CalcWorkers = {"w1"}
    CalcRequests <- MCCalcRequests
    Width = 3
    RecvOperands = 3
    Backlog = 1
    Ports = {1, 2, 3}
    Peers = {"a", "b", "c"}
    MaxLinks = 2
    Cases <- MCCases
    Simulators = {"supermarket", "calc", "scan", "chat"}
SPECIFICATION NetSpec
INVARIANTS EventsRight SocketsRight ChatClientRight
PROPERTIES EverythingRead
CHECK_DEADLOCK FALSE
