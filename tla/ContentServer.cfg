SPECIFICATION ServerFairSpec
CONSTANTS
    Component <- MCComponent
    DeviceName <- MCDevice
    User <- MCUser
    Broadcast <- MCBroadcast
    Hint <- MCHint
    Request <- MCRequest
    Ports <- MCPorts
    MaxAsk = 2
    MaxMove = 1
    MaxStop = 1
CHECK_DEADLOCK FALSE
INVARIANTS AnswersSound LocatorSound
PROPERTIES AskedIsAnswered
