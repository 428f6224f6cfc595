SPECIFICATION Spec
CONSTANTS
    Hosts = {"localhost", "remote"}
    Localhost = "localhost"
    Numbers <- MCNumbers
    Ports <- MCPorts
    WithGRPC = TRUE
    MaxGiven = 5
INVARIANTS
    TypeOK
    RangesHold
    EndpointsLegal
