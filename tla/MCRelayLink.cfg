CONSTANTS
    Period = 3
    RouteWait = 2
    MaxFails = 3
    RelayTimeout = 6
    LanHosts = {h1}
SPECIFICATION LinkSpec
CHECK_DEADLOCK FALSE
PROPERTIES RegistrationKept DeadLinkEndsRun 
