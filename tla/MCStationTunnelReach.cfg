CONSTANTS
    Consoles = {"c1", "c2", "c3"}
    Hosts = {"c1"}
SPECIFICATION Spec
CHECK_DEADLOCK FALSE
PROPERTY StationReachesHost
