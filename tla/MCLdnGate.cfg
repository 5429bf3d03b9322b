SPECIFICATION GateSpec
CONSTANTS
    Timeout = 3
    Grace = 2
    WaitPeriod = 1
    RunPeriod = 1
    Backoff = 1
    StartMax = 1
INVARIANT StopsAfterFinalize
PROPERTIES DetourTolerated GateFollows 
